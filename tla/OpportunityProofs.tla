------------------------- MODULE OpportunityProofs -------------------------
(***************************************************************************)
(* What the runs of one manual-once order keep, for any number of runs,    *)
(* directories, ranges and versions of the object: the request budget,     *)
(* evidence before archive, final publication, and that what is published  *)
(* passes the offline check.                                               *)
(***************************************************************************)
EXTENDS OpportunityAcquire, Integers, FiniteSetTheorems, TLAPS

(***************************************************************************)
(* The inductive invariant.  A run that is past Start has a directory that *)
(* is its alone; the exclusive claim makes one run the owner of the order, *)
(* and all that is sent, stored or listed is the owner's.  Its position in *)
(* the loop says how many requests were sent, how many ranges are listed,  *)
(* and which files of the present range are on disk.                       *)
(***************************************************************************)
Stated == [version : Nat, index : Nat, size : Int]
Body0 == Stated \cup {Absent}
Evidence0 == [body : Body0, retrieved : Int, total : Nat]
Claim0 == [claimedAt : Int]
Manifest0 == [startedAt : Int, completedAt : Int, claim : Claim0, requests : Nat, size : Nat,
              transferred : Int, listed : Seq(Evidence0)]

RunState == [step : Steps, output : Outputs \cup {Absent}, started : Int, owns : BOOLEAN, next : Nat,
             known : Nat, body : Body0, retrieved : Int, ready : Nat, listed : Seq(Evidence0),
             transferred : Int, completed : Int, requests : Nat, stepped : BOOLEAN]
OutputState == [exists : BOOLEAN, claim : Claim0 \cup {Absent},
                bodies : [1..MaximumRequests -> Body0],
                evidence : [1..MaximumRequests -> Evidence0 \cup {Absent}],
                archive : Seq(Body0) \cup {Absent}, manifest : Manifest0 \cup {Absent}]

Shape == /\ clock \in Nat /\ behind \in Nat /\ version \in DOMAIN Objects /\ consumed \in BOOLEAN
         /\ out \in [Outputs -> OutputState]
         /\ run \in [Runs -> RunState]

Holds(e) == e.owns \/ e.step \notin {"start"} \cup Ended
Last(e) == Len(BuildRanges(e.known))

Counts(e) ==
    /\ e.requests <= MaximumRequests /\ Len(e.listed) <= MaximumRequests
    /\ e.step \in {"start", "claim"} => ~e.owns
    /\ e.step \notin {"start", "claim"} \cup Ended => e.owns
    /\ ~e.owns => e.requests = 0 /\ e.listed = <<>> /\ e.next = 0
    /\ e.step = "copy" => e.requests = 0 /\ e.listed = <<>> /\ e.next = 0
    /\ e.step \in {"fetch", "await"} =>
          /\ e.requests = IF e.step = "fetch" THEN e.next ELSE e.next + 1
          /\ Len(e.listed) = e.next
          /\ e.next = 0 \/ e.next < Last(e)
    /\ e.step \in {"body", "evidence", "append"} =>
          /\ e.requests = e.next /\ Len(e.listed) = e.next - 1
          /\ e.next \in 1..Last(e) /\ e.body \in Stated
    /\ e.step \in {"rename", "complete", "manifest"} => e.requests > 0

OnDisk(e, d) ==
    /\ d.exists
    /\ d.manifest # Absent => e.step \in Ended
    /\ \A k \in 1..Len(e.listed) : d.bodies[k] = e.listed[k].body /\ d.evidence[k] = e.listed[k]
    /\ e.step \in {"evidence", "append"} => d.bodies[e.next] = e.body
    /\ e.step = "append" => d.evidence[e.next] = [body |-> e.body, retrieved |-> e.retrieved, total |-> e.known]

RunInv(e, outputs, claimed) ==
    /\ Counts(e)
    /\ Holds(e) => e.output \in Outputs /\ OnDisk(e, outputs[e.output])
    /\ e.owns => claimed

OwnDirectory == \A q, r \in Runs : Holds(run[q]) /\ Holds(run[r]) /\ run[q].output = run[r].output => q = r
OneOwner == \A q, r \in Runs : run[q].owns /\ run[r].owns => q = r
PublishedExists == \A o \in Outputs : out[o].manifest # Absent => out[o].exists

IInv == /\ Shape
        /\ OwnDirectory
        /\ OneOwner
        /\ PublishedExists
        /\ \A r \in Runs : RunInv(run[r], out, consumed)

(***************************************************************************)
(* Ranges.                                                                 *)
(***************************************************************************)
LEMMA FunctionIsSequence ==
    ASSUME NEW S, NEW n \in Nat, NEW f \in [1..n -> S]
    PROVE  f \in Seq(S) /\ Len(f) = n
OBVIOUS

LEMMA ElementOf ==
    ASSUME NEW S, NEW s \in Seq(S), NEW k \in 1..Len(s)
    PROVE  s[k] \in S
OBVIOUS

\* BuildRanges never asks for more ranges than the budget has requests.
LEMMA RangesWithinBudget ==
    ASSUME NEW total \in Nat
    PROVE  /\ Len(BuildRanges(total)) \in 0..MaximumRequests
           /\ BuildRanges(total) \in Seq([start : Int, end : Int])
           /\ total \in 1..MaximumArchive => Len(BuildRanges(total)) > 0
<1> USE OrderAssumption
<1>1. CASE total = 0 \/ total > MaximumArchive
  <2>1. BuildRanges(total) = <<>>
    BY <1>1 DEF BuildRanges
  <2>2. MaximumArchive \in Nat
    BY DEF MaximumArchive
  <2> QED BY <1>1, <2>1, <2>2
<1>2. CASE total > 0 /\ total <= MaximumArchive
  <2> DEFINE n == (total + RangeBytes - 1) \div RangeBytes
  <2>1. n \in Int /\ n * RangeBytes <= total + RangeBytes - 1 /\ total + RangeBytes - 1 < (n + 1) * RangeBytes
    OBVIOUS
  <2> HIDE DEF n
  <2>2. n > 0
    <3> SUFFICES ASSUME n + 1 <= 1 PROVE FALSE
      BY <2>1
    <3>1. (n + 1) * RangeBytes <= 1 * RangeBytes
      BY <2>1
    <3> QED BY <1>2, <2>1, <3>1
  <2>3. n <= MaximumRequests
    <3> SUFFICES ASSUME MaximumRequests + 1 <= n PROVE FALSE
      BY <2>1
    <3>1. (MaximumRequests + 1) * RangeBytes <= n * RangeBytes
      BY <2>1
    <3>2. (MaximumRequests + 1) * RangeBytes = MaximumArchive + RangeBytes
      BY DEF MaximumArchive
    <3>3. MaximumArchive \in Int
      BY DEF MaximumArchive
    <3> QED BY <1>2, <2>1, <3>1, <3>2, <3>3
  <2>4. BuildRanges(total) = [k \in 1..n |->
            [start |-> (k - 1) * RangeBytes,
             end   |-> IF k * RangeBytes >= total THEN total - 1 ELSE k * RangeBytes - 1]]
    BY <1>2 DEF BuildRanges, n, MaximumArchive
  <2>5. \A k \in 1..n : [start |-> (k - 1) * RangeBytes,
             end   |-> IF k * RangeBytes >= total THEN total - 1 ELSE k * RangeBytes - 1]
             \in [start : Int, end : Int]
    BY <2>1
  <2>6. BuildRanges(total) \in [1..n -> [start : Int, end : Int]]
    BY <2>4, <2>5
  <2>7. n \in Nat
    BY <2>1, <2>2
  <2>8. BuildRanges(total) \in Seq([start : Int, end : Int]) /\ Len(BuildRanges(total)) = n
    BY <2>6, <2>7, FunctionIsSequence
  <2> QED BY <2>2, <2>3, <2>7, <2>8
<1> QED BY <1>1, <1>2 DEF MaximumArchive

(***************************************************************************)
(* Where a step of one run leaves the invariant.                           *)
(***************************************************************************)
LEMMA RunStep ==
    ASSUME IInv, NEW r \in Runs, NEW new \in RunState, run' = [run EXCEPT ![r] = new],
           UNCHANGED <<clock, behind, version>>, consumed' \in BOOLEAN, consumed => consumed',
           new.owns => consumed' /\ (run[r].owns \/ ~consumed),
           Counts(new), Holds(new) => Holds(run[r]) /\ new.output = run[r].output,
           \/ out' = out
           \/ /\ Holds(run[r]) /\ out' \in [Outputs -> OutputState]
              /\ \A o \in Outputs \ {run[r].output} : out'[o] = out[o]
              /\ out'[run[r].output].exists,
           Holds(new) => OnDisk(new, out'[new.output])
    PROVE  IInv'
<1>1. run \in [Runs -> RunState] /\ out \in [Outputs -> OutputState] /\ consumed \in BOOLEAN
  BY DEF IInv, Shape
<1>2. run'[r] = new /\ \A q \in Runs \ {r} : run'[q] = run[q]
  BY <1>1
<1>3. Shape'
  BY <1>1, <1>2 DEF IInv, Shape
<1>4. \A q \in Runs : Holds(run'[q]) => Holds(run[q]) /\ run'[q].output = run[q].output
  BY <1>2
<1>5. OwnDirectory'
  BY <1>4 DEF IInv, OwnDirectory
<1>6. OneOwner'
  BY <1>2 DEF IInv, OneOwner, RunInv
<1>7. PublishedExists'
  BY DEF IInv, PublishedExists
<1>8. RunInv(run'[r], out', consumed')
  <2>1. Holds(new) => new.output \in Outputs
    BY DEF IInv, RunInv
  <2> QED BY <1>2, <2>1 DEF RunInv
<1>9. ASSUME NEW q \in Runs \ {r}
      PROVE  RunInv(run'[q], out', consumed')
  <2>1. RunInv(run[q], out, consumed) /\ run'[q] = run[q]
    BY <1>2 DEF IInv
  <2>2. Holds(run[q]) => out'[run[q].output] = out[run[q].output]
    BY <2>1 DEF IInv, RunInv, OwnDirectory
  <2> QED BY <2>1, <2>2 DEF RunInv
<1> QED BY <1>3, <1>5, <1>6, <1>7, <1>8, <1>9 DEF IInv

\* What a run that ends keeps.
LEMMA StoppedIs ==
    ASSUME IInv, NEW r \in Runs
    PROVE  /\ Stopped(r) \in RunState /\ Stopped(r).step = "stopped"
           /\ (Stopped(r).owns <=> run[r].owns) /\ Stopped(r).requests = run[r].requests
           /\ Stopped(r).listed = run[r].listed
           /\ Holds(Stopped(r)) => run[r].owns /\ Stopped(r).output = run[r].output
           /\ Counts(Stopped(r))
<1>1. run[r] \in RunState /\ Counts(run[r])
  BY DEF IInv, Shape, RunInv
<1>2. Fresh \in RunState /\ Fresh.owns = FALSE /\ Fresh.requests = 0 /\ Fresh.listed = <<>> /\ Fresh.next = 0
  BY DEF Fresh, RunState, Steps, Ended, Body0
<1>3. CASE run[r].owns
  <2> DEFINE new == [Fresh EXCEPT !.step = "stopped", !.output = run[r].output, !.owns = TRUE,
                                  !.listed = run[r].listed, !.requests = run[r].requests,
                                  !.stepped = run[r].stepped]
  <2>1. new \in RunState /\ new.step = "stopped" /\ new.owns = TRUE /\ new.output = run[r].output
        /\ new.listed = run[r].listed /\ new.requests = run[r].requests
    BY <1>1, <1>2 DEF RunState, Steps, Ended
  <2>2. Stopped(r) = new
    BY <1>3 DEF Stopped
  <2>3. Counts(new)
    BY <1>1, <2>1 DEF Counts, Ended
  <2> HIDE DEF new
  <2> QED BY <1>3, <2>1, <2>2, <2>3
<1>4. CASE ~run[r].owns
  <2> DEFINE new == [Fresh EXCEPT !.step = "stopped"]
  <2>1. new \in RunState /\ new.step = "stopped" /\ new.owns = FALSE /\ new.requests = 0
        /\ new.listed = <<>> /\ new.next = 0
    BY <1>2 DEF RunState, Steps, Ended
  <2>2. Stopped(r) = new
    BY <1>4 DEF Stopped
  <2>3. Counts(new) /\ ~Holds(new)
    BY <2>1, OrderAssumption DEF Counts, Ended, Holds
  <2>4. run[r].requests = 0 /\ run[r].listed = <<>> /\ run[r].owns = FALSE
    BY <1>1, <1>4 DEF Counts, RunState
  <2> HIDE DEF new
  <2> QED BY <2>1, <2>2, <2>3, <2>4
<1> QED BY <1>3, <1>4

LEMMA StopKeeps ==
    ASSUME IInv, NEW r \in Runs, Stop(r), UNCHANGED <<clock, behind, version, out>>,
           consumed' \in BOOLEAN, consumed => consumed'
    PROVE  IInv'
<1>1. run' = [run EXCEPT ![r] = Stopped(r)]
  BY DEF Stop
<1>2. Stopped(r).owns => consumed'
  BY StoppedIs DEF IInv, RunInv
<1>3. Holds(Stopped(r)) => OnDisk(Stopped(r), out'[Stopped(r).output])
  <2>1. ASSUME run[r].owns PROVE OnDisk(run[r], out[run[r].output])
    BY <2>1 DEF IInv, RunInv, Holds
  <2> QED BY <2>1, StoppedIs DEF OnDisk, Ended
<1> QED BY <1>1, <1>2, <1>3, StoppedIs, RunStep DEF Holds

(***************************************************************************)
(* The start of a run, and the claim.                                      *)
(***************************************************************************)
LEMMA StartKeeps ==
    ASSUME IInv, NEW r \in Runs, Start(r)
    PROVE  IInv'
<1>1. PICK o \in Outputs :
          /\ ~out[o].exists
          /\ out' = [out EXCEPT ![o].exists = TRUE]
          /\ run' = [run EXCEPT ![r].step = "claim", ![r].output = o, ![r].started = Wall]
  BY DEF Start
<1> DEFINE new == [run[r] EXCEPT !.step = "claim", !.output = o, !.started = Wall]
           d   == [out[o] EXCEPT !.exists = TRUE]
<1>2. /\ run \in [Runs -> RunState] /\ out \in [Outputs -> OutputState]
      /\ run[r] \in RunState /\ out[o] \in OutputState /\ Wall \in Int
  BY DEF IInv, Shape, Wall
<1>3. /\ new \in RunState /\ new.step = "claim" /\ new.output = o /\ new.owns = run[r].owns
      /\ new.requests = run[r].requests /\ new.listed = run[r].listed /\ new.next = run[r].next
  BY <1>2 DEF RunState, Steps
<1>4. /\ d \in OutputState /\ d.exists /\ d.manifest = out[o].manifest
  BY <1>2 DEF OutputState
<1>5. run' = [run EXCEPT ![r] = new] /\ out' = [out EXCEPT ![o] = d]
  BY <1>1, <1>2
<1> HIDE DEF new, d
<1>6. run'[r] = new /\ out'[o] = d /\ (\A q \in Runs \ {r} : run'[q] = run[q])
      /\ (\A p \in Outputs \ {o} : out'[p] = out[p])
  BY <1>2, <1>5
<1>7. Shape'
  BY <1>2, <1>3, <1>4, <1>5 DEF IInv, Shape, Start
<1>8. run[r].step = "start" /\ Counts(run[r]) /\ ~run[r].owns /\ run[r].listed = <<>>
  BY DEF IInv, RunInv, Counts, Start, At
<1>9. \A q \in Runs \ {r} : Holds(run[q]) => run[q].output # o
  BY <1>1 DEF IInv, RunInv, OnDisk
<1>10. OwnDirectory' /\ OneOwner'
  BY <1>3, <1>6, <1>8, <1>9 DEF IInv, OwnDirectory, OneOwner
<1>11. PublishedExists'
  BY <1>4, <1>6 DEF IInv, PublishedExists
<1>12. Counts(new) /\ ~new.owns
  BY <1>3, <1>8 DEF Counts, Ended
<1>13. OnDisk(new, d)
  BY <1>1, <1>3, <1>4, <1>8 DEF OnDisk, IInv, PublishedExists
<1>14. RunInv(run'[r], out', consumed')
  BY <1>3, <1>6, <1>12, <1>13 DEF RunInv
<1>15. ASSUME NEW q \in Runs \ {r}
       PROVE  RunInv(run'[q], out', consumed')
  <2>1. RunInv(run[q], out, consumed) /\ run'[q] = run[q]
    BY <1>6 DEF IInv
  <2>2. Holds(run[q]) => out'[run[q].output] = out[run[q].output]
    BY <1>6, <1>9, <2>1 DEF RunInv
  <2> QED BY <2>1, <2>2 DEF RunInv, Start
<1> QED BY <1>7, <1>10, <1>11, <1>14, <1>15 DEF IInv

LEMMA ClaimKeeps ==
    ASSUME IInv, NEW r \in Runs, ClaimExecution(r)
    PROVE  IInv'
<1>1. CASE consumed
  BY <1>1, StopKeeps DEF ClaimExecution
<1>2. CASE ~consumed
  <2> DEFINE new == [run[r] EXCEPT !.step = "copy", !.owns = TRUE]
  <2>1. run[r] \in RunState /\ RunInv(run[r], out, consumed) /\ run[r].step = "claim"
        /\ run \in [Runs -> RunState]
    BY DEF IInv, Shape, ClaimExecution, At
  <2>2. /\ new \in RunState /\ new.step = "copy" /\ new.owns = TRUE /\ new.output = run[r].output
        /\ new.requests = run[r].requests /\ new.listed = run[r].listed /\ new.next = run[r].next
    BY <2>1 DEF RunState, Steps
  <2>3. run' = [run EXCEPT ![r] = new]
    BY <1>2, <2>1 DEF ClaimExecution
  <2> HIDE DEF new
  <2>4. Counts(new) /\ new.listed = <<>>
    BY <2>1, <2>2 DEF RunInv, Counts, Ended
  <2>5. Holds(run[r])
    BY <2>1 DEF Holds, Ended
  <2>6. OnDisk(new, out[run[r].output])
    BY <2>1, <2>2, <2>4, <2>5 DEF RunInv, OnDisk, Ended
  <2> QED BY <1>2, <2>2, <2>3, <2>4, <2>5, <2>6, RunStep DEF ClaimExecution
<1> QED BY <1>1, <1>2

(***************************************************************************)
(* The range loop of the owner.                                            *)
(***************************************************************************)
\* The step a run is at, as the table of Following gives it.
LEMMA NextStep ==
    ASSUME IInv, NEW r \in Runs, run[r].step \in DOMAIN Following(r)
    PROVE  LET a == Advanced(r)
           IN /\ a \in RunState
              /\ a.step = Following(r)[run[r].step]
              /\ a.output = run[r].output /\ a.started = run[r].started /\ a.owns = run[r].owns
              /\ a.next = run[r].next /\ a.known = run[r].known /\ a.body = run[r].body
              /\ a.retrieved = run[r].retrieved /\ a.ready = run[r].ready /\ a.listed = run[r].listed
              /\ a.transferred = run[r].transferred /\ a.completed = run[r].completed
              /\ a.requests = run[r].requests /\ a.stepped = run[r].stepped
<1>1. run[r] \in RunState
  BY DEF IInv, Shape
<1>2. Following(r)[run[r].step] \in Steps
  BY DEF Following, Steps, Ended
<1> DEFINE s == Following(r)[run[r].step]
<1>3. Advanced(r) = [run[r] EXCEPT !.step = s]
  BY <1>1 DEF Advanced, RunState
<1> HIDE DEF s
<1>4. s \in Steps
  BY <1>2 DEF s
<1>5. LET a == [run[r] EXCEPT !.step = s]
      IN /\ a \in RunState
         /\ a.step = s
         /\ a.output = run[r].output /\ a.started = run[r].started /\ a.owns = run[r].owns
         /\ a.next = run[r].next /\ a.known = run[r].known /\ a.body = run[r].body
         /\ a.retrieved = run[r].retrieved /\ a.ready = run[r].ready /\ a.listed = run[r].listed
         /\ a.transferred = run[r].transferred /\ a.completed = run[r].completed
         /\ a.requests = run[r].requests /\ a.stepped = run[r].stepped
  BY <1>1, <1>4 DEF RunState
<1> QED BY <1>3, <1>5 DEF s

LEMMA Moves ==
    ASSUME NEW r \in Runs
    PROVE  /\ DOMAIN Following(r) = {"copy", "fetch", "await", "body", "append", "evidence", "rename",
                                    "complete", "manifest"}
           /\ Following(r)["copy"] = "fetch" /\ Following(r)["fetch"] = "await"
           /\ Following(r)["await"] = "body" /\ Following(r)["body"] = "evidence"
           /\ Following(r)["evidence"] = "append"
           /\ LastRange(r) => Following(r)["append"] = "rename"
           /\ ~LastRange(r) => Following(r)["append"] = "fetch"
           /\ Following(r)["rename"] = "complete" /\ Following(r)["complete"] = "manifest"
           /\ Following(r)["manifest"] = "done"
BY DEF Following

\* The owner, in the loop.
LEMMA InTheLoop ==
    ASSUME IInv, NEW r \in Runs, run[r].step \in DOMAIN Following(r)
    PROVE  /\ run[r] \in RunState /\ run[r].owns /\ consumed /\ Holds(run[r])
           /\ run[r].output \in Outputs /\ out[run[r].output] \in OutputState
           /\ Counts(run[r]) /\ OnDisk(run[r], out[run[r].output])
           /\ out[run[r].output].manifest = Absent
<1>1. run[r].step \notin {"start", "claim"} \cup Ended
  BY Moves DEF Ended
<1>2. RunInv(run[r], out, consumed) /\ run[r] \in RunState
  BY DEF IInv, Shape
<1>3. run[r].owns /\ Holds(run[r])
  BY <1>1, <1>2 DEF RunInv, Counts, Holds
<1> QED BY <1>1, <1>2, <1>3 DEF IInv, Shape, RunInv, OnDisk

\* The types of the fields that the counting steps look at.
LEMMA FieldTypes ==
    ASSUME NEW e \in RunState
    PROVE  /\ e.next \in Nat /\ e.known \in Nat /\ e.requests \in Nat /\ e.retrieved \in Int
           /\ e.body \in Body0 /\ e.listed \in Seq(Evidence0) /\ Len(e.listed) \in Nat
BY DEF RunState

LEMMA SendKeeps ==
    ASSUME IInv, NEW r \in Runs, Send(r)
    PROVE  IInv'
<1> DEFINE a == Advanced(r)
           sent == a.requests + 1
           new == [a EXCEPT !.requests = sent]
<1>1. run[r].step = "fetch" /\ run[r].step \in DOMAIN Following(r)
  BY Moves DEF Send, At
<1>2. /\ a \in RunState /\ a.step = "await"
      /\ a.output = run[r].output /\ a.owns = run[r].owns /\ a.next = run[r].next
      /\ a.known = run[r].known /\ a.listed = run[r].listed /\ a.requests = run[r].requests
  BY <1>1, NextStep, Moves
<1>3. run' = [run EXCEPT ![r] = new]
  BY DEF Send
<1> HIDE DEF a
<1>4. /\ new \in RunState /\ new.step = "await"
      /\ new.output = run[r].output /\ new.owns = run[r].owns /\ new.next = run[r].next
      /\ new.known = run[r].known /\ new.listed = run[r].listed /\ new.requests = run[r].requests + 1
  <2>1. sent \in Nat /\ sent = run[r].requests + 1
    BY <1>2, FieldTypes
  <2> HIDE DEF sent
  <2> QED BY <1>2, <2>1 DEF RunState
<1> HIDE DEF new
<1>5. /\ run[r].owns /\ consumed /\ Holds(run[r]) /\ Counts(run[r])
      /\ OnDisk(run[r], out[run[r].output])
  BY <1>1, InTheLoop
<1>6. Last(new) \in 0..MaximumRequests /\ Last(run[r]) = Last(new)
  BY <1>4, RangesWithinBudget DEF RunState, Last
<1>7. Counts(new)
  <2>1. /\ run[r].requests = run[r].next /\ Len(run[r].listed) = run[r].next
        /\ run[r].next = 0 \/ run[r].next < Last(run[r])
    BY <1>1, <1>5 DEF Counts
  <2>2. /\ new.requests = new.next + 1 /\ Len(new.listed) = new.next
        /\ new.next = 0 \/ new.next < Last(new)
    BY <1>4, <1>6, <2>1
  <2>3. new.requests <= MaximumRequests /\ Len(new.listed) <= MaximumRequests
    <3>1. new.next \in Nat
      BY <1>4, FieldTypes
    <3> QED BY <1>6, <2>2, <3>1, OrderAssumption
  <2> QED BY <1>4, <1>5, <2>2, <2>3 DEF Counts, Ended
<1>8. OnDisk(new, out[run[r].output])
  BY <1>1, <1>4, <1>5 DEF OnDisk, Ended
<1> QED BY <1>3, <1>4, <1>5, <1>7, <1>8, RunStep DEF Send

LEMMA FetchedKeeps ==
    ASSUME IInv, NEW r \in Runs, Fetched(r)
    PROVE  IInv'
<1> DEFINE a == Advanced(r)
           total == Objects[version]
           following == a.next + 1
           body == Body(r)
           new == [a EXCEPT !.next = following, !.body = body, !.known = total, !.retrieved = Wall]
<1>1. run[r].step = "await" /\ run[r].step \in DOMAIN Following(r)
  BY Moves DEF Fetched, At
<1>2. /\ a \in RunState /\ a.step = "body"
      /\ a.output = run[r].output /\ a.owns = run[r].owns /\ a.next = run[r].next
      /\ a.listed = run[r].listed /\ a.requests = run[r].requests
  BY <1>1, NextStep, Moves
<1>3. run' = [run EXCEPT ![r] = new] /\ Acceptable(r, total)
  BY DEF Fetched
<1>4. /\ run[r].owns /\ consumed /\ Holds(run[r]) /\ Counts(run[r])
      /\ OnDisk(run[r], out[run[r].output]) /\ run[r] \in RunState
  BY <1>1, InTheLoop
<1>5. total \in Nat /\ total > 0 /\ version \in Nat
  BY OrderAssumption DEF IInv, Shape
<1> HIDE DEF a, total
<1>6. total \in 1..MaximumArchive /\ run[r].known \in {0, total}
  BY <1>3, <1>5, OrderAssumption DEF Acceptable, MaximumArchive
<1>7. /\ Len(BuildRanges(total)) \in 1..MaximumRequests
      /\ \A k \in 1..Len(BuildRanges(total)) : BuildRanges(total)[k] \in [start : Int, end : Int]
  <2>1. /\ BuildRanges(total) \in Seq([start : Int, end : Int]) /\ Len(BuildRanges(total)) > 0
        /\ Len(BuildRanges(total)) \in 0..MaximumRequests
    BY <1>5, <1>6, RangesWithinBudget
  <2>2. \A k \in 1..Len(BuildRanges(total)) : BuildRanges(total)[k] \in [start : Int, end : Int]
    BY <2>1, ElementOf
  <2>3. MaximumRequests \in Nat
    BY OrderAssumption
  <2> QED BY <2>1, <2>2, <2>3
<1>8. run[r].next # 0 => run[r].known = total /\ run[r].next < Len(BuildRanges(total))
  <2>1. Len(BuildRanges(0)) = 0
    BY DEF BuildRanges
  <2> QED BY <1>1, <1>4, <1>6, <2>1 DEF Counts, Last, RunState
<1>9. run[r].next + 1 \in 1..Len(BuildRanges(total))
  BY <1>4, <1>7, <1>8 DEF RunState
<1>10. Body(r) \in Stated
  <2>1. CASE run[r].next = 0
    BY <1>4, <1>5, <2>1, OrderAssumption DEF Body, Stated, NextRange, First, Size, RunState
  <2>2. CASE run[r].next # 0
    <3>1. NextRange(r) \in [start : Int, end : Int]
      BY <1>7, <1>8, <1>9, <2>2 DEF NextRange
    <3>2. Size(NextRange(r)) \in Int
      BY <3>1 DEF Size
    <3> QED BY <1>4, <1>5, <3>2 DEF Body, Stated, RunState
  <2> QED BY <2>1, <2>2
<1>11. /\ new \in RunState /\ new.step = "body"
       /\ new.output = run[r].output /\ new.owns = run[r].owns /\ new.next = run[r].next + 1
       /\ new.known = total /\ new.body = Body(r) /\ new.listed = run[r].listed /\ new.requests = run[r].requests
  <2>1. Wall \in Int
    BY DEF IInv, Shape, Wall
  <2>2. body \in Body0
    BY <1>10 DEF Body0
  <2>3. following \in Nat /\ following = run[r].next + 1
    BY <1>2, FieldTypes
  <2> HIDE DEF following, body
  <2>4. new \in RunState
    BY <1>2, <1>5, <2>1, <2>2, <2>3 DEF RunState
  <2>5. /\ new.step = a.step /\ new.output = a.output /\ new.owns = a.owns /\ new.next = following
        /\ new.known = total /\ new.body = body /\ new.listed = a.listed /\ new.requests = a.requests
    BY <1>2 DEF RunState
  <2> QED BY <1>2, <2>3, <2>4, <2>5 DEF body
<1> HIDE DEF new
<1>12. Counts(new)
  <2>1. /\ run[r].requests = run[r].next + 1 /\ Len(run[r].listed) = run[r].next
        /\ run[r].requests <= MaximumRequests /\ Len(run[r].listed) <= MaximumRequests
    BY <1>1, <1>4 DEF Counts
  <2>2. /\ new.requests = new.next /\ Len(new.listed) = new.next - 1
        /\ new.requests <= MaximumRequests /\ Len(new.listed) <= MaximumRequests
    <3>1. run[r].next \in Nat
      BY <1>4, FieldTypes
    <3> QED BY <1>11, <2>1, <3>1
  <2>3. new.next \in 1..Last(new) /\ new.body \in Stated
    BY <1>9, <1>10, <1>11 DEF Last
  <2> QED BY <1>4, <1>11, <2>2, <2>3 DEF Counts, Ended
<1>13. OnDisk(new, out[run[r].output])
  BY <1>1, <1>4, <1>11 DEF OnDisk, Ended
<1> QED BY <1>3, <1>4, <1>11, <1>12, <1>13, RunStep DEF Fetched

LEMMA AppendKeeps ==
    ASSUME IInv, NEW r \in Runs, AppendChunk(r)
    PROVE  IInv'
<1> DEFINE a == Advanced(r)
           listing == Append(a.listed, Evidence(r))
           sum == a.transferred + run[r].body.size
           ready == clock + RequestInterval
           new == [a EXCEPT !.listed = listing, !.transferred = sum, !.ready = ready]
<1>1. run[r].step = "append" /\ run[r].step \in DOMAIN Following(r)
  BY Moves DEF AppendChunk, At
<1>2. /\ a \in RunState /\ a.step = Following(r)["append"]
      /\ a.output = run[r].output /\ a.owns = run[r].owns /\ a.next = run[r].next
      /\ a.known = run[r].known /\ a.body = run[r].body /\ a.retrieved = run[r].retrieved
      /\ a.listed = run[r].listed /\ a.requests = run[r].requests /\ a.transferred = run[r].transferred
  BY <1>1, NextStep, Moves
<1>3. run' = [run EXCEPT ![r] = new]
  BY DEF AppendChunk
<1>4. /\ run[r].owns /\ consumed /\ Holds(run[r]) /\ Counts(run[r])
      /\ OnDisk(run[r], out[run[r].output]) /\ run[r] \in RunState
  BY <1>1, InTheLoop
<1>5. Evidence(r) \in Evidence0
  BY <1>4 DEF Evidence, Evidence0, RunState
<1>6. Append(run[r].listed, Evidence(r)) \in Seq(Evidence0)
      /\ Len(Append(run[r].listed, Evidence(r))) = Len(run[r].listed) + 1
  BY <1>4, <1>5 DEF RunState
<1> HIDE DEF a
<1>7. run[r].body.size \in Int
  BY <1>1, <1>4 DEF Counts, Stated
<1>8. /\ new \in RunState /\ new.step = a.step
      /\ new.output = run[r].output /\ new.owns = run[r].owns /\ new.next = run[r].next
      /\ new.known = run[r].known /\ new.listed = Append(run[r].listed, Evidence(r))
      /\ new.requests = run[r].requests
  <2>1. ready \in Nat
    BY OrderAssumption DEF IInv, Shape
  <2>2. sum \in Int
    BY <1>2, <1>4, <1>7 DEF RunState
  <2>3. listing \in Seq(Evidence0) /\ listing = Append(run[r].listed, Evidence(r))
    BY <1>2, <1>6
  <2> HIDE DEF ready, sum, listing
  <2>4. new \in RunState
    BY <1>2, <2>1, <2>2, <2>3 DEF RunState
  <2>5. /\ new.step = a.step /\ new.output = a.output /\ new.owns = a.owns /\ new.next = a.next
        /\ new.known = a.known /\ new.listed = listing /\ new.requests = a.requests
    BY <1>2 DEF RunState
  <2> QED BY <1>2, <2>3, <2>4, <2>5
<1> HIDE DEF new
<1>9. /\ Last(new) = Last(run[r]) /\ Last(new) \in 0..MaximumRequests
      /\ LastRange(r) <=> new.next = Last(new)
  BY <1>4, <1>8, RangesWithinBudget DEF RunState, Last, LastRange
<1>10. new.step = IF LastRange(r) THEN "rename" ELSE "fetch"
  BY <1>2, <1>8, Moves
<1>11. Counts(new)
  <2>1. run[r].next \in 1..Last(run[r]) /\ run[r].next \in Nat /\ Last(run[r]) \in Nat
        /\ run[r].requests = run[r].next /\ Len(run[r].listed) = run[r].next - 1
        /\ run[r].requests <= MaximumRequests
    BY <1>1, <1>4, <1>9, OrderAssumption DEF Counts, RunState
  <2>2. Len(new.listed) = new.next /\ new.requests = new.next /\ new.next > 0 /\ new.owns
        /\ new.next <= MaximumRequests /\ (new.step = "fetch" => new.next < Last(new))
    BY <1>4, <1>6, <1>8, <1>9, <1>10, <2>1, OrderAssumption
  <2> QED BY <1>10, <2>2 DEF Counts, Ended
<1>12. OnDisk(new, out[run[r].output])
  <2> DEFINE d == out[run[r].output]
  <2>1. \A k \in 1..Len(new.listed) : d.bodies[k] = new.listed[k].body /\ d.evidence[k] = new.listed[k]
    <3> SUFFICES ASSUME NEW k \in 1..Len(new.listed)
                 PROVE  d.bodies[k] = new.listed[k].body /\ d.evidence[k] = new.listed[k]
      OBVIOUS
    <3>1. CASE k <= Len(run[r].listed)
      <4>1. k \in 1..Len(run[r].listed) /\ new.listed[k] = run[r].listed[k]
        BY <1>4, <1>5, <1>8, <3>1 DEF RunState
      <4> QED BY <1>4, <4>1 DEF OnDisk
    <3>2. CASE k = Len(run[r].listed) + 1
      <4>1. new.listed[k] = Evidence(r) /\ k = run[r].next
        <5>1. Len(run[r].listed) = run[r].next - 1
          BY <1>1, <1>4 DEF Counts
        <5>2. run[r].next \in Nat /\ run[r].listed \in Seq(Evidence0)
          BY <1>4, FieldTypes
        <5> QED BY <1>5, <1>8, <3>2, <5>1, <5>2
      <4>2. Evidence(r).body = run[r].body
        BY DEF Evidence
      <4> QED BY <1>1, <1>4, <4>1, <4>2 DEF OnDisk, Evidence
    <3>3. Len(run[r].listed) \in Nat /\ Len(new.listed) = Len(run[r].listed) + 1
      BY <1>4, <1>6, <1>8, FieldTypes
    <3> QED BY <3>1, <3>2, <3>3
  <2> QED BY <1>1, <1>4, <1>10, <2>1 DEF OnDisk, Ended
<1> QED BY <1>3, <1>4, <1>8, <1>11, <1>12, RunStep DEF AppendChunk

LEMMA CompleteKeeps ==
    ASSUME IInv, NEW r \in Runs, Complete(r)
    PROVE  IInv'
<1>1. CASE Wall < Expires
  <2> DEFINE a == Advanced(r)
             new == [a EXCEPT !.completed = Wall]
  <2>1. run[r].step = "complete" /\ run[r].step \in DOMAIN Following(r)
    BY Moves DEF Complete, At
  <2>2. /\ a \in RunState /\ a.step = "manifest"
        /\ a.output = run[r].output /\ a.owns = run[r].owns
        /\ a.listed = run[r].listed /\ a.requests = run[r].requests
    BY <2>1, NextStep, Moves
  <2>3. run' = [run EXCEPT ![r] = new]
    BY <1>1 DEF Complete
  <2>4. /\ run[r].owns /\ consumed /\ Holds(run[r]) /\ Counts(run[r])
        /\ OnDisk(run[r], out[run[r].output])
    BY <2>1, InTheLoop
  <2> HIDE DEF a
  <2>5. Wall \in Int
    BY DEF IInv, Shape, Wall
  <2>6. /\ new \in RunState /\ new.step = "manifest"
        /\ new.output = run[r].output /\ new.owns = run[r].owns
        /\ new.listed = run[r].listed /\ new.requests = run[r].requests
    BY <2>2, <2>5 DEF RunState
  <2> HIDE DEF new
  <2>7. Counts(new)
    BY <2>1, <2>4, <2>6 DEF Counts, Ended
  <2>8. OnDisk(new, out[run[r].output])
    BY <2>1, <2>4, <2>6 DEF OnDisk, Ended
  <2> QED BY <2>3, <2>4, <2>6, <2>7, <2>8, RunStep DEF Complete
<1>2. CASE ~(Wall < Expires)
  BY <1>2, StopKeeps DEF Complete, IInv, Shape
<1> QED BY <1>1, <1>2

(***************************************************************************)
(* The files of the directory.  Write and Stops share what Written makes   *)
(* of it: the listed ranges stay what they are.                            *)
(***************************************************************************)
LEMMA WrittenIs ==
    ASSUME IInv, NEW r \in Runs, run[r].step \in Writes
    PROVE  LET o == run[r].output
               d == Written(r)[o]
           IN /\ Written(r) \in [Outputs -> OutputState]
              /\ \A p \in Outputs \ {o} : Written(r)[p] = out[p]
              /\ d.exists
              /\ run[r].step # "manifest" => d.manifest = Absent
              /\ \A k \in 1..Len(run[r].listed) :
                    d.bodies[k] = run[r].listed[k].body /\ d.evidence[k] = run[r].listed[k]
              /\ run[r].step \in {"body", "evidence"} => d.bodies[run[r].next] = run[r].body
              /\ run[r].step = "evidence" => d.evidence[run[r].next] = Evidence(r)
<1> DEFINE o == run[r].output
           k == run[r].next
<1>1. /\ run[r] \in RunState /\ o \in Outputs /\ out[o] \in OutputState /\ out \in [Outputs -> OutputState]
      /\ Counts(run[r]) /\ OnDisk(run[r], out[o]) /\ out[o].manifest = Absent
  BY InTheLoop, Moves DEF Writes, IInv, Shape
<1>2. /\ out[o].exists
      /\ \A i \in 1..Len(run[r].listed) :
            out[o].bodies[i] = run[r].listed[i].body /\ out[o].evidence[i] = run[r].listed[i]
      /\ run[r].step = "evidence" => out[o].bodies[k] = run[r].body
  BY <1>1 DEF OnDisk
<1>3. run[r].step \in {"body", "evidence"} =>
         k \in 1..MaximumRequests /\ Len(run[r].listed) \in Nat /\ Len(run[r].listed) < k
         /\ Len(run[r].listed) <= MaximumRequests
  <2>1. Last(run[r]) \in 0..MaximumRequests
    BY <1>1, RangesWithinBudget DEF RunState, Last
  <2>2. run[r].next \in Nat /\ Len(run[r].listed) \in Nat
    BY <1>1, FieldTypes
  <2>3. /\ Len(run[r].listed) <= MaximumRequests
        /\ run[r].step \in {"body", "evidence"} => Len(run[r].listed) = k - 1 /\ k \in 1..Last(run[r])
    BY <1>1 DEF Counts
  <2> QED BY <2>1, <2>2, <2>3, OrderAssumption
<1>4. CASE run[r].step = "copy"
  <2> DEFINE c == Claim(r)
             d == [out[o] EXCEPT !.claim = c]
  <2>1. c \in Claim0
    BY <1>1 DEF Claim, Claim0, Second, RunState
  <2>2. Written(r) = [out EXCEPT ![o] = d]
    BY <1>1, <1>4 DEF Written, At
  <2> HIDE DEF c
  <2>3. d \in OutputState /\ d.exists = out[o].exists /\ d.bodies = out[o].bodies
        /\ d.evidence = out[o].evidence /\ d.manifest = out[o].manifest
    BY <1>1, <2>1 DEF OutputState
  <2> HIDE DEF d
  <2>4. /\ Written(r) \in [Outputs -> OutputState] /\ Written(r)[o] = d
        /\ \A p \in Outputs \ {o} : Written(r)[p] = out[p]
    BY <1>1, <2>2, <2>3
  <2> QED BY <1>1, <1>2, <1>4, <2>3, <2>4
<1>5. CASE run[r].step = "body"
  <2> DEFINE b == [out[o].bodies EXCEPT ![k] = run[r].body]
             d == [out[o] EXCEPT !.bodies = b]
  <2>1. b \in [1..MaximumRequests -> Body0] /\ b[k] = run[r].body
        /\ \A i \in 1..Len(run[r].listed) : b[i] = out[o].bodies[i]
    <3>1. out[o].bodies \in [1..MaximumRequests -> Body0] /\ run[r].body \in Body0
      BY <1>1 DEF RunState, OutputState
    <3>2. k \in 1..MaximumRequests /\ \A i \in 1..Len(run[r].listed) : i # k /\ i \in 1..MaximumRequests
      BY <1>3, <1>5, OrderAssumption
    <3> QED BY <3>1, <3>2
  <2>2. Written(r) = [out EXCEPT ![o] = d]
    BY <1>1, <1>5 DEF Written, At
  <2> HIDE DEF b
  <2>3. d \in OutputState /\ d.exists = out[o].exists /\ d.bodies = b
        /\ d.evidence = out[o].evidence /\ d.manifest = out[o].manifest
    BY <1>1, <2>1 DEF OutputState
  <2> HIDE DEF d
  <2>4. /\ Written(r) \in [Outputs -> OutputState] /\ Written(r)[o] = d
        /\ \A p \in Outputs \ {o} : Written(r)[p] = out[p]
    BY <1>1, <2>2, <2>3
  <2>5. d.bodies[k] = run[r].body /\ \A i \in 1..Len(run[r].listed) :
           d.bodies[i] = run[r].listed[i].body /\ d.evidence[i] = run[r].listed[i]
    BY <1>2, <2>1, <2>3
  <2> QED BY <1>1, <1>2, <1>5, <2>3, <2>4, <2>5
<1>6. CASE run[r].step = "evidence"
  <2> DEFINE x == Evidence(r)
             v == [out[o].evidence EXCEPT ![k] = x]
             d == [out[o] EXCEPT !.evidence = v]
  <2>1. x \in Evidence0
    BY <1>1 DEF Evidence, Evidence0, RunState
  <2>2. Written(r) = [out EXCEPT ![o] = d]
    BY <1>1, <1>6 DEF Written, At
  <2> HIDE DEF x
  <2>3. v \in [1..MaximumRequests -> Evidence0 \cup {Absent}] /\ v[k] = x
        /\ \A i \in 1..Len(run[r].listed) : v[i] = out[o].evidence[i]
    <3>1. out[o].evidence \in [1..MaximumRequests -> Evidence0 \cup {Absent}]
      BY <1>1 DEF OutputState
    <3>2. k \in 1..MaximumRequests /\ \A i \in 1..Len(run[r].listed) : i # k /\ i \in 1..MaximumRequests
      BY <1>3, <1>6, OrderAssumption
    <3> QED BY <2>1, <3>1, <3>2
  <2> HIDE DEF v
  <2>4. d \in OutputState /\ d.exists = out[o].exists /\ d.bodies = out[o].bodies
        /\ d.evidence = v /\ d.manifest = out[o].manifest
    BY <1>1, <2>3 DEF OutputState
  <2> HIDE DEF d
  <2>5. /\ Written(r) \in [Outputs -> OutputState] /\ Written(r)[o] = d
        /\ \A p \in Outputs \ {o} : Written(r)[p] = out[p]
    BY <1>1, <2>2, <2>4
  <2>6. d.evidence[k] = Evidence(r)
    BY <2>3, <2>4 DEF x
  <2>7. \A i \in 1..Len(run[r].listed) : d.evidence[i] = run[r].listed[i] /\ d.bodies[i] = run[r].listed[i].body
    BY <1>2, <2>3, <2>4
  <2> QED BY <1>1, <1>2, <1>6, <2>4, <2>5, <2>6, <2>7
<1>7. CASE run[r].step = "rename"
  <2> DEFINE a == Archived(run[r].listed)
             d == [out[o] EXCEPT !.archive = a]
  <2>1. a \in Seq(Body0)
    <3>1. \A i \in 1..Len(run[r].listed) : run[r].listed[i] \in Evidence0
      BY <1>1, ElementOf DEF RunState
    <3>2. a \in [1..Len(run[r].listed) -> Body0] /\ Len(run[r].listed) \in Nat
      <4>1. Len(run[r].listed) \in Nat
        BY <1>1, FieldTypes
      <4>2. \A i \in 1..Len(run[r].listed) : run[r].listed[i].body \in Body0
        BY <3>1 DEF Evidence0
      <4> QED BY <4>1, <4>2 DEF Archived
    <3> QED BY <3>2, FunctionIsSequence
  <2>2. Written(r) = [out EXCEPT ![o] = d]
    BY <1>1, <1>7 DEF Written, At
  <2> HIDE DEF a
  <2>3. d \in OutputState /\ d.exists = out[o].exists /\ d.bodies = out[o].bodies
        /\ d.evidence = out[o].evidence /\ d.manifest = out[o].manifest
    BY <1>1, <2>1 DEF OutputState
  <2> HIDE DEF d
  <2>4. /\ Written(r) \in [Outputs -> OutputState] /\ Written(r)[o] = d
        /\ \A p \in Outputs \ {o} : Written(r)[p] = out[p]
    BY <1>1, <2>2, <2>3
  <2> QED BY <1>1, <1>2, <1>7, <2>3, <2>4
<1>8. CASE run[r].step = "manifest"
  <2> DEFINE m == Manifest(r)
             d == [out[o] EXCEPT !.manifest = m]
  <2>1. m \in Manifest0
    <3>1. Claim(r) \in Claim0 /\ Second(run[r].started) \in Int /\ Second(run[r].completed) \in Int
      BY <1>1 DEF Claim, Claim0, Second, RunState
    <3>2. Len(run[r].listed) \in Nat
      BY <1>1 DEF RunState
    <3> QED BY <1>1, <3>1, <3>2 DEF Manifest, Manifest0, RunState
  <2>2. Written(r) = [out EXCEPT ![o] = d]
    BY <1>1, <1>8 DEF Written, At
  <2> HIDE DEF m
  <2>3. d \in OutputState /\ d.exists = out[o].exists /\ d.bodies = out[o].bodies
        /\ d.evidence = out[o].evidence
    BY <1>1, <2>1 DEF OutputState
  <2> HIDE DEF d
  <2>4. /\ Written(r) \in [Outputs -> OutputState] /\ Written(r)[o] = d
        /\ \A p \in Outputs \ {o} : Written(r)[p] = out[p]
    BY <1>1, <2>2, <2>3
  <2>5. \A i \in 1..Len(run[r].listed) :
           d.bodies[i] = run[r].listed[i].body /\ d.evidence[i] = run[r].listed[i]
    BY <1>2, <2>3
  <2>6. d.exists
    BY <1>2, <2>3
  <2> QED BY <1>8, <2>4, <2>5, <2>6
<1> QED BY <1>4, <1>5, <1>6, <1>7, <1>8 DEF Writes

LEMMA WriteKeeps ==
    ASSUME IInv, NEW r \in Runs, Write(r)
    PROVE  IInv'
<1> DEFINE new == Advanced(r)
<1>1. run[r].step \in Writes /\ run[r].step \in DOMAIN Following(r)
  BY Moves DEF Write, Writes
<1>2. /\ new \in RunState /\ new.step = Following(r)[run[r].step]
      /\ new.output = run[r].output /\ new.owns = run[r].owns /\ new.next = run[r].next
      /\ new.known = run[r].known /\ new.body = run[r].body /\ new.retrieved = run[r].retrieved
      /\ new.listed = run[r].listed /\ new.requests = run[r].requests
  BY <1>1, NextStep
<1>3. run' = [run EXCEPT ![r] = new] /\ out' = Written(r) /\ UNCHANGED <<clock, behind, version, consumed>>
  BY DEF Write
<1> HIDE DEF new
<1>4. /\ run[r].owns /\ consumed /\ Holds(run[r]) /\ Counts(run[r])
      /\ run[r].output \in Outputs /\ run[r] \in RunState
  BY <1>1, InTheLoop
<1>5. /\ out' \in [Outputs -> OutputState]
      /\ \A p \in Outputs \ {run[r].output} : out'[p] = out[p]
      /\ out'[run[r].output].exists
  BY <1>1, <1>3, WrittenIs
<1>6. Counts(new)
  <2>1. Last(new) = Last(run[r])
    BY <1>2 DEF Last
  <2>2. CASE run[r].step = "copy"
    BY <1>2, <1>4, <2>1, <2>2, Moves DEF Counts, Ended
  <2>3. CASE run[r].step = "body"
    BY <1>2, <1>4, <2>1, <2>3, Moves DEF Counts, Ended
  <2>4. CASE run[r].step = "evidence"
    BY <1>2, <1>4, <2>1, <2>4, Moves DEF Counts, Ended
  <2>5. CASE run[r].step \in {"rename", "manifest"}
    BY <1>2, <1>4, <2>1, <2>5, Moves DEF Counts, Ended
  <2> QED BY <1>1, <2>2, <2>3, <2>4, <2>5 DEF Writes
<1>7. OnDisk(new, out'[run[r].output])
  <2>1. CASE run[r].step = "evidence"
    BY <1>1, <1>2, <1>3, <2>1, WrittenIs, Moves DEF OnDisk, Ended, Evidence
  <2>2. CASE run[r].step = "manifest"
    BY <1>1, <1>2, <1>3, <2>2, WrittenIs, Moves DEF OnDisk, Ended
  <2>3. CASE run[r].step \in {"copy", "body", "rename"}
    BY <1>1, <1>2, <1>3, <2>3, WrittenIs, Moves DEF OnDisk, Ended
  <2> QED BY <1>1, <2>1, <2>2, <2>3 DEF Writes
<1>8. consumed \in BOOLEAN
  BY DEF IInv, Shape
<1> QED BY <1>2, <1>3, <1>4, <1>5, <1>6, <1>7, <1>8, RunStep

LEMMA StopsKeeps ==
    ASSUME IInv, NEW r \in Runs, Stops(r)
    PROVE  IInv'
<1>1. consumed \in BOOLEAN
  BY DEF IInv, Shape
<1>2. CASE out' = out
  BY <1>1, <1>2, StopKeeps DEF Stops
<1>3. CASE run[r].step \in Writes /\ out' = Written(r)
  <2>1. run' = [run EXCEPT ![r] = Stopped(r)]
    BY DEF Stops, Stop
  <2>2. run[r].owns /\ consumed /\ Holds(run[r])
    BY <1>3, InTheLoop, Moves DEF Writes
  <2>3. /\ out' \in [Outputs -> OutputState]
        /\ \A p \in Outputs \ {run[r].output} : out'[p] = out[p]
        /\ out'[run[r].output].exists
        /\ \A k \in 1..Len(run[r].listed) :
              /\ out'[run[r].output].bodies[k] = run[r].listed[k].body
              /\ out'[run[r].output].evidence[k] = run[r].listed[k]
    BY <1>3, WrittenIs
  <2>4. Holds(Stopped(r)) => OnDisk(Stopped(r), out'[Stopped(r).output])
    BY <2>3, StoppedIs DEF OnDisk, Ended
  <2> QED BY <1>1, <2>1, <2>2, <2>3, <2>4, StoppedIs, RunStep DEF Stops
<1> QED BY <1>2, <1>3 DEF Stops

(***************************************************************************)
(* The world.                                                              *)
(***************************************************************************)
LEMMA StepBackKeeps ==
    ASSUME IInv, StepBack
    PROVE  IInv'
<1>1. ASSUME NEW r \in Runs
      PROVE  /\ run'[r] \in RunState /\ run'[r].step = run[r].step /\ run'[r].output = run[r].output
             /\ run'[r].owns = run[r].owns /\ run'[r].next = run[r].next /\ run'[r].known = run[r].known
             /\ run'[r].body = run[r].body /\ run'[r].retrieved = run[r].retrieved
             /\ run'[r].listed = run[r].listed /\ run'[r].requests = run[r].requests
  <2> DEFINE s == run[r].stepped \/ run[r].step \notin {"start"} \cup Ended
  <2>1. run'[r] = [run[r] EXCEPT !.stepped = s] /\ s \in BOOLEAN
    BY DEF StepBack
  <2> HIDE DEF s
  <2>2. run[r] \in RunState
    BY DEF IInv, Shape
  <2> QED BY <2>1, <2>2 DEF RunState
<1>2. Shape'
  <2>1. run' \in [Runs -> RunState]
    BY <1>1 DEF StepBack
  <2> QED BY <2>1 DEF IInv, Shape, StepBack
<1>3. ASSUME NEW r \in Runs
      PROVE  /\ Holds(run'[r]) <=> Holds(run[r])
             /\ RunInv(run'[r], out', consumed')
  <2>1. Holds(run'[r]) <=> Holds(run[r])
    BY <1>1 DEF Holds
  <2>2. RunInv(run[r], out, consumed)
    BY DEF IInv
  <2>3. Counts(run'[r])
    <3>1. Last(run'[r]) = Last(run[r])
      BY <1>1 DEF Last
    <3> QED BY <1>1, <2>2, <3>1 DEF RunInv, Counts
  <2>4. ASSUME OnDisk(run[r], out[run[r].output])
        PROVE  OnDisk(run'[r], out[run[r].output])
    BY <1>1, <2>4 DEF OnDisk
  <2> QED BY <1>1, <2>1, <2>2, <2>3, <2>4 DEF RunInv, StepBack
<1>4. out' = out /\ OwnDirectory /\ OneOwner /\ PublishedExists
  BY DEF IInv, StepBack
<1>5. OwnDirectory' /\ OneOwner'
  BY <1>1, <1>3, <1>4 DEF OwnDirectory, OneOwner
<1>6. PublishedExists'
  BY <1>4 DEF PublishedExists
<1> QED BY <1>2, <1>3, <1>5, <1>6 DEF IInv

LEMMA WorldKeeps ==
    ASSUME IInv, Replace \/ Tick \/ UNCHANGED vars
    PROVE  IInv'
<1>1. UNCHANGED <<run, out, consumed>>
  BY DEF Replace, Tick, vars
<1>2. Shape'
  BY OrderAssumption DEF IInv, Shape, Replace, Tick, vars
<1> QED BY <1>1, <1>2 DEF IInv, OwnDirectory, OneOwner, PublishedExists

LEMMA InitHolds == Init => IInv
<1> SUFFICES ASSUME Init PROVE IInv
  OBVIOUS
<1>1. Fresh \in RunState /\ Fresh.step = "start" /\ Fresh.owns = FALSE /\ Fresh.requests = 0
      /\ Fresh.listed = <<>> /\ Fresh.next = 0
  BY DEF Fresh, RunState, Steps, Ended, Body0
<1>2. Bare \in OutputState /\ Bare.manifest = Absent
  BY DEF Bare, OutputState, Nothing, Body0
<1>3. Shape
  BY <1>1, <1>2 DEF Init, Shape
<1>4. Counts(Fresh) /\ ~Holds(Fresh)
  BY <1>1, OrderAssumption DEF Counts, Holds, Ended
<1>5. \A r \in Runs : run[r] = Fresh
  BY DEF Init
<1>6. \A r \in Runs : RunInv(run[r], out, consumed)
  BY <1>1, <1>4, <1>5 DEF RunInv
<1> QED BY <1>1, <1>2, <1>3, <1>4, <1>5, <1>6 DEF IInv, OwnDirectory, OneOwner, PublishedExists, Init

LEMMA StepKeeps ==
    ASSUME IInv, [Next]_vars
    PROVE  IInv'
<1>1. ASSUME NEW r \in Runs, Act(r)
      PROVE  IInv'
  <2>1. consumed \in BOOLEAN
    BY DEF IInv, Shape
  <2>2. CASE FetchFails(r)
    BY <2>1, <2>2, StopKeeps DEF FetchFails
  <2> QED BY <1>1, <2>2, StartKeeps, ClaimKeeps, SendKeeps, FetchedKeeps, WriteKeeps, AppendKeeps,
             CompleteKeeps, StopsKeeps DEF Act
<1> QED BY <1>1, StepBackKeeps, WorldKeeps DEF Next

LEMMA AlwaysIInv == Spec => []IInv
<1>1. IInv /\ [Next]_vars => IInv'
  BY StepKeeps
<1> QED BY <1>1, InitHolds, PTL DEF Spec

(***************************************************************************)
(* The theorems.                                                           *)
(***************************************************************************)
\* The request budget of an order bounds what all its runs together send: one run
\* holds the claim, and its place in the range loop counts its requests.
THEOREM BudgetIsKept == Spec => []BudgetHolds
<1>1. IInv => BudgetHolds
  <2> SUFFICES ASSUME IInv, NEW r \in Runs, run[r].requests > 0
               PROVE  /\ run[r].requests <= MaximumRequests
                      /\ \A q \in Runs \ {r} : run[q].requests = 0
    BY DEF BudgetHolds
  <2>1. \A q \in Runs : Counts(run[q])
    BY DEF IInv, RunInv
  <2>2. run[r].owns
    BY <2>1 DEF Counts
  <2>3. \A q \in Runs \ {r} : ~run[q].owns
    BY <2>2 DEF IInv, OneOwner
  <2> QED BY <2>1, <2>3 DEF Counts
<1> QED BY <1>1, AlwaysIInv, PTL

\* A response and its evidence are on disk before, and for as long as, the archive
\* has those bytes, also in the directory of a run that failed or was killed.
THEOREM EvidenceFirst == Spec => []StoredBeforeArchived
<1>1. IInv => StoredBeforeArchived
  <2> SUFFICES ASSUME IInv, NEW r \in Runs, NEW k \in DOMAIN run[r].listed
               PROVE  /\ out[run[r].output].bodies[k] = run[r].listed[k].body
                      /\ out[run[r].output].evidence[k] = run[r].listed[k]
    BY DEF StoredBeforeArchived
  <2>1. k \in 1..Len(run[r].listed) /\ run[r].listed # <<>>
    BY DEF IInv, Shape, RunState
  <2>2. run[r].owns
    BY <2>1 DEF IInv, RunInv, Counts
  <2> QED BY <2>1, <2>2 DEF IInv, RunInv, Holds, OnDisk
<1> QED BY <1>1, AlwaysIInv, PTL

\* Nothing changes in a directory that has a manifest, whatever runs start, fail or
\* are killed beside it.
THEOREM PublicationIsFinal == Spec => PublishedIsFinal
<1>1. IInv /\ [Next]_vars => [\A o \in Outputs : out[o].manifest # Absent => out'[o] = out[o]]_vars
  <2> SUFFICES ASSUME IInv, Next, NEW o \in Outputs, out[o].manifest # Absent
               PROVE  out'[o] = out[o]
    OBVIOUS
  <2>1. out \in [Outputs -> OutputState] /\ out[o].exists
    BY DEF IInv, Shape, PublishedExists
  <2>2. ASSUME NEW r \in Runs, Start(r)
        PROVE  out'[o] = out[o]
    BY <2>1, <2>2 DEF Start
  <2>3. ASSUME NEW r \in Runs, run[r].step \in Writes, out' = Written(r)
        PROVE  out'[o] = out[o]
    <3>1. out[run[r].output].manifest = Absent
      BY <2>3, InTheLoop, Moves DEF Writes
    <3> QED BY <2>3, <3>1, WrittenIs
  <2>4. ASSUME NEW r \in Runs, Act(r), ~Start(r), out' # out
        PROVE  run[r].step \in Writes /\ out' = Written(r)
    BY <2>4 DEF Act, ClaimExecution, Send, Fetched, FetchFails, Write, AppendChunk, Complete, Stops
  <2> QED BY <2>2, <2>3, <2>4 DEF Next, Replace, Tick, StepBack
<1> QED BY <1>1, AlwaysIInv, PTL DEF Spec, PublishedIsFinal

(***************************************************************************)
(* A published directory passes VerifyAcquisition.  What the offline check *)
(* reads is gathered along the run: sizes and totals with each response,   *)
(* the claim and the archive by the steps that write them, and times in    *)
(* the order of the wall clock, as long as no correction falls into the    *)
(* run.  VInv says what a run at each step has put in place for it.        *)
(***************************************************************************)
Active(e) == e.step \notin {"start"} \cup Ended
Received(e) == e.step \in {"body", "evidence", "append"}

Sized(e) ==
    /\ e.next > 0 \/ e.step \in {"rename", "complete", "manifest"} => e.known \in 1..MaximumArchive
    /\ Received(e) => e.body.size = Size(BuildRanges(e.known)[e.next])
    /\ \A k \in 1..Len(e.listed) :
          e.listed[k].total = e.known /\ e.listed[k].body.size = Size(BuildRanges(e.known)[k])
    /\ e.step \in {"rename", "complete", "manifest"} => Len(e.listed) = Last(e)
    /\ e.step \in {"complete", "manifest"} => e.transferred = e.known

Claimed(e) == [claimedAt |-> Second(e.started)]

Filed(e, d) ==
    /\ e.step \notin {"claim", "copy"} => d.claim = Claimed(e)
    /\ e.step \in {"complete", "manifest"} => d.archive = Archived(e.listed)

Timed(e, now) ==
    /\ NotBefore <= e.started /\ e.started < Expires /\ e.started <= now
    /\ Received(e) => e.started <= e.retrieved /\ e.retrieved <= now
    /\ \A k \in 1..Len(e.listed) : e.started <= e.listed[k].retrieved /\ e.listed[k].retrieved <= now
    /\ e.step = "manifest" =>
          /\ e.started <= e.completed /\ e.completed < Expires
          /\ \A k \in 1..Len(e.listed) : e.listed[k].retrieved <= e.completed

\* VerifyAcquisition, of what a directory holds.
Passes(d) ==
    LET m == d.manifest
        ranges == BuildRanges(m.size)
    IN /\ m.requests \in 1..MaximumRequests
       /\ m.size \in 1..MaximumArchive /\ m.transferred = m.size
       /\ m.startedAt <= m.completedAt
       /\ NotBefore <= m.startedAt /\ m.startedAt < Expires /\ m.completedAt < Expires
       /\ d.claim = m.claim /\ m.claim.claimedAt = m.startedAt
       /\ d.archive = Archived(m.listed)
       /\ Len(ranges) = m.requests /\ Len(m.listed) = m.requests
       /\ \A k \in DOMAIN ranges :
             /\ d.bodies[k] = d.archive[k]
             /\ d.bodies[k].size = Size(ranges[k])
             /\ d.evidence[k] = m.listed[k]
             /\ d.evidence[k].body = d.bodies[k]
             /\ d.evidence[k].total = m.size
             /\ RetrievedWithin(d.evidence[k].retrieved, m)

Consistent(e, d, now) ==
    /\ Active(e) => Sized(e) /\ Filed(e, d) /\ (~e.stepped => Timed(e, now))
    /\ e.owns /\ d.manifest # Absent /\ ~e.stepped => Passes(d)

VInv == \A r \in Runs : Holds(run[r]) => Consistent(run[r], out[run[r].output], Wall)

\* Truncation to seconds keeps the order of times.
LEMMA SecondsInOrder ==
    ASSUME NEW a \in Int, NEW b \in Int, a <= b
    PROVE  Second(a) \in Int /\ Second(a) <= a /\ Second(a) <= Second(b)
BY DEF Second

LEMMA TimeTypes ==
    ASSUME NEW e \in RunState
    PROVE  /\ e.started \in Int /\ e.completed \in Int /\ e.retrieved \in Int /\ e.transferred \in Int
           /\ e.owns \in BOOLEAN /\ e.stepped \in BOOLEAN
           /\ \A k \in 1..Len(e.listed) : e.listed[k] \in Evidence0 /\ e.listed[k].retrieved \in Int
<1>1. e.listed \in Seq(Evidence0)
  BY DEF RunState
<1>2. \A k \in 1..Len(e.listed) : e.listed[k] \in Evidence0
  BY <1>1, ElementOf
<1>3. \A x \in Evidence0 : x.retrieved \in Int
  BY DEF Evidence0
<1> QED BY <1>2, <1>3 DEF RunState

\* A step of one run that leaves the directories of the others alone.
LEMMA ConsistentStep ==
    ASSUME IInv, VInv, NEW r \in Runs, NEW new, run' = [run EXCEPT ![r] = new],
           UNCHANGED <<clock, behind>>,
           \A q \in Runs \ {r} : Holds(run[q]) => out'[run[q].output] = out[run[q].output],
           Holds(new) => Consistent(new, out'[new.output], Wall)
    PROVE  VInv'
<1>1. Wall' = Wall /\ run \in [Runs -> RunState]
  BY DEF Wall, IInv, Shape
<1>2. run'[r] = new /\ \A q \in Runs \ {r} : run'[q] = run[q]
  BY <1>1
<1>3. ASSUME NEW q \in Runs, Holds(run'[q])
      PROVE  Consistent(run'[q], out'[run'[q].output], Wall)
  <2>1. CASE q = r
    BY <1>2, <1>3, <2>1
  <2>2. CASE q # r
    BY <1>2, <1>3, <2>2 DEF VInv
  <2> QED BY <2>1, <2>2
<1> QED BY <1>1, <1>3 DEF VInv

\* The owner, in the loop, and what is known of it.
LEMMA ConsistentInTheLoop ==
    ASSUME IInv, VInv, NEW r \in Runs, run[r].step \in DOMAIN Following(r)
    PROVE  /\ Sized(run[r]) /\ Filed(run[r], out[run[r].output])
           /\ ~run[r].stepped => Timed(run[r], Wall)
<1>1. Active(run[r]) /\ Holds(run[r])
  BY InTheLoop, Moves DEF Active, Ended
<1> QED BY <1>1 DEF VInv, Consistent

LEMMA OthersUntouched ==
    ASSUME IInv, NEW r \in Runs, Holds(run[r]), \A p \in Outputs \ {run[r].output} : out'[p] = out[p]
    PROVE  \A q \in Runs \ {r} : Holds(run[q]) => out'[run[q].output] = out[run[q].output]
BY DEF IInv, OwnDirectory, RunInv

(***************************************************************************)
(* The start, the claim, and an end without a manifest.                    *)
(***************************************************************************)
LEMMA StoppingIsConsistent ==
    ASSUME IInv, VInv, NEW r \in Runs, run[r].step \notin Ended, Stop(r), UNCHANGED <<clock, behind, out>>
    PROVE  VInv'
<1>1. Holds(Stopped(r)) => Consistent(Stopped(r), out'[Stopped(r).output], Wall)
  <2> SUFFICES ASSUME Holds(Stopped(r)) PROVE Consistent(Stopped(r), out[Stopped(r).output], Wall)
    OBVIOUS
  <2>1. Stopped(r).step = "stopped" /\ run[r].owns /\ Stopped(r).output = run[r].output
    BY StoppedIs
  <2>2. out[run[r].output].manifest = Absent
    BY <2>1 DEF IInv, RunInv, Holds, OnDisk
  <2> QED BY <2>1, <2>2 DEF Consistent, Active, Ended
<1> QED BY <1>1, ConsistentStep DEF Stop

LEMMA StartIsConsistent ==
    ASSUME IInv, VInv, NEW r \in Runs, Start(r)
    PROVE  VInv'
<1>1. PICK o \in Outputs :
          /\ ~out[o].exists
          /\ out' = [out EXCEPT ![o].exists = TRUE]
          /\ run' = [run EXCEPT ![r].step = "claim", ![r].output = o, ![r].started = Wall]
  BY DEF Start
<1> DEFINE new == [run[r] EXCEPT !.step = "claim", !.output = o, !.started = Wall]
<1>2. /\ run[r] \in RunState /\ run \in [Runs -> RunState] /\ out \in [Outputs -> OutputState] /\ Wall \in Int
      /\ NotBefore <= Wall /\ Wall < Expires
  BY DEF IInv, Shape, Wall, Start
<1>3. run[r].step = "start" /\ ~run[r].owns /\ run[r].listed = <<>> /\ run[r].next = 0
  BY DEF IInv, RunInv, Counts, Start, At
<1>4. /\ new.step = "claim" /\ new.owns = run[r].owns /\ new.started = Wall
      /\ new.listed = run[r].listed /\ new.next = run[r].next
  BY <1>2 DEF RunState
<1>5. run' = [run EXCEPT ![r] = new]
  BY <1>1, <1>2
<1> HIDE DEF new
<1>6. \A q \in Runs \ {r} : Holds(run[q]) => out'[run[q].output] = out[run[q].output]
  <2>1. \A q \in Runs : Holds(run[q]) => run[q].output # o
    BY <1>1 DEF IInv, RunInv, OnDisk
  <2> QED BY <1>1, <1>2, <2>1
<1>7. Len(new.listed) = 0 /\ new.next = 0 /\ ~new.owns
  BY <1>3, <1>4
<1>8. Sized(new) /\ Filed(new, out'[new.output])
  BY <1>4, <1>7 DEF Sized, Filed, Received
<1>9. Timed(new, Wall)
  BY <1>2, <1>4, <1>7 DEF Timed, Received
<1> QED BY <1>5, <1>6, <1>7, <1>8, <1>9, ConsistentStep DEF Consistent, Start

LEMMA ClaimIsConsistent ==
    ASSUME IInv, VInv, NEW r \in Runs, ClaimExecution(r)
    PROVE  VInv'
<1>1. CASE consumed
  BY <1>1, StoppingIsConsistent DEF ClaimExecution, At, Ended
<1>2. CASE ~consumed
  <2> DEFINE new == [run[r] EXCEPT !.step = "copy", !.owns = TRUE]
  <2>1. run[r] \in RunState /\ run[r].step = "claim" /\ run \in [Runs -> RunState] /\ Counts(run[r])
    BY DEF IInv, Shape, ClaimExecution, At, RunInv
  <2>2. /\ new.step = "copy" /\ new.output = run[r].output /\ new.started = run[r].started
        /\ new.listed = run[r].listed /\ new.next = run[r].next /\ new.known = run[r].known
        /\ new.stepped = run[r].stepped
    BY <2>1 DEF RunState
  <2>3. run' = [run EXCEPT ![r] = new]
    BY <1>2, <2>1 DEF ClaimExecution
  <2> HIDE DEF new
  <2>4. Holds(run[r]) /\ Active(run[r])
    BY <2>1 DEF Holds, Active, Ended
  <2>5. out[run[r].output].manifest = Absent
    BY <2>1, <2>4 DEF IInv, RunInv, OnDisk, Ended
  <2>6. Len(new.listed) = 0 /\ new.next = 0
    BY <2>1, <2>2 DEF Counts, Ended
  <2>7. Sized(new) /\ Filed(new, out[new.output])
    BY <2>2, <2>6 DEF Sized, Filed, Received
  <2>8. ~new.stepped => Timed(new, Wall)
    BY <2>2, <2>4, <2>6 DEF VInv, Consistent, Timed, Received
  <2> QED BY <2>2, <2>3, <2>5, <2>7, <2>8, ConsistentStep DEF Consistent, ClaimExecution
<1> QED BY <1>1, <1>2

(***************************************************************************)
(* The range loop.                                                         *)
(***************************************************************************)
\* A step of the owner that writes no file.
LEMMA LoopStep ==
    ASSUME IInv, VInv, NEW r \in Runs, run[r].step \in DOMAIN Following(r),
           NEW new, run' = [run EXCEPT ![r] = new], UNCHANGED <<clock, behind, out>>,
           new.output = run[r].output, new.stepped = run[r].stepped,
           Sized(new), Filed(new, out[run[r].output]), ~run[r].stepped => Timed(new, Wall)
    PROVE  VInv'
<1>1. out[run[r].output].manifest = Absent
  BY InTheLoop
<1>2. Consistent(new, out'[new.output], Wall)
  BY <1>1 DEF Consistent
<1> QED BY <1>2, ConsistentStep

LEMMA SendIsConsistent ==
    ASSUME IInv, VInv, NEW r \in Runs, Send(r)
    PROVE  VInv'
<1> DEFINE a == Advanced(r)
           sent == a.requests + 1
           new == [a EXCEPT !.requests = sent]
<1>1. run[r].step = "fetch" /\ run[r].step \in DOMAIN Following(r)
  BY Moves DEF Send, At
<1>2. /\ a \in RunState /\ a.step = "await" /\ a.output = run[r].output /\ a.started = run[r].started
      /\ a.next = run[r].next /\ a.known = run[r].known /\ a.listed = run[r].listed
      /\ a.stepped = run[r].stepped
  BY <1>1, NextStep, Moves
<1>3. run' = [run EXCEPT ![r] = new]
  BY DEF Send
<1> HIDE DEF a, sent
<1>4. /\ new.step = "await" /\ new.output = run[r].output /\ new.started = run[r].started
      /\ new.next = run[r].next /\ new.known = run[r].known /\ new.listed = run[r].listed
      /\ new.stepped = run[r].stepped
  BY <1>2 DEF RunState
<1> HIDE DEF new
<1>5. /\ Sized(run[r]) /\ Filed(run[r], out[run[r].output])
      /\ ~run[r].stepped => Timed(run[r], Wall)
  BY <1>1, ConsistentInTheLoop
<1>6. Sized(new)
  BY <1>4, <1>5 DEF Sized, Received
<1>7. Filed(new, out[run[r].output])
  BY <1>1, <1>4, <1>5 DEF Filed, Claimed
<1>8. ~run[r].stepped => Timed(new, Wall)
  BY <1>4, <1>5 DEF Timed, Received
<1> QED BY <1>1, <1>3, <1>4, <1>6, <1>7, <1>8, LoopStep DEF Send

LEMMA FetchedIsConsistent ==
    ASSUME IInv, VInv, NEW r \in Runs, Fetched(r)
    PROVE  VInv'
<1> DEFINE a == Advanced(r)
           total == Objects[version]
           following == a.next + 1
           body == Body(r)
           new == [a EXCEPT !.next = following, !.body = body, !.known = total, !.retrieved = Wall]
<1>1. run[r].step = "await" /\ run[r].step \in DOMAIN Following(r)
  BY Moves DEF Fetched, At
<1>2. /\ a \in RunState /\ a.step = "body" /\ a.output = run[r].output /\ a.started = run[r].started
      /\ a.next = run[r].next /\ a.listed = run[r].listed /\ a.stepped = run[r].stepped
  BY <1>1, NextStep, Moves
<1>3. run' = [run EXCEPT ![r] = new] /\ Acceptable(r, total)
  BY DEF Fetched
<1>4. /\ Sized(run[r]) /\ Filed(run[r], out[run[r].output]) /\ run[r] \in RunState /\ Counts(run[r])
      /\ ~run[r].stepped => Timed(run[r], Wall)
  BY <1>1, ConsistentInTheLoop, InTheLoop
<1>5. total \in Nat /\ total > 0 /\ Wall \in Int
  BY OrderAssumption DEF IInv, Shape, Wall
<1> HIDE DEF a, total
<1>6. total \in 1..MaximumArchive /\ run[r].known \in {0, total} /\ BuildRanges(total)[1] = First
  BY <1>3, <1>5, OrderAssumption DEF Acceptable, MaximumArchive
<1>7. run[r].next > 0 => run[r].known = total
  BY <1>4, <1>6 DEF Sized
<1>8. run[r].next \in Nat /\ Len(run[r].listed) = run[r].next
  BY <1>1, <1>4, FieldTypes DEF Counts
<1>9. Body(r).size = Size(BuildRanges(total)[run[r].next + 1])
  <2>1. NextRange(r) = BuildRanges(total)[run[r].next + 1]
    BY <1>6, <1>7, <1>8 DEF NextRange
  <2> QED BY <2>1 DEF Body
<1>10. /\ new.step = "body" /\ new.output = run[r].output /\ new.started = run[r].started
       /\ new.next = run[r].next + 1 /\ new.known = total /\ new.body = Body(r) /\ new.retrieved = Wall
       /\ new.listed = run[r].listed /\ new.stepped = run[r].stepped
  <2>1. following = run[r].next + 1
    BY <1>2
  <2> HIDE DEF following, body
  <2>2. /\ new.step = a.step /\ new.output = a.output /\ new.started = a.started
        /\ new.next = following /\ new.known = total /\ new.body = body /\ new.retrieved = Wall
        /\ new.listed = a.listed /\ new.stepped = a.stepped
    BY <1>2 DEF RunState
  <2> QED BY <1>2, <2>1, <2>2 DEF body
<1> HIDE DEF new
<1>11. Sized(new)
  <2>1. \A k \in 1..Len(new.listed) :
           new.listed[k].total = total /\ new.listed[k].body.size = Size(BuildRanges(total)[k])
    <3>1. CASE run[r].next = 0
      BY <1>8, <1>10, <3>1
    <3>2. CASE run[r].next > 0
      BY <1>4, <1>7, <1>10, <3>2 DEF Sized
    <3> QED BY <1>8, <3>1, <3>2
  <2> QED BY <1>6, <1>9, <1>10, <2>1 DEF Sized, Received
<1>12. Filed(new, out[run[r].output])
  BY <1>1, <1>4, <1>10 DEF Filed, Claimed
<1>13. ~run[r].stepped => Timed(new, Wall)
  BY <1>4, <1>5, <1>10 DEF Timed, Received
<1> QED BY <1>1, <1>3, <1>10, <1>11, <1>12, <1>13, LoopStep DEF Fetched

LEMMA AppendIsConsistent ==
    ASSUME IInv, VInv, NEW r \in Runs, AppendChunk(r)
    PROVE  VInv'
<1> DEFINE a == Advanced(r)
           listing == Append(a.listed, Evidence(r))
           sum == a.transferred + run[r].body.size
           ready == clock + RequestInterval
           new == [a EXCEPT !.listed = listing, !.transferred = sum, !.ready = ready]
<1>1. run[r].step = "append" /\ run[r].step \in DOMAIN Following(r)
  BY Moves DEF AppendChunk, At
<1>2. /\ a \in RunState /\ a.step = Following(r)["append"]
      /\ a.output = run[r].output /\ a.started = run[r].started /\ a.next = run[r].next
      /\ a.known = run[r].known /\ a.listed = run[r].listed /\ a.stepped = run[r].stepped
  BY <1>1, NextStep, Moves
<1>3. run' = [run EXCEPT ![r] = new]
  BY DEF AppendChunk
<1>4. /\ Sized(run[r]) /\ Filed(run[r], out[run[r].output]) /\ run[r] \in RunState /\ Counts(run[r])
      /\ ~run[r].stepped => Timed(run[r], Wall)
  BY <1>1, ConsistentInTheLoop, InTheLoop
<1>5. /\ run[r].listed \in Seq(Evidence0) /\ Len(run[r].listed) = run[r].next - 1
      /\ run[r].next \in 1..Last(run[r]) /\ run[r].next \in Nat /\ run[r].next > 0
  BY <1>1, <1>4, FieldTypes DEF Counts
<1> HIDE DEF a, sum, ready
<1>6. /\ new.step = a.step /\ new.output = run[r].output /\ new.started = run[r].started
      /\ new.next = run[r].next /\ new.known = run[r].known /\ new.stepped = run[r].stepped
      /\ new.listed = Append(run[r].listed, Evidence(r))
  <2>1. listing = Append(run[r].listed, Evidence(r))
    BY <1>2
  <2> HIDE DEF listing
  <2>2. /\ new.step = a.step /\ new.output = a.output /\ new.started = a.started
        /\ new.next = a.next /\ new.known = a.known /\ new.stepped = a.stepped /\ new.listed = listing
    BY <1>2 DEF RunState
  <2> QED BY <1>2, <2>1, <2>2
<1> HIDE DEF new
<1>7. new.step = IF LastRange(r) THEN "rename" ELSE "fetch"
  BY <1>2, <1>6, Moves
<1>8. Len(new.listed) = run[r].next /\ new.listed[run[r].next] = Evidence(r)
      /\ \A k \in 1..Len(run[r].listed) : new.listed[k] = run[r].listed[k]
  BY <1>5, <1>6
<1>9. \A k \in 1..Len(new.listed) : k \in 1..Len(run[r].listed) \/ k = run[r].next
  BY <1>5, <1>8
<1>10. /\ Evidence(r).total = run[r].known /\ Evidence(r).body = run[r].body
       /\ Evidence(r).retrieved = run[r].retrieved
  BY DEF Evidence
<1>11. Sized(new)
  <2>1. \A k \in 1..Len(new.listed) : /\ new.listed[k].total = run[r].known
                                      /\ new.listed[k].body.size = Size(BuildRanges(run[r].known)[k])
    BY <1>1, <1>4, <1>8, <1>9, <1>10 DEF Sized, Received
  <2>2. new.step = "rename" => Len(new.listed) = Last(new)
    BY <1>6, <1>7, <1>8 DEF LastRange, Last
  <2>3. run[r].known \in 1..MaximumArchive
    BY <1>4, <1>5 DEF Sized
  <2> QED BY <1>6, <1>7, <2>1, <2>2, <2>3 DEF Sized, Received
<1>12. Filed(new, out[run[r].output])
  BY <1>1, <1>4, <1>6, <1>7 DEF Filed, Claimed
<1>13. ASSUME ~run[r].stepped PROVE Timed(new, Wall)
  <2>1. Timed(run[r], Wall)
    BY <1>4, <1>13
  <2>2. \A k \in 1..Len(new.listed) : run[r].started <= new.listed[k].retrieved /\ new.listed[k].retrieved <= Wall
    BY <1>1, <1>8, <1>9, <1>10, <2>1 DEF Timed, Received
  <2> QED BY <1>6, <1>7, <2>1, <2>2 DEF Timed, Received
<1> QED BY <1>1, <1>3, <1>6, <1>11, <1>12, <1>13, LoopStep DEF AppendChunk

LEMMA CompleteIsConsistent ==
    ASSUME IInv, VInv, NEW r \in Runs, Complete(r)
    PROVE  VInv'
<1>1. CASE Wall < Expires
  <2> DEFINE a == Advanced(r)
             new == [a EXCEPT !.completed = Wall]
  <2>1. run[r].step = "complete" /\ run[r].step \in DOMAIN Following(r)
    BY Moves DEF Complete, At
  <2>2. /\ a \in RunState /\ a.step = "manifest" /\ a.output = run[r].output /\ a.started = run[r].started
        /\ a.next = run[r].next /\ a.known = run[r].known /\ a.listed = run[r].listed
        /\ a.transferred = run[r].transferred /\ a.stepped = run[r].stepped
    BY <2>1, NextStep, Moves
  <2>3. run' = [run EXCEPT ![r] = new]
    BY <1>1 DEF Complete
  <2> HIDE DEF a
  <2>4. /\ new.step = "manifest" /\ new.output = run[r].output /\ new.started = run[r].started
        /\ new.next = run[r].next /\ new.known = run[r].known /\ new.listed = run[r].listed
        /\ new.transferred = run[r].transferred /\ new.stepped = run[r].stepped /\ new.completed = Wall
    BY <2>2 DEF RunState
  <2> HIDE DEF new
  <2>5. /\ Sized(run[r]) /\ Filed(run[r], out[run[r].output])
        /\ ~run[r].stepped => Timed(run[r], Wall)
    BY <2>1, ConsistentInTheLoop
  <2>6. Sized(new)
    BY <2>1, <2>4, <2>5 DEF Sized, Received, Last
  <2>7. Filed(new, out[run[r].output])
    BY <2>1, <2>4, <2>5 DEF Filed, Claimed
  <2>8. ~run[r].stepped => Timed(new, Wall)
    BY <1>1, <2>4, <2>5 DEF Timed, Received
  <2> QED BY <2>1, <2>3, <2>4, <2>6, <2>7, <2>8, LoopStep DEF Complete
<1>2. CASE ~(Wall < Expires)
  BY <1>2, StoppingIsConsistent DEF Complete, At, Ended
<1> QED BY <1>1, <1>2

(***************************************************************************)
(* The files.                                                              *)
(***************************************************************************)
\* What Written leaves of the claim, the archive and the manifest.
LEMMA WrittenParts ==
    ASSUME IInv, NEW r \in Runs, run[r].step \in Writes
    PROVE  LET o == run[r].output
               d == Written(r)[o]
           IN /\ d.claim = IF run[r].step = "copy" THEN Claim(r) ELSE out[o].claim
              /\ d.archive = IF run[r].step = "rename" THEN Archived(run[r].listed) ELSE out[o].archive
              /\ run[r].step = "manifest" => d.manifest = Manifest(r)
<1> DEFINE o == run[r].output
<1>1. o \in Outputs /\ out[o] \in OutputState /\ out \in [Outputs -> OutputState]
  BY InTheLoop, Moves DEF Writes, IInv, Shape
<1> DEFINE d == Written(r)[o]
<1>2. CASE run[r].step = "copy"
  BY <1>1, <1>2 DEF Written, At, OutputState
<1>3. CASE run[r].step = "body"
  <2>1. d = [out[o] EXCEPT !.bodies[run[r].next] = run[r].body]
    BY <1>1, <1>3 DEF Written, At
  <2> QED BY <1>1, <1>3, <2>1 DEF OutputState
<1>4. CASE run[r].step = "evidence"
  <2>1. d = [out[o] EXCEPT !.evidence[run[r].next] = Evidence(r)]
    BY <1>1, <1>4 DEF Written, At
  <2> QED BY <1>1, <1>4, <2>1 DEF OutputState
<1>5. CASE run[r].step = "rename"
  BY <1>1, <1>5 DEF Written, At, OutputState
<1>6. CASE run[r].step = "manifest"
  BY <1>1, <1>6 DEF Written, At, OutputState
<1> QED BY <1>2, <1>3, <1>4, <1>5, <1>6 DEF Writes

\* The directory in which the manifest has just been written.
LEMMA ManifestPasses ==
    ASSUME IInv, VInv, NEW r \in Runs, run[r].step = "manifest", ~run[r].stepped
    PROVE  Passes(Written(r)[run[r].output])
<1> DEFINE e == run[r]
           o == e.output
           d == Written(r)[o]
           m == Manifest(r)
<1>1. run[r].step \in Writes /\ run[r].step \in DOMAIN Following(r)
  BY Moves DEF Writes
<1>2. /\ e \in RunState /\ Counts(e) /\ Sized(e) /\ Filed(e, out[o]) /\ Timed(e, Wall)
  BY <1>1, ConsistentInTheLoop, InTheLoop
<1>3. /\ d.claim = Claim(r) /\ d.archive = Archived(e.listed) /\ d.manifest = m
      /\ \A k \in 1..Len(e.listed) : d.bodies[k] = e.listed[k].body /\ d.evidence[k] = e.listed[k]
  <2>1. out[o].claim = Claim(r) /\ out[o].archive = Archived(e.listed)
    BY <1>2 DEF Filed, Claimed, Claim
  <2> QED BY <1>1, <2>1, WrittenParts, WrittenIs
<1>4. /\ m.startedAt = Second(e.started) /\ m.completedAt = Second(e.completed)
      /\ m.claim = Claim(r) /\ m.requests = Len(e.listed) /\ m.size = e.known
      /\ m.transferred = e.transferred /\ m.listed = e.listed
      /\ Claim(r).claimedAt = Second(e.started)
  BY DEF Manifest, Claim
<1> HIDE DEF d, m
<1>5. /\ e.known \in 1..MaximumArchive /\ e.known \in Nat /\ e.transferred = e.known
      /\ Len(e.listed) = Len(BuildRanges(e.known)) /\ Len(e.listed) \in Nat
      /\ Len(e.listed) <= MaximumRequests
  BY <1>2, FieldTypes DEF Sized, Counts, Last
<1>6. Len(e.listed) \in 1..MaximumRequests /\ DOMAIN BuildRanges(e.known) = 1..Len(e.listed)
      /\ DOMAIN e.listed = 1..Len(e.listed)
  <2>1. Len(BuildRanges(e.known)) > 0 /\ BuildRanges(e.known) \in Seq([start : Int, end : Int])
    BY <1>5, RangesWithinBudget
  <2>2. DOMAIN BuildRanges(e.known) = 1..Len(BuildRanges(e.known))
    BY <2>1
  <2>3. DOMAIN e.listed = 1..Len(e.listed)
    BY <1>2, FieldTypes
  <2> QED BY <1>5, <2>1, <2>2, <2>3, OrderAssumption
<1>7. /\ e.started \in Int /\ e.completed \in Int
      /\ NotBefore <= e.started /\ e.started < Expires
      /\ e.started <= e.completed /\ e.completed < Expires
      /\ NotBefore \in Int /\ Second(NotBefore) = NotBefore /\ Expires \in Int
  BY <1>2, TimeTypes, OrderAssumption DEF Timed, Second
<1>8. /\ m.startedAt <= m.completedAt /\ NotBefore <= m.startedAt
      /\ m.startedAt < Expires /\ m.completedAt < Expires
  <2>1. Second(e.started) <= Second(e.completed) /\ NotBefore <= Second(e.started)
        /\ Second(e.started) \in Int /\ Second(e.started) <= e.started
    BY <1>7, SecondsInOrder
  <2>2. Second(e.completed) \in Int /\ Second(e.completed) <= e.completed
    BY <1>7, SecondsInOrder
  <2> QED BY <1>4, <1>7, <2>1, <2>2
<1>9. ASSUME NEW k \in 1..Len(e.listed)
      PROVE  /\ d.bodies[k] = d.archive[k]
             /\ d.bodies[k].size = Size(BuildRanges(e.known)[k])
             /\ d.evidence[k] = e.listed[k]
             /\ d.evidence[k].body = d.bodies[k]
             /\ d.evidence[k].total = e.known
             /\ RetrievedWithin(d.evidence[k].retrieved, m)
  <2>1. d.bodies[k] = e.listed[k].body /\ d.evidence[k] = e.listed[k]
    BY <1>3
  <2>2. d.archive[k] = e.listed[k].body
    BY <1>3, <1>6 DEF Archived
  <2>3. e.listed[k].body.size = Size(BuildRanges(e.known)[k]) /\ e.listed[k].total = e.known
    BY <1>2 DEF Sized
  <2>4. RetrievedWithin(e.listed[k].retrieved, m)
    <3> DEFINE t == e.listed[k].retrieved
    <3>1. t \in Int /\ e.started <= t /\ t <= e.completed
      BY <1>2, TimeTypes DEF Timed
    <3> HIDE DEF t
    <3>2. Second(e.started) \in Int /\ Second(e.started) <= e.started
      BY <1>7, SecondsInOrder
    <3>3. Second(t) <= Second(e.completed)
      BY <1>7, <3>1, SecondsInOrder
    <3>4. Second(e.started) <= t
      BY <1>7, <3>1, <3>2
    <3>5. m.startedAt <= t /\ Second(t) <= m.completedAt
      BY <1>4, <3>3, <3>4
    <3> QED BY <3>5 DEF RetrievedWithin, t
  <2> QED BY <2>1, <2>2, <2>3, <2>4
<1>10. m.requests \in 1..MaximumRequests /\ m.size \in 1..MaximumArchive /\ m.transferred = m.size
       /\ d.claim = m.claim /\ m.claim.claimedAt = m.startedAt /\ d.archive = Archived(m.listed)
       /\ Len(BuildRanges(m.size)) = m.requests /\ Len(m.listed) = m.requests
  BY <1>3, <1>4, <1>5, <1>6
<1>11. \A k \in DOMAIN BuildRanges(m.size) :
          /\ d.bodies[k] = d.archive[k]
          /\ d.bodies[k].size = Size(BuildRanges(m.size)[k])
          /\ d.evidence[k] = m.listed[k]
          /\ d.evidence[k].body = d.bodies[k]
          /\ d.evidence[k].total = m.size
          /\ RetrievedWithin(d.evidence[k].retrieved, m)
  BY <1>4, <1>6, <1>9
<1> HIDE DEF e, o
<1>12. Passes(d)
  BY <1>3, <1>8, <1>10, <1>11 DEF Passes
<1> QED BY <1>12 DEF d, o, e

LEMMA WriteIsConsistent ==
    ASSUME IInv, VInv, NEW r \in Runs, Write(r)
    PROVE  VInv'
<1> DEFINE new == Advanced(r)
           o == run[r].output
           d == Written(r)[o]
<1>1. run[r].step \in Writes /\ run[r].step \in DOMAIN Following(r)
  BY Moves DEF Write, Writes
<1>2. /\ new.step = Following(r)[run[r].step]
      /\ new.output = run[r].output /\ new.started = run[r].started /\ new.next = run[r].next
      /\ new.known = run[r].known /\ new.body = run[r].body /\ new.retrieved = run[r].retrieved
      /\ new.listed = run[r].listed /\ new.transferred = run[r].transferred
      /\ new.stepped = run[r].stepped
  BY <1>1, NextStep
<1>3. run' = [run EXCEPT ![r] = new] /\ out' = Written(r) /\ UNCHANGED <<clock, behind>>
      /\ (run[r].step = "rename" => run[r].transferred = run[r].known)
  BY DEF Write, At
<1> HIDE DEF new
<1>4. /\ Sized(run[r]) /\ Filed(run[r], out[run[r].output]) /\ Holds(run[r])
      /\ ~run[r].stepped => Timed(run[r], Wall)
  BY <1>1, ConsistentInTheLoop, InTheLoop
<1>5. /\ run[r].step # "manifest" => d.manifest = Absent
      /\ d.claim = IF run[r].step = "copy" THEN Claim(r) ELSE out[o].claim
      /\ d.archive = IF run[r].step = "rename" THEN Archived(run[r].listed) ELSE out[o].archive
      /\ \A p \in Outputs \ {o} : out'[p] = out[p]
  BY <1>1, <1>3, WrittenIs, WrittenParts
<1> HIDE DEF d
<1>6. CASE run[r].step = "manifest"
  <2>1. ~run[r].stepped => Passes(d)
    BY <1>6, ManifestPasses DEF d
  <2>2. new.step = "done"
    BY <1>2, <1>6, Moves
  <2>3. Consistent(new, out'[new.output], Wall)
    BY <1>2, <1>3, <2>1, <2>2 DEF Consistent, Active, Ended, d
  <2> QED BY <1>3, <1>4, <1>5, <2>3, OthersUntouched, ConsistentStep
<1>7. CASE run[r].step \in {"copy", "body", "evidence", "rename"}
  <2>1. Sized(new)
    <3>1. new.step = "complete" => run[r].step = "rename"
      BY <1>2, <1>7, Moves
    <3>2. new.step \notin {"rename", "manifest"} /\ (Received(new) => Received(run[r]))
      BY <1>2, <1>7, Moves DEF Received
    <3> QED BY <1>2, <1>3, <1>4, <3>1, <3>2 DEF Sized, Last
  <2>2. Filed(new, d)
    <3>1. new.step \notin {"claim", "copy", "manifest"}
          /\ (new.step = "complete" => run[r].step = "rename") /\ run[r].step # "claim"
      BY <1>2, <1>7, Moves
    <3>2. d.claim = Claimed(new)
      BY <1>2, <1>4, <1>5, <3>1 DEF Filed, Claimed, Claim
    <3> QED BY <1>2, <1>5, <3>1, <3>2 DEF Filed
  <2>3. ~run[r].stepped => Timed(new, Wall)
    <3>1. new.step # "manifest" /\ (Received(new) => Received(run[r]))
      BY <1>2, <1>7, Moves DEF Received
    <3> QED BY <1>2, <1>4, <3>1 DEF Timed
  <2>4. Consistent(new, out'[new.output], Wall)
    BY <1>2, <1>3, <1>5, <1>7, <2>1, <2>2, <2>3 DEF Consistent, d
  <2> QED BY <1>3, <1>4, <1>5, <2>4, OthersUntouched, ConsistentStep
<1> QED BY <1>1, <1>6, <1>7 DEF Writes

LEMMA StopsIsConsistent ==
    ASSUME IInv, VInv, NEW r \in Runs, Stops(r)
    PROVE  VInv'
<1>1. CASE out' = out
  BY <1>1, StoppingIsConsistent DEF Stops
<1>2. CASE run[r].step \in Writes /\ out' = Written(r)
  <2> DEFINE d == Written(r)[run[r].output]
  <2>1. run' = [run EXCEPT ![r] = Stopped(r)] /\ UNCHANGED <<clock, behind>>
    BY DEF Stops, Stop
  <2>2. run[r].owns /\ Holds(run[r])
    BY <1>2, InTheLoop, Moves DEF Writes
  <2>3. /\ \A p \in Outputs \ {run[r].output} : out'[p] = out[p]
        /\ run[r].step # "manifest" => d.manifest = Absent
    BY <1>2, WrittenIs
  <2>4. /\ Stopped(r).step = "stopped" /\ Stopped(r).stepped = run[r].stepped
        /\ Stopped(r).output = run[r].output
    BY <2>2 DEF Stopped, Fresh
  <2>5. ~run[r].stepped /\ d.manifest # Absent => Passes(d)
    BY <2>3, ManifestPasses
  <2> HIDE DEF d
  <2>6. Consistent(Stopped(r), out'[Stopped(r).output], Wall)
    BY <1>2, <2>4, <2>5 DEF Consistent, Active, Ended, d
  <2> QED BY <2>1, <2>2, <2>3, <2>6, OthersUntouched, ConsistentStep
<1> QED BY <1>1, <1>2 DEF Stops

(***************************************************************************)
(* The world.                                                              *)
(***************************************************************************)
LEMMA StepBackIsConsistent ==
    ASSUME IInv, VInv, StepBack
    PROVE  VInv'
<1> SUFFICES ASSUME NEW r \in Runs, Holds(run'[r])
             PROVE  Consistent(run'[r], out'[run'[r].output], Wall')
  BY DEF VInv
<1> DEFINE s == run[r].stepped \/ run[r].step \notin {"start"} \cup Ended
<1>1. run'[r] = [run[r] EXCEPT !.stepped = s] /\ s \in BOOLEAN /\ out' = out
  BY DEF StepBack
<1>2. run[r] \in RunState
  BY DEF IInv, Shape
<1> HIDE DEF s
<1>3. /\ run'[r].step = run[r].step /\ run'[r].output = run[r].output /\ run'[r].owns = run[r].owns
      /\ run'[r].started = run[r].started /\ run'[r].next = run[r].next /\ run'[r].known = run[r].known
      /\ run'[r].body = run[r].body /\ run'[r].listed = run[r].listed
      /\ run'[r].transferred = run[r].transferred /\ run'[r].stepped = s
  BY <1>1, <1>2 DEF RunState
<1>4. Holds(run[r]) /\ Consistent(run[r], out[run[r].output], Wall)
  BY <1>3 DEF Holds, VInv
<1>5. Active(run[r]) => s
  BY <1>1 DEF Active, s
<1>6. ~s => ~run[r].stepped
  BY DEF s
<1>7. Sized(run[r]) => Sized(run'[r])
  BY <1>3 DEF Sized, Received, Last
<1>8. Filed(run[r], out[run[r].output]) => Filed(run'[r], out[run[r].output])
  BY <1>3 DEF Filed, Claimed
<1>9. Active(run'[r]) <=> Active(run[r])
  BY <1>3 DEF Active
<1> QED BY <1>1, <1>3, <1>4, <1>5, <1>6, <1>7, <1>8, <1>9 DEF Consistent

LEMMA TickIsConsistent ==
    ASSUME IInv, VInv, Replace \/ Tick \/ UNCHANGED vars
    PROVE  VInv'
<1>1. UNCHANGED <<run, out>> /\ Wall \in Int /\ Wall' \in Int /\ Wall <= Wall'
  BY DEF Replace, Tick, vars, IInv, Shape, Wall
<1>2. ASSUME NEW r \in Runs, Holds(run[r])
      PROVE  Consistent(run[r], out[run[r].output], Wall')
  <2>1. Consistent(run[r], out[run[r].output], Wall) /\ run[r] \in RunState
    BY <1>2 DEF VInv, IInv, Shape
  <2>2. /\ run[r].started \in Int /\ run[r].retrieved \in Int
        /\ \A k \in 1..Len(run[r].listed) : run[r].listed[k].retrieved \in Int
    BY <2>1, TimeTypes
  <2>3. Timed(run[r], Wall) => Timed(run[r], Wall')
    BY <1>1, <2>2 DEF Timed
  <2> QED BY <2>1, <2>3 DEF Consistent
<1> QED BY <1>1, <1>2 DEF VInv

LEMMA StepIsConsistent ==
    ASSUME IInv, VInv, [Next]_vars
    PROVE  VInv'
<1>1. ASSUME NEW r \in Runs, Act(r)
      PROVE  VInv'
  <2>1. CASE FetchFails(r)
    BY <2>1, StoppingIsConsistent DEF FetchFails, At, Ended
  <2> QED BY <1>1, <2>1, StartIsConsistent, ClaimIsConsistent, SendIsConsistent, FetchedIsConsistent,
             WriteIsConsistent, AppendIsConsistent, CompleteIsConsistent, StopsIsConsistent DEF Act
<1> QED BY <1>1, StepBackIsConsistent, TickIsConsistent DEF Next

\* Whatever runs start, fail or are killed, and whenever the publisher replaces the
\* object: a directory that has a manifest passes VerifyAcquisition, if the clock was
\* not set back while its run went on.
THEOREM PublishedPasses == Spec => []PublishedVerifies
<1>1. IInv /\ VInv => PublishedVerifies
  <2> SUFFICES ASSUME VInv, NEW r \in Runs, run[r].owns, ~run[r].stepped,
                      out[run[r].output].manifest # Absent
               PROVE  Verified(run[r].output)
    BY DEF PublishedVerifies
  <2>1. Passes(out[run[r].output])
    BY DEF VInv, Holds, Consistent
  <2> QED BY <2>1 DEF Verified, Passes
<1>2. Init => VInv
  <2> SUFFICES ASSUME Init, NEW r \in Runs PROVE ~Holds(run[r])
    BY DEF VInv
  <2> QED BY DEF Init, Fresh, Holds
<1>3. IInv /\ VInv /\ [Next]_vars => VInv'
  BY StepIsConsistent
<1> QED BY <1>1, <1>2, <1>3, AlwaysIInv, PTL DEF Spec

(***************************************************************************)
(* The acquisition implements OneShot, for every value of the constants.   *)
(* The life of the order is the life of the one run that owns it: the      *)
(* mapping reads the phase off that run and its directory, and the only    *)
(* session is that run's.                                                  *)
(***************************************************************************)
(***************************************************************************)
(* What the mapping reads.                                                 *)
(***************************************************************************)
PhaseOf(e, d) == IF d.manifest # Absent THEN "published"
                 ELSE IF e.step \in Ended THEN "burned"
                 ELSE IF e.requests > 0 THEN "retrieving" ELSE "claimed"
SessionsOf(e) == IF e.requests > 0 THEN 1 ELSE 0

Reads ==
    /\ (\A r \in Runs : ~run[r].owns) => Phase = "sealed" /\ Sessions = 0
    /\ \A r \in Runs : run[r].owns => /\ Phase = PhaseOf(run[r], out[run[r].output])
                                      /\ Sessions = SessionsOf(run[r])

LEMMA MappingReads == IInv => Reads
<1> SUFFICES ASSUME IInv PROVE Reads
  OBVIOUS
<1> DEFINE Sending == {r \in Runs : run[r].requests > 0}
<1>1. \A r \in Runs : run[r].requests \in Nat /\ (~run[r].owns => run[r].requests = 0)
  BY DEF IInv, Shape, RunState, RunInv, Counts
<1>2. ASSUME \A r \in Runs : ~run[r].owns
      PROVE  Phase = "sealed" /\ Sessions = 0
  <2>1. Owners = {} /\ Sending = {}
    BY <1>1, <1>2 DEF Owners
  <2>2. Phase = "sealed"
    BY <2>1 DEF Phase
  <2> QED BY <2>1, <2>2, FS_EmptySet DEF Sessions
<1>3. ASSUME NEW r \in Runs, run[r].owns
      PROVE  /\ Phase = PhaseOf(run[r], out[run[r].output])
             /\ Sessions = SessionsOf(run[r])
  <2>1. \A q \in Runs : run[q].owns => q = r
    BY <1>3 DEF IInv, OneOwner
  <2>2. Owners = {r}
    BY <1>3, <2>1 DEF Owners
  <2>3. Phase = PhaseOf(run[r], out[run[r].output])
    BY <2>2 DEF Phase, PhaseOf
  <2>4. Sending = IF run[r].requests > 0 THEN {r} ELSE {}
    BY <1>1, <2>1
  <2>5. Cardinality({r}) = 1 /\ Cardinality({}) = 0
    BY FS_EmptySet, FS_Singleton
  <2> QED BY <2>3, <2>4, <2>5 DEF Sessions, SessionsOf
<1> QED BY <1>2, <1>3 DEF Reads

(***************************************************************************)
(* Steps of the abstract order.                                            *)
(***************************************************************************)
AbstractStep == [OneShot!OneShotNext]_<<[o \in {Order} |-> Phase], [o \in {Order} |-> Sessions]>>

LEMMA Stutters ==
    ASSUME UNCHANGED <<Phase, Sessions>>
    PROVE  AbstractStep
BY DEF AbstractStep

LEMMA Moved ==
    ASSUME \/ Phase = "sealed" /\ Phase' = "claimed" /\ Sessions' = Sessions
           \/ Phase = "claimed" /\ Phase' = "retrieving" /\ Sessions' = 1
           \/ Phase = "retrieving" /\ Phase' = "published" /\ Sessions' = Sessions
           \/ Phase \in {"claimed", "retrieving"} /\ Phase' = "burned" /\ Sessions' = Sessions
    PROVE  AbstractStep
<1> DEFINE phase == [o \in {Order} |-> Phase]
           sessions == [o \in {Order} |-> Sessions]
<1>1. phase' = [phase EXCEPT ![Order] = Phase'] /\ sessions' = [sessions EXCEPT ![Order] = Sessions']
  OBVIOUS
<1>2. phase[Order] = Phase /\ (Sessions' = Sessions => sessions' = sessions)
  OBVIOUS
<1> HIDE DEF phase, sessions
<1>3. \/ OneShot!Claim(Order) \/ OneShot!Retrieve(Order) \/ OneShot!Publish(Order) \/ OneShot!Abandon(Order)
  BY <1>1, <1>2 DEF OneShot!Claim, OneShot!Retrieve, OneShot!Publish, OneShot!Abandon, OneShot!Move, phase, sessions
<1> QED BY <1>3 DEF AbstractStep, OneShot!OneShotNext

\* The owner moves on: what it has sent and whether it has ended decide the phase.
LEMMA OwnerMoves ==
    ASSUME IInv, Reads, IInv', Reads', NEW r \in Runs, run[r].owns, run'[r].owns,
           run'[r].output = run[r].output, run[r].step \notin Ended,
           \/ run'[r].requests = run[r].requests
           \/ run'[r].requests = run[r].requests + 1 /\ run'[r].step \notin Ended,
           out'[run[r].output].manifest # Absent => run[r].requests > 0
    PROVE  AbstractStep
<1> DEFINE d == out[run[r].output]
<1>1. /\ Phase = PhaseOf(run[r], d) /\ Sessions = SessionsOf(run[r])
      /\ Phase' = PhaseOf(run'[r], d') /\ Sessions' = SessionsOf(run'[r])
  BY DEF Reads, PhaseOf, SessionsOf
<1>2. d.manifest = Absent /\ (d'.manifest # Absent => run'[r].step \in Ended)
  BY DEF IInv, RunInv, Holds, OnDisk
<1>3. run[r].requests \in Nat /\ run'[r].requests \in Nat
  BY DEF IInv, Shape, RunState
<1> HIDE DEF d
<1>4. CASE run'[r].step \notin Ended /\ (run[r].requests > 0 \/ run'[r].requests = 0)
  <2>1. UNCHANGED <<Phase, Sessions>>
    BY <1>1, <1>2, <1>3, <1>4 DEF PhaseOf, SessionsOf
  <2> QED BY <2>1, Stutters
<1>5. CASE run'[r].step \notin Ended /\ run[r].requests = 0 /\ run'[r].requests > 0
  <2>1. Phase = "claimed" /\ Phase' = "retrieving" /\ Sessions' = 1
    BY <1>1, <1>2, <1>3, <1>5 DEF PhaseOf, SessionsOf
  <2> QED BY <2>1, Moved
<1>6. CASE run'[r].step \in Ended
  <2>1. run'[r].requests = run[r].requests /\ Sessions' = Sessions
    BY <1>1, <1>6 DEF SessionsOf
  <2>2. CASE d'.manifest = Absent
    <3>1. Phase \in {"claimed", "retrieving"} /\ Phase' = "burned"
      BY <1>1, <1>2, <1>6, <2>2 DEF PhaseOf
    <3> QED BY <2>1, <3>1, Moved
  <2>3. CASE d'.manifest # Absent
    <3>1. Phase = "retrieving" /\ Phase' = "published"
      BY <1>1, <1>2, <2>3 DEF PhaseOf, d
    <3> QED BY <2>1, <3>1, Moved
  <2> QED BY <2>2, <2>3
<1> QED BY <1>3, <1>4, <1>5, <1>6

\* What other runs and the world do, the mapping does not see.
LEMMA OthersMove ==
    ASSUME IInv, Reads, IInv', Reads',
           \A q \in Runs : run'[q].owns <=> run[q].owns,
           \A q \in Runs : run[q].owns =>
               /\ run'[q].requests = run[q].requests /\ run'[q].output = run[q].output
               /\ run'[q].step \in Ended <=> run[q].step \in Ended
               /\ out'[run[q].output].manifest = out[run[q].output].manifest
    PROVE  AbstractStep
<1>1. CASE \A q \in Runs : ~run[q].owns
  BY <1>1, Stutters DEF Reads
<1>2. ASSUME NEW q \in Runs, run[q].owns
      PROVE  AbstractStep
  <2>1. /\ Phase = PhaseOf(run[q], out[run[q].output]) /\ Sessions = SessionsOf(run[q])
        /\ Phase' = PhaseOf(run'[q], out'[run'[q].output]) /\ Sessions' = SessionsOf(run'[q])
    BY <1>2 DEF Reads, PhaseOf, SessionsOf
  <2>2. UNCHANGED <<Phase, Sessions>>
    BY <1>2, <2>1 DEF PhaseOf, SessionsOf
  <2> QED BY <2>2, Stutters
<1> QED BY <1>1, <1>2

\* A run that ends burns the order if it owns it.
LEMMA EndingMoves ==
    ASSUME IInv, Reads, IInv', Reads', NEW r \in Runs, Stop(r), run[r].step \notin Ended,
           \/ out' = out
           \/ run[r].step \in Writes /\ out' = Written(r)
    PROVE  AbstractStep
<1>1. run'[r] = Stopped(r) /\ \A q \in Runs \ {r} : run'[q] = run[q]
  BY DEF Stop, IInv, Shape
<1>2. CASE run[r].owns
  <2>1. Stopped(r).owns
    BY <1>2, StoppedIs
  <2>2. run'[r].owns /\ run'[r].output = run[r].output /\ run'[r].requests = run[r].requests
    BY <1>1, <2>1, StoppedIs DEF Holds
  <2>3. out[run[r].output].manifest = Absent
    BY <1>2 DEF IInv, RunInv, Holds, OnDisk
  <2>4. out'[run[r].output].manifest # Absent => run[r].step = "manifest"
    BY <2>3, WrittenIs
  <2>5. out'[run[r].output].manifest # Absent => run[r].requests > 0
    BY <2>4 DEF IInv, RunInv, Counts
  <2> QED BY <1>2, <2>2, <2>5, OwnerMoves
<1>3. CASE ~run[r].owns
  <2>1. ~Stopped(r).owns
    BY <1>3, StoppedIs
  <2>2. run[r].step \notin Writes
    BY <1>3, InTheLoop, Moves DEF Writes
  <2> QED BY <1>1, <1>3, <2>1, <2>2, OthersMove
<1> QED BY <1>2, <1>3

\* A step of the loop, in which the owner goes on.
LEMMA LoopMoves ==
    ASSUME IInv, Reads, IInv', Reads', NEW r \in Runs,
           \/ Send(r) \/ Fetched(r) \/ Write(r) \/ AppendChunk(r) \/ (Complete(r) /\ Wall < Expires)
    PROVE  AbstractStep
<1> DEFINE a == Advanced(r)
<1>1. run[r].step \in DOMAIN Following(r)
  BY Moves DEF Send, Fetched, Write, Writes, AppendChunk, Complete, At
<1>2. /\ a \in RunState /\ a.step = Following(r)[run[r].step] /\ a.output = run[r].output
      /\ a.owns = run[r].owns /\ a.requests = run[r].requests
  BY <1>1, NextStep
<1>3. run[r].owns /\ run[r].step \notin Ended /\ out[run[r].output].manifest = Absent
  BY <1>1, InTheLoop, Moves DEF Ended
<1>4. run[r] \in RunState /\ run \in [Runs -> RunState]
  BY DEF IInv, Shape
<1>5. CASE Send(r)
  <2> DEFINE new == [a EXCEPT !.requests = @ + 1]
  <2>1. run' = [run EXCEPT ![r] = new] /\ out' = out
    BY <1>5 DEF Send
  <2>2. a.step = "await"
    BY <1>2, <1>5, Moves DEF Send, At
  <2> HIDE DEF a
  <2>3. new.step = a.step /\ new.output = a.output /\ new.owns = a.owns /\ new.requests = a.requests + 1
    BY <1>2 DEF RunState
  <2> HIDE DEF new
  <2>4. run'[r] = new
    BY <1>4, <2>1
  <2> QED BY <1>2, <1>3, <2>1, <2>2, <2>3, <2>4, OwnerMoves DEF Ended
<1>6. CASE ~Send(r)
  <2>1. /\ run'[r].output = a.output /\ run'[r].owns = a.owns /\ run'[r].requests = a.requests
    <3>1. CASE Fetched(r)
      <4> DEFINE n == a.next + 1
                 b == Body(r)
                 t == Objects[version]
                 new == [a EXCEPT !.next = n, !.body = b, !.known = t, !.retrieved = Wall]
      <4>1. run' = [run EXCEPT ![r] = new]
        BY <3>1 DEF Fetched
      <4> HIDE DEF a, n, b, t
      <4> QED BY <1>2, <1>4, <4>1 DEF RunState
    <3>2. CASE Write(r)
      BY <1>4, <3>2 DEF Write
    <3>3. CASE AppendChunk(r)
      <4> DEFINE l == Append(a.listed, Evidence(r))
                 t == a.transferred + run[r].body.size
                 c == clock + RequestInterval
                 new == [a EXCEPT !.listed = l, !.transferred = t, !.ready = c]
      <4>1. run' = [run EXCEPT ![r] = new]
        BY <3>3 DEF AppendChunk
      <4> HIDE DEF a, l, t, c
      <4> QED BY <1>2, <1>4, <4>1 DEF RunState
    <3>4. CASE Complete(r) /\ Wall < Expires
      <4> DEFINE new == [a EXCEPT !.completed = Wall]
      <4>1. run' = [run EXCEPT ![r] = new]
        BY <3>4 DEF Complete
      <4> HIDE DEF a
      <4> QED BY <1>2, <1>4, <4>1 DEF RunState
    <3> QED BY <1>6, <3>1, <3>2, <3>3, <3>4
  <2>2. out' = out \/ Write(r)
    BY <1>6 DEF Fetched, AppendChunk, Complete
  <2>3. out'[run[r].output].manifest # Absent => run[r].step = "manifest"
    BY <1>3, <2>2, WrittenIs DEF Write
  <2>4. out'[run[r].output].manifest # Absent => run[r].requests > 0
    BY <2>3 DEF IInv, RunInv, Counts
  <2> HIDE DEF a
  <2> QED BY <1>2, <1>3, <2>1, <2>4, OwnerMoves
<1> QED BY <1>5, <1>6

LEMMA StartMoves ==
    ASSUME IInv, Reads, IInv', Reads', NEW r \in Runs, Start(r)
    PROVE  AbstractStep
<1>1. PICK o \in Outputs :
          /\ ~out[o].exists
          /\ out' = [out EXCEPT ![o].exists = TRUE]
          /\ run' = [run EXCEPT ![r].step = "claim", ![r].output = o, ![r].started = Wall]
  BY DEF Start
<1>2. run \in [Runs -> RunState] /\ out \in [Outputs -> OutputState]
  BY DEF IInv, Shape
<1>3. ~run[r].owns
  BY DEF IInv, RunInv, Counts, Start, At
<1>4. run'[r].step = "claim" /\ \A q \in Runs \ {r} : run'[q] = run[q]
  <2> DEFINE new == [run[r] EXCEPT !.step = "claim", !.output = o, !.started = Wall]
  <2>1. run' = [run EXCEPT ![r] = new] /\ run[r] \in RunState
    BY <1>1, <1>2
  <2> QED BY <1>2, <2>1 DEF RunState
<1>5. ~run'[r].owns
  BY <1>4 DEF IInv, RunInv, Counts
<1>6. \A q \in Runs : run[q].owns => run[q].output \in Outputs \ {o}
  BY <1>1 DEF IInv, RunInv, Holds, OnDisk
<1>7. \A q \in Runs : run[q].owns => out'[run[q].output] = out[run[q].output]
  BY <1>1, <1>2, <1>6
<1> QED BY <1>3, <1>4, <1>5, <1>7, OthersMove

LEMMA ClaimMoves ==
    ASSUME IInv, Reads, IInv', Reads', NEW r \in Runs, ClaimExecution(r)
    PROVE  AbstractStep
<1>1. CASE consumed
  BY <1>1, EndingMoves DEF ClaimExecution, At, Ended
<1>2. CASE ~consumed
  <2>1. \A q \in Runs : ~run[q].owns
    BY <1>2 DEF IInv, RunInv
  <2>2. run' = [run EXCEPT ![r].step = "copy", ![r].owns = TRUE] /\ out' = out
    BY <1>2 DEF ClaimExecution
  <2>3. run'[r].step = "copy" /\ run'[r].owns
    <3> DEFINE new == [run[r] EXCEPT !.step = "copy", !.owns = TRUE]
    <3>1. run' = [run EXCEPT ![r] = new] /\ run[r] \in RunState
      BY <2>2 DEF IInv, Shape
    <3> QED BY <3>1 DEF RunState, IInv, Shape
  <2>4. run'[r].requests = 0 /\ out'[run'[r].output].manifest = Absent
    BY <2>3 DEF IInv, RunInv, Counts, Holds, OnDisk, Ended
  <2>5. Phase = "sealed" /\ Sessions = 0
    BY <2>1 DEF Reads
  <2>6. Phase' = PhaseOf(run'[r], out'[run'[r].output]) /\ Sessions' = SessionsOf(run'[r])
    BY <2>3 DEF Reads, PhaseOf, SessionsOf
  <2>7. Phase' = "claimed" /\ Sessions' = 0
    BY <2>3, <2>4, <2>6 DEF PhaseOf, SessionsOf, Ended
  <2> QED BY <2>5, <2>7, Moved
<1> QED BY <1>1, <1>2

LEMMA WorldMoves ==
    ASSUME IInv, Reads, IInv', Reads', Replace \/ Tick \/ StepBack \/ UNCHANGED vars
    PROVE  AbstractStep
<1>1. out' = out
  BY DEF Replace, Tick, StepBack, vars
<1>2. ASSUME NEW q \in Runs
      PROVE  /\ run'[q].requests = run[q].requests /\ run'[q].output = run[q].output
             /\ run'[q].step = run[q].step /\ run'[q].owns = run[q].owns
  <2>1. CASE StepBack
    <3> DEFINE s == run[q].stepped \/ run[q].step \notin {"start"} \cup Ended
    <3>1. run'[q] = [run[q] EXCEPT !.stepped = s] /\ run[q] \in RunState
      BY <2>1 DEF StepBack, IInv, Shape
    <3> HIDE DEF s
    <3> QED BY <3>1 DEF RunState
  <2>2. CASE ~StepBack
    BY <2>2 DEF Replace, Tick, vars
  <2> QED BY <2>1, <2>2
<1> QED BY <1>1, <1>2, OthersMove

LEMMA StepMoves ==
    ASSUME IInv, Reads, IInv', Reads', [Next]_vars
    PROVE  AbstractStep
<1>1. ASSUME NEW r \in Runs, Act(r)
      PROVE  AbstractStep
  <2>1. CASE FetchFails(r) \/ (Complete(r) /\ ~(Wall < Expires))
    BY <2>1, EndingMoves DEF FetchFails, Complete, At, Ended
  <2>2. CASE Stops(r)
    BY <2>2, EndingMoves DEF Stops
  <2>3. CASE Send(r) \/ Fetched(r) \/ Write(r) \/ AppendChunk(r) \/ (Complete(r) /\ Wall < Expires)
    BY <2>3, LoopMoves
  <2>4. CASE Start(r)
    BY <2>4, StartMoves
  <2>5. CASE ClaimExecution(r)
    BY <2>5, ClaimMoves
  <2> QED BY <1>1, <2>1, <2>2, <2>3, <2>4, <2>5 DEF Act
<1> QED BY <1>1, WorldMoves DEF Next

(***************************************************************************)
(* The theorem.                                                            *)
(***************************************************************************)
\* The runs of an order live the one-shot life: one claim, one session, and then one
\* publication or none, whatever runs crash, fail and start again.
THEOREM Refinement == Spec => ImplementsOneShot
<1>1. Init => OneShot!OneShotInit
  <2> SUFFICES ASSUME Init PROVE OneShot!OneShotInit
    OBVIOUS
  <2>1. \A r \in Runs : ~run[r].owns
    BY DEF Init, Fresh
  <2>2. Phase = "sealed" /\ Sessions = 0
    BY <2>1, InitHolds, MappingReads DEF Reads
  <2> QED BY <2>2 DEF OneShot!OneShotInit
<1>2. IInv /\ Reads /\ IInv' /\ Reads' /\ [Next]_vars => AbstractStep
  BY StepMoves
<1>3. Spec => []Reads
  BY AlwaysIInv, MappingReads, PTL
<1> QED BY <1>1, <1>2, <1>3, AlwaysIInv, PTL DEF Spec, ImplementsOneShot, OneShot!OneShotSpec, AbstractStep
=============================================================================
