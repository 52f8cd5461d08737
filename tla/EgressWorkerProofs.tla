------------------------- MODULE EgressWorkerProofs -------------------------
(***************************************************************************)
(* The safety of the egress worker, for any number of processes, orders and *)
(* origins.  Two facts carry the argument: whoever is past AcquireLease is   *)
(* the lease holder, so the circuit and the spool it inspects cannot change  *)
(* under it; and the spool of an order records how far its only run went.   *)
(***************************************************************************)
EXTENDS EgressWorker, TLAPS

Checked == {"create", "order", "send", "inflight"}

\* What a run at each step has already written.
Prior == [order |-> {}, send |-> {"order"}, inflight |-> {"order"}, record |-> {"order"},
          body |-> {"order"}, cbor |-> {"order", "body"}, json |-> {"order", "body", "cbor"},
          ref |-> {"order", "body", "cbor", "json"},
          result |-> {"order", "body", "cbor", "json", "ref"},
          manifest |-> {"order", "body", "cbor", "json", "ref", "result"},
          reset |-> Artifacts]

\* Everything past the lease belongs to its holder.
LeaseInv == \A w \in Workers : worker[w].step \in Leased => lease = w

\* The instant a run compares against is in the past.
ClockInv == \A w \in Workers : worker[w].step \in Leased \cup {"admitted"} => worker[w].now <= clock

\* What CheckCircuit saw still holds when the request leaves.
CircuitInv == \A w \in Workers : worker[w].step \in Checked =>
                 /\ Readable(OriginOf[worker[w].order])
                 /\ ClosedAt(OriginOf[worker[w].order], worker[w].now)

\* How far a run at this step has brought its spool and its order.
Progress(step, artifacts, count) ==
    /\ "dir" \in artifacts
    /\ Prior[step] \subseteq artifacts
    /\ "manifest" \in artifacts <=> step = "reset"
    /\ count = IF step \in {"order", "send"} THEN 0 ELSE 1

OwnerInv == \A w \in Workers : worker[w].step \in Owning =>
               Progress(worker[w].step, spool[worker[w].order], sent[worker[w].order])

\* What the disk says about an order, whoever owns it.
OrderInv == \A o \in Orders : /\ sent[o] <= 1
                              /\ spool[o] = {} => sent[o] = 0
                              /\ Published(o) => Artifacts \subseteq spool[o] /\ sent[o] = 1

IInv == TypeOK /\ LeaseInv /\ ClockInv /\ CircuitInv /\ OwnerInv /\ OrderInv

-----------------------------------------------------------------------------
\* A process that is not idle has an order and an instant.
LEMMA ActiveType == ASSUME TypeOK, NEW w \in Workers, worker[w].step # "idle"
                    PROVE  /\ worker[w] \in [step : Steps \ {"idle"}, order : Orders,
                                             now : Nat, permitted : BOOLEAN]
                           /\ OriginOf[worker[w].order] \in Origins
  BY WorkOrderAssumption DEF TypeOK, WorkerStates, Idle

\* Goto changes one process, and of that one only the step.
LEMMA GotoEffect == ASSUME TypeOK, NEW w \in Workers, worker[w].step # "idle",
                           NEW s \in Steps \ {"idle"}, Goto(w, s)
                    PROVE  /\ worker' \in [Workers -> WorkerStates]
                           /\ worker'[w] = [worker[w] EXCEPT !.step = s]
                           /\ worker'[w].step = s
                           /\ worker'[w].order = worker[w].order
                           /\ worker'[w].now = worker[w].now
                           /\ \A v \in Workers : v # w => worker'[v] = worker[v]
  <1>1. worker[w] \in [step : Steps \ {"idle"}, order : Orders, now : Nat, permitted : BOOLEAN]
    BY ActiveType
  <1>2. [worker[w] EXCEPT !.step = s] \in [step : Steps \ {"idle"}, order : Orders,
                                           now : Nat, permitted : BOOLEAN]
    BY <1>1
  <1>3. worker \in [Workers -> WorkerStates]
    BY DEF TypeOK
  <1>4. worker' = [worker EXCEPT ![w] = [worker[w] EXCEPT !.step = s]]
    BY DEF Goto
  <1> QED BY <1>1, <1>2, <1>3, <1>4 DEF WorkerStates

\* Exit forgets the process and drops the lease if that process held it.
LEMMA ExitEffect == ASSUME TypeOK, NEW w \in Workers, Exit(w)
                    PROVE  /\ worker' \in [Workers -> WorkerStates]
                           /\ worker'[w].step = "idle"
                           /\ \A v \in Workers : v # w => worker'[v] = worker[v]
                           /\ lease' \in Workers \cup {NoWorker}
                           /\ \A v \in Workers : v # w /\ lease = v => lease' = v
  BY DEF TypeOK, Exit, WorkerStates, Idle

\* Only one process can be past the lease.
LEMMA LeaseExcludes == ASSUME LeaseInv, NEW v \in Workers, NEW w \in Workers,
                              worker[v].step \in Leased, worker[w].step \in Leased
                       PROVE  v = w
  BY DEF LeaseInv

LEMMA InitEstablishes == Init => IInv
  <1> SUFFICES ASSUME Init PROVE IInv
    OBVIOUS
  <1>1. /\ streak \in [Origins -> Nat] /\ unreset \subseteq Origins
        /\ circuit \in [Origins -> [failures : Nat, openUntil : Nat]]
    BY SettingAssumption DEF Init
  <1>2. TypeOK
    BY <1>1, SettingAssumption DEF Init, TypeOK, WorkerStates, Idle
  <1>3. \A w \in Workers : worker[w].step = "idle"
    BY DEF Init, Idle
  <1>4. LeaseInv /\ ClockInv /\ CircuitInv /\ OwnerInv
    BY <1>3 DEF LeaseInv, ClockInv, CircuitInv, OwnerInv, Leased, Owning, Checked, Artifacts, After
  <1>5. OrderInv
    BY DEF Init, OrderInv, Published
  <1> QED BY <1>2, <1>4, <1>5 DEF IInv

\* A step that ends process w: only its lease allows it to touch the disk.
LEMMA EndStep ==
    ASSUME IInv, NEW w \in Workers, Exit(w),
           UNCHANGED <<clock, sent>>,
           control' \in Controls,
           circuit' \in [Origins -> [failures : Nat, openUntil : Nat]],
           spool' \in [Orders -> SUBSET (Artifacts \cup {"dir"})],
           streak' \in [Origins -> Nat], unreset' \subseteq Origins,
           worker[w].step \in Leased \/ UNCHANGED <<circuit, spool>>,
           OrderInv'
    PROVE  IInv'
  <1> USE DEF IInv
  <1>0. /\ worker' \in [Workers -> WorkerStates]
        /\ worker'[w].step = "idle"
        /\ \A v \in Workers : v # w => worker'[v] = worker[v]
        /\ lease' \in Workers \cup {NoWorker}
        /\ \A v \in Workers : v # w /\ lease = v => lease' = v
    BY ExitEffect
  <1>1. TypeOK'
    BY <1>0 DEF TypeOK
  <1>2. /\ "idle" \notin Leased \cup {"admitted"}
        /\ Checked \subseteq Leased
        /\ Owning \subseteq Leased
    BY DEF Leased, Owning, Checked, Artifacts, After
  <1>3. LeaseInv' /\ ClockInv'
    BY <1>0, <1>2 DEF LeaseInv, ClockInv
  <1>4. \A v \in Workers : worker'[v].step \in Leased => UNCHANGED <<circuit, spool>>
    BY <1>0, <1>2 DEF LeaseInv
  <1>5. CircuitInv'
    BY <1>0, <1>2, <1>4 DEF CircuitInv, Readable, ClosedAt
  <1>6. OwnerInv'
    BY <1>0, <1>2, <1>4 DEF OwnerInv
  <1> QED BY <1>1, <1>3, <1>5, <1>6

\* A step of process w that only moves it, from s to t, needs facts about w alone.
LEMMA MoveStep ==
    ASSUME IInv, NEW w \in Workers, NEW t \in Steps \ {"idle"}, worker[w].step # "idle",
           Goto(w, t),
           UNCHANGED <<clock, control, circuit>>,
           streak' \in [Origins -> Nat], unreset' \subseteq Origins,
           lease' \in Workers \cup {NoWorker},
           \A v \in Workers : v # w /\ lease = v => lease' = v,
           t \in Leased => lease' = w,
           t \in Leased => worker[w].now <= clock,
           t \in Checked => /\ Readable(OriginOf[worker[w].order])
                            /\ ClosedAt(OriginOf[worker[w].order], worker[w].now),
           spool' \in [Orders -> SUBSET (Artifacts \cup {"dir"})],
           sent' \in [Orders -> Nat],
           t \in Owning => Progress(t, spool'[worker[w].order], sent'[worker[w].order]),
           \A v \in Workers : v # w /\ worker[v].step \in Owning =>
               LET o == worker[v].order IN spool'[o] = spool[o] /\ sent'[o] = sent[o],
           t # "admitted",
           OrderInv'
    PROVE  IInv'
  <1> USE DEF IInv
  <1>0. /\ worker' \in [Workers -> WorkerStates]
        /\ worker'[w].step = t
        /\ worker'[w].order = worker[w].order
        /\ worker'[w].now = worker[w].now
        /\ \A v \in Workers : v # w => worker'[v] = worker[v]
    BY GotoEffect
  <1>1. TypeOK'
    BY <1>0 DEF TypeOK
  <1>2. LeaseInv'
    BY <1>0 DEF LeaseInv
  <1>3. ClockInv'
    BY <1>0 DEF ClockInv
  <1>4. CircuitInv'
    BY <1>0 DEF CircuitInv, Readable, ClosedAt
  <1>5. OwnerInv'
    <2> SUFFICES ASSUME NEW v \in Workers, worker'[v].step \in Owning
                 PROVE  Progress(worker'[v].step, spool'[worker'[v].order], sent'[worker'[v].order])
      BY DEF OwnerInv
    <2>1. CASE v = w
      BY <1>0, <2>1
    <2>2. CASE v # w
      BY <1>0, <2>2 DEF OwnerInv
    <2> QED BY <2>1, <2>2
  <1> QED BY <1>1, <1>2, <1>3, <1>4, <1>5

\* Under the lease no other process owns anything.
LEMMA SoleOwner == ASSUME LeaseInv, NEW w \in Workers, worker[w].step \in Leased
                   PROVE  \A v \in Workers : v # w => worker[v].step \notin Leased
  BY DEF LeaseInv

LEMMA LoadStep == ASSUME IInv, NEW w \in Workers, NEW o \in Orders, Load(w, o) PROVE IInv'
  <1> USE DEF IInv
  <1> DEFINE r == [step |-> "loaded", order |-> o, now |-> 0, permitted |-> Permits(control, o)]
  <1>0. /\ worker' = [worker EXCEPT ![w] = r]
        /\ UNCHANGED <<clock, control, lease, circuit, spool, sent, streak, unreset>>
    BY DEF Load
  <1>1. r \in WorkerStates
    BY SettingAssumption DEF WorkerStates, Steps, Permits, TypeOK
  <1>2. /\ worker'[w] = r
        /\ \A v \in Workers : v # w => worker'[v] = worker[v]
        /\ worker' \in [Workers -> WorkerStates]
    BY <1>0, <1>1 DEF TypeOK
  <1>3. r.step \notin Leased \cup {"admitted"} \cup Checked \cup Owning
    BY DEF Leased, Checked, Owning, Artifacts, After
  <1> HIDE DEF r
  <1>4. TypeOK'
    BY <1>0, <1>2 DEF TypeOK
  <1>5. LeaseInv' /\ ClockInv'
    BY <1>0, <1>2, <1>3 DEF LeaseInv, ClockInv
  <1>6. CircuitInv'
    BY <1>0, <1>2, <1>3 DEF CircuitInv, Readable, ClosedAt
  <1>7. OwnerInv' /\ OrderInv'
    BY <1>0, <1>2, <1>3 DEF OwnerInv, OrderInv, Published
  <1> QED BY <1>4, <1>5, <1>6, <1>7

LEMMA AdmitStep == ASSUME IInv, NEW w \in Workers, Admit(w) PROVE IInv'
  <1> USE DEF IInv
  <1>0. worker[w] \in [step : Steps \ {"idle"}, order : Orders, now : Nat, permitted : BOOLEAN]
    BY ActiveType DEF Admit, At
  <1> DEFINE r == [worker[w] EXCEPT !.step = "admitted", !.now = clock]
  <1>1. CASE worker' = [worker EXCEPT ![w] = r]
    <2>0. UNCHANGED <<clock, control, lease, circuit, spool, sent, streak, unreset>>
      BY DEF Admit
    <2>1. r \in WorkerStates /\ r.step = "admitted" /\ r.now = clock
      BY <1>0 DEF WorkerStates, Steps, TypeOK
    <2> HIDE DEF r
    <2>2. /\ worker'[w] = r
          /\ \A v \in Workers : v # w => worker'[v] = worker[v]
          /\ worker' \in [Workers -> WorkerStates]
      BY <1>1, <2>1 DEF TypeOK
    <2>3. r.step \notin Leased \cup Checked \cup Owning
      BY <2>1 DEF Leased, Checked, Owning, Artifacts, After
    <2>4. TypeOK'
      BY <2>0, <2>2 DEF TypeOK
    <2>5. LeaseInv' /\ ClockInv'
      BY <2>0, <2>1, <2>2, <2>3 DEF LeaseInv, ClockInv, TypeOK
    <2>6. CircuitInv'
      BY <2>0, <2>2, <2>3 DEF CircuitInv, Readable, ClosedAt
    <2>7. OwnerInv' /\ OrderInv'
      BY <2>0, <2>2, <2>3 DEF OwnerInv, OrderInv, Published
    <2> QED BY <2>4, <2>5, <2>6, <2>7
  <1>2. CASE worker' = [worker EXCEPT ![w] = Idle]
    <2>1. worker[w].step \notin Leased
      BY DEF Admit, At, Leased, Owning, Artifacts, After
    <2>2. /\ worker'[w] = Idle
          /\ \A v \in Workers : v # w => worker'[v] = worker[v]
          /\ worker' \in [Workers -> WorkerStates]
      BY <1>2 DEF TypeOK, WorkerStates
    <2>3. Idle.step \notin Leased \cup Checked \cup Owning \cup {"admitted"}
      BY DEF Leased, Checked, Owning, Artifacts, After, Idle
    <2>4. UNCHANGED <<clock, control, lease, circuit, spool, sent, streak, unreset>>
      BY DEF Admit
    <2> HIDE DEF Idle
    <2>5. TypeOK'
      BY <2>2, <2>4 DEF TypeOK
    <2>6. LeaseInv' /\ ClockInv'
      BY <2>2, <2>3, <2>4 DEF LeaseInv, ClockInv
    <2>7. CircuitInv'
      BY <2>2, <2>3, <2>4 DEF CircuitInv, Readable, ClosedAt
    <2>8. OwnerInv' /\ OrderInv'
      BY <2>2, <2>3, <2>4 DEF OwnerInv, OrderInv, Published
    <2> QED BY <2>5, <2>6, <2>7, <2>8
  <1> QED BY <1>1, <1>2 DEF Admit

\* Nothing but the process ends: the disk is as it was.
LEMMA QuitStep == ASSUME IInv, NEW w \in Workers, Exit(w),
                         UNCHANGED <<clock, control, circuit, spool, sent, streak, unreset>>
                  PROVE  IInv'
  <1>1. OrderInv'
    BY DEF IInv, OrderInv, Published
  <1> QED BY <1>1, EndStep DEF IInv, TypeOK

LEMMA AcquireLeaseStep == ASSUME IInv, NEW w \in Workers, AcquireLease(w) PROVE IInv'
  <1> USE DEF IInv
  <1>0. /\ worker[w].step = "admitted"
        /\ UNCHANGED <<clock, control, circuit, spool, sent, streak, unreset>>
    BY DEF AcquireLease, At
  <1>1. CASE Exit(w)
    BY <1>0, <1>1, QuitStep
  <1>2. CASE lease = NoWorker /\ lease' = w /\ Goto(w, "check")
    <2>1. "check" \in Leased /\ "check" \in Steps \ {"idle"} /\ "check" \notin Checked \cup Owning
      BY DEF Leased, Owning, Steps, Checked, Artifacts, After
    <2>2. worker[w].now <= clock
      BY <1>0 DEF ClockInv
    <2>3. OrderInv'
      BY <1>0 DEF OrderInv, Published
    <2>4. \A v \in Workers : v # w /\ lease = v => lease' = v
      BY <1>2, SettingAssumption
    <2> QED BY <1>0, <1>2, <2>1, <2>2, <2>3, <2>4, MoveStep DEF TypeOK
  <1> QED BY <1>1, <1>2 DEF AcquireLease

LEMMA CheckCircuitStep == ASSUME IInv, NEW w \in Workers, CheckCircuit(w) PROVE IInv'
  <1> USE DEF IInv
  <1>0. /\ worker[w].step = "check"
        /\ UNCHANGED <<clock, control, circuit, spool, sent, streak, unreset>>
    BY DEF CheckCircuit, At
  <1>1. CASE Exit(w)
    BY <1>0, <1>1, QuitStep
  <1>2. CASE /\ Readable(OriginOf[worker[w].order])
             /\ ClosedAt(OriginOf[worker[w].order], worker[w].now)
             /\ Goto(w, "create") /\ UNCHANGED lease
    <2>1. /\ "check" \in Leased
          /\ "create" \in Leased /\ "create" \in Steps \ {"idle"} /\ "create" \notin Owning
      BY DEF Leased, Owning, Steps, Artifacts, After
    <2>2. lease = w /\ worker[w].now <= clock
      BY <1>0, <2>1 DEF LeaseInv, ClockInv
    <2>3. OrderInv'
      BY <1>0 DEF OrderInv, Published
    <2> QED BY <1>0, <1>2, <2>1, <2>2, <2>3, MoveStep DEF TypeOK
  <1> QED BY <1>1, <1>2 DEF CheckCircuit

\* A step under the lease that keeps the circuit: what is left to show is the
\* progress of w on its own order.
LEMMA LeasedStep ==
    ASSUME IInv, NEW w \in Workers, NEW t \in Owning, worker[w].step \in Leased,
           Goto(w, t),
           UNCHANGED <<clock, control, lease, circuit>>,
           streak' \in [Origins -> Nat], unreset' \subseteq Origins,
           t \in Checked => worker[w].step \in Checked,
           spool' \in [Orders -> SUBSET (Artifacts \cup {"dir"})],
           sent' \in [Orders -> Nat],
           Progress(t, spool'[worker[w].order], sent'[worker[w].order]),
           OrderInv'
    PROVE  IInv'
  <1> USE DEF IInv
  <1>1. t \in Leased /\ t \in Steps \ {"idle"} /\ t # "admitted"
    BY DEF Leased, Owning, Steps, Artifacts, After
  <1>2. worker[w].step # "idle"
    BY DEF Leased, Owning, Artifacts, After
  <1>3. lease = w /\ worker[w].now <= clock
    BY DEF LeaseInv, ClockInv
  <1>4. t \in Checked => /\ Readable(OriginOf[worker[w].order])
                         /\ ClosedAt(OriginOf[worker[w].order], worker[w].now)
    BY DEF CircuitInv
  <1>5. \A v \in Workers : v # w => worker[v].step \notin Owning
    BY SoleOwner DEF Leased
  <1>6. lease' \in Workers \cup {NoWorker} /\ lease' = w
    BY <1>3
  <1> QED BY <1>1, <1>2, <1>3, <1>4, <1>5, <1>6, MoveStep

LEMMA CreateSpoolStep == ASSUME IInv, NEW w \in Workers, CreateSpool(w) PROVE IInv'
  <1> USE DEF IInv
  <1> DEFINE o == worker[w].order
  <1>0. /\ worker[w].step = "create"
        /\ UNCHANGED <<clock, control, circuit, sent, streak, unreset>>
    BY DEF CreateSpool, At
  <1>1. CASE Exit(w) /\ UNCHANGED spool
    BY <1>0, <1>1, QuitStep
  <1>2. CASE /\ spool[o] = {} /\ spool' = [spool EXCEPT ![o] = {"dir"}]
             /\ Goto(w, "order") /\ UNCHANGED lease
    <2>1. "create" \in Leased /\ "create" \in Checked /\ "order" \in Owning
      BY DEF Leased, Owning, Checked, Artifacts, After
    <2>2. o \in Orders
      BY <1>0, ActiveType
    <2>3. spool' \in [Orders -> SUBSET (Artifacts \cup {"dir"})] /\ spool'[o] = {"dir"}
      BY <1>2, <2>2 DEF TypeOK
    <2>4. sent[o] = 0
      BY <1>2, <2>2 DEF OrderInv
    <2>5. Progress("order", spool'[o], sent'[o])
      BY <1>0, <2>3, <2>4 DEF Progress, Prior
    <2>6. OrderInv'
      BY <1>0, <1>2, <2>2, <2>3, <2>4 DEF OrderInv, Published, TypeOK
    <2> QED BY <1>0, <1>2, <2>1, <2>3, <2>5, <2>6, LeasedStep DEF TypeOK
  <1> QED BY <1>1, <1>2 DEF CreateSpool

\* Writing the artifact of the step advances the run to the next step.
LEMMA WriteProgress ==
    ASSUME NEW s \in Artifacts, NEW A, NEW n, Progress(s, A, n)
    PROVE  /\ After[s] \in Owning
           /\ After[s] \in Checked => s \in Checked
           /\ Progress(After[s], A \cup {s}, n)
  <1>1. s \in {"order", "body", "cbor", "json", "ref", "result", "manifest"}
    BY DEF Artifacts, After
  <1>2. /\ After[s] \in Owning
        /\ After[s] \in Checked => s \in Checked
    BY <1>1 DEF Artifacts, After, Owning, Checked
  <1>3. s = "manifest" => Artifacts \subseteq A \cup {s}
    BY DEF Progress, Prior, Artifacts, After
  <1>4. Prior[After[s]] \subseteq A \cup {s}
    <2>1. s # "manifest" => Prior[After[s]] \subseteq Prior[s] \cup {s}
      BY <1>1 DEF Prior, After
    <2>2. s = "manifest" => Prior[After[s]] = Artifacts
      BY DEF Prior, After
    <2> QED BY <1>3, <2>1, <2>2 DEF Progress
  <1>5. "manifest" \in A \cup {s} <=> After[s] = "reset"
    BY <1>1 DEF Progress, After
  <1>6. n = IF After[s] \in {"order", "send"} THEN 0 ELSE 1
    BY <1>1 DEF Progress, After
  <1> QED BY <1>2, <1>3, <1>4, <1>5, <1>6 DEF Progress

\* The disk after an artifact of the running order landed.
LEMMA LandedArtifact ==
    ASSUME IInv, NEW w \in Workers, worker[w].step \in Artifacts, UNCHANGED sent,
           spool' = [spool EXCEPT ![worker[w].order] = @ \cup {worker[w].step}]
    PROVE  /\ spool' \in [Orders -> SUBSET (Artifacts \cup {"dir"})]
           /\ spool'[worker[w].order] = spool[worker[w].order] \cup {worker[w].step}
           /\ OrderInv'
  <1> USE DEF IInv
  <1> DEFINE s == worker[w].step
             o == worker[w].order
  <1>1. s # "idle" /\ s \in Owning
    BY DEF Artifacts, After, Owning
  <1>2. o \in Orders
    BY <1>1, ActiveType
  <1>3. /\ spool' \in [Orders -> SUBSET (Artifacts \cup {"dir"})]
        /\ spool'[o] = spool[o] \cup {s}
        /\ \A q \in Orders : q # o => spool'[q] = spool[q]
    BY <1>2 DEF TypeOK
  <1>4. Progress(s, spool[o], sent[o])
    BY <1>1 DEF OwnerInv
  <1>5. spool[o] \in SUBSET (Artifacts \cup {"dir"})
    BY <1>2 DEF TypeOK
  <1>6. s = "manifest" => Artifacts \subseteq spool[o] \cup {s} /\ sent[o] = 1
    <2>1. s = "manifest" => Artifacts \subseteq spool[o] \cup {s}
      BY <1>4 DEF Progress, Prior, Artifacts, After
    <2>2. s = "manifest" => sent[o] = 1
      BY <1>4 DEF Progress
    <2> QED BY <2>1, <2>2
  <1>7. OrderInv'
    <2>1. ASSUME NEW q \in Orders
          PROVE  /\ sent'[q] <= 1
                 /\ spool'[q] = {} => sent'[q] = 0
                 /\ "manifest" \in spool'[q] => Artifacts \subseteq spool'[q] /\ sent'[q] = 1
      <3>1. CASE q = o
        BY <1>2, <1>3, <1>6, <3>1 DEF OrderInv, Published
      <3>2. CASE q # o
        BY <1>3, <3>2 DEF OrderInv, Published
      <3> QED BY <3>1, <3>2
    <2> QED BY <2>1 DEF OrderInv, Published
  <1> QED BY <1>3, <1>7

LEMMA WriteArtifactStep == ASSUME IInv, NEW w \in Workers, WriteArtifact(w) PROVE IInv'
  <1> USE DEF IInv
  <1> DEFINE s == worker[w].step
             o == worker[w].order
  <1>0. /\ s \in Artifacts
        /\ spool' = [spool EXCEPT ![o] = @ \cup {s}]
        /\ Goto(w, After[s])
        /\ UNCHANGED <<clock, control, lease, circuit, sent>>
    BY DEF WriteArtifact
  <1>1. s # "idle" /\ s \in Owning /\ s \in Leased
    BY <1>0 DEF Artifacts, After, Owning, Leased
  <1>2. o \in Orders /\ OriginOf[o] \in Origins
    BY <1>1, ActiveType
  <1>3. streak' \in [Origins -> Nat] /\ unreset' \subseteq Origins
    BY <1>2 DEF WriteArtifact, EndStreak, TypeOK
  <1>4. /\ spool' \in [Orders -> SUBSET (Artifacts \cup {"dir"})]
        /\ spool'[o] = spool[o] \cup {s}
        /\ OrderInv'
    BY <1>0, LandedArtifact
  <1>5. Progress(s, spool[o], sent[o]) /\ spool[o] \in SUBSET (Artifacts \cup {"dir"})
    BY <1>1, <1>2 DEF OwnerInv, TypeOK
  <1>6. /\ After[s] \in Owning
        /\ After[s] \in Checked => s \in Checked
        /\ Progress(After[s], spool[o] \cup {s}, sent[o])
    BY <1>0, <1>5, WriteProgress
  <1>7. Progress(After[s], spool'[o], sent'[o])
    BY <1>0, <1>4, <1>6
  <1> QED BY <1>0, <1>1, <1>3, <1>4, <1>6, <1>7, LeasedStep DEF TypeOK

LEMMA WriteFailsStep == ASSUME IInv, NEW w \in Workers, WriteFails(w) PROVE IInv'
  <1> USE DEF IInv
  <1> DEFINE s == worker[w].step
             o == worker[w].order
  <1>0. /\ s \in Artifacts
        /\ UNCHANGED <<clock, control, circuit, sent>>
        /\ \/ UNCHANGED spool
           \/ spool' = [spool EXCEPT ![o] = @ \cup {s}]
        /\ IF s \in Bundle THEN Goto(w, "record") /\ UNCHANGED lease ELSE Exit(w)
    BY DEF WriteFails
  <1>1. s # "idle" /\ s \in Owning /\ s \in Leased
    BY <1>0 DEF Artifacts, After, Owning, Leased
  <1>2. o \in Orders /\ OriginOf[o] \in Origins
    BY <1>1, ActiveType
  <1>3. streak' \in [Origins -> Nat] /\ unreset' \subseteq Origins
    BY <1>2 DEF WriteFails, CountFailure, EndStreak, TypeOK
  <1>4. /\ spool' \in [Orders -> SUBSET (Artifacts \cup {"dir"})]
        /\ spool'[o] = spool[o] \/ spool'[o] = spool[o] \cup {s}
        /\ OrderInv'
    <2>1. CASE UNCHANGED spool
      BY <1>0, <2>1 DEF TypeOK, OrderInv, Published
    <2>2. CASE spool' = [spool EXCEPT ![o] = @ \cup {s}]
      BY <1>0, <2>2, LandedArtifact
    <2> QED BY <1>0, <2>1, <2>2
  <1>5. CASE s \notin Bundle
    BY <1>0, <1>1, <1>3, <1>4, <1>5, EndStep DEF TypeOK
  <1>6. CASE s \in Bundle
    <2>1. "record" \in Owning /\ "record" \notin Checked
      BY DEF Owning, Checked
    <2>2. Progress(s, spool[o], sent[o])
      BY <1>1 DEF OwnerInv
    <2>3. Progress("record", spool'[o], sent'[o])
      BY <1>0, <1>4, <1>6, <2>2 DEF Progress, Prior, Bundle
    <2> QED BY <1>0, <1>1, <1>3, <1>4, <1>6, <2>1, <2>3, LeasedStep DEF TypeOK
  <1> QED BY <1>5, <1>6

LEMMA SendStep == ASSUME IInv, NEW w \in Workers, Send(w) PROVE IInv'
  <1> USE DEF IInv
  <1> DEFINE o == worker[w].order
  <1>0. /\ worker[w].step = "send"
        /\ sent' = [sent EXCEPT ![o] = @ + 1]
        /\ Goto(w, "inflight")
        /\ UNCHANGED <<clock, control, lease, circuit, spool, streak, unreset>>
    BY DEF Send, At
  <1>1. /\ "send" \in Leased /\ "send" \in Owning /\ "send" \in Checked
        /\ "inflight" \in Owning
    BY DEF Leased, Owning, Checked
  <1>2. o \in Orders
    BY <1>0, ActiveType
  <1>3. Progress("send", spool[o], sent[o])
    BY <1>0, <1>1 DEF OwnerInv
  <1>4. sent' \in [Orders -> Nat] /\ sent'[o] = 1
    BY <1>0, <1>2, <1>3 DEF Progress, TypeOK
  <1>5. Progress("inflight", spool'[o], sent'[o])
    BY <1>0, <1>3, <1>4 DEF Progress, Prior
  <1>6. OrderInv'
    BY <1>0, <1>2, <1>3, <1>4 DEF OrderInv, Published, Progress, TypeOK
  <1> QED BY <1>0, <1>1, <1>4, <1>5, <1>6, LeasedStep DEF TypeOK

LEMMA FetchedStep == ASSUME IInv, NEW w \in Workers, Fetched(w) \/ FetchFails(w) PROVE IInv'
  <1> USE DEF IInv
  <1> DEFINE o == worker[w].order
  <1>0. /\ worker[w].step = "inflight"
        /\ Goto(w, "body") \/ Goto(w, "record")
        /\ UNCHANGED <<clock, control, lease, circuit, spool, sent>>
    BY DEF Fetched, FetchFails, At
  <1>1. /\ "inflight" \in Leased /\ "inflight" \in Owning
        /\ {"body", "record"} \subseteq Owning
        /\ "body" \notin Checked /\ "record" \notin Checked
    BY DEF Leased, Owning, Checked, Artifacts, After
  <1>2. o \in Orders /\ OriginOf[o] \in Origins
    BY <1>0, ActiveType
  <1>3. streak' \in [Origins -> Nat] /\ unreset' \subseteq Origins
    BY <1>2 DEF Fetched, FetchFails, CountFailure, TypeOK
  <1>4. Progress("inflight", spool[o], sent[o])
    BY <1>0, <1>1 DEF OwnerInv
  <1>5. Progress("body", spool'[o], sent'[o]) /\ Progress("record", spool'[o], sent'[o])
    BY <1>0, <1>4 DEF Progress, Prior
  <1>6. OrderInv'
    BY <1>0 DEF OrderInv, Published
  <1> QED BY <1>0, <1>1, <1>3, <1>5, <1>6, LeasedStep DEF TypeOK

LEMMA CircuitStep == ASSUME IInv, NEW w \in Workers, RecordFailure(w) \/ ResetCircuit(w) PROVE IInv'
  <1> USE DEF IInv
  <1> DEFINE o == worker[w].order
             g == OriginOf[o]
  <1>0. /\ worker[w].step \in {"record", "reset"}
        /\ Exit(w)
        /\ UNCHANGED <<clock, control, spool, sent, streak>>
        /\ UNCHANGED unreset \/ unreset' = unreset \ {g}
    BY DEF RecordFailure, ResetCircuit, At
  <1>1. /\ worker[w].step \in Leased
        /\ worker[w] \in [step : Steps \ {"idle"}, order : Orders, now : Nat, permitted : BOOLEAN]
        /\ g \in Origins
    BY <1>0, ActiveType DEF Leased, Owning
  <1>2. circuit[g] \in [failures : Nat, openUntil : Nat]
    BY <1>1 DEF TypeOK
  <1>3. Failed(circuit[g], o, worker[w].now) \in [failures : Nat, openUntil : Nat]
    BY <1>1, <1>2, WorkOrderAssumption DEF Failed
  <1>4. circuit' \in [Origins -> [failures : Nat, openUntil : Nat]]
    BY <1>1, <1>3 DEF RecordFailure, ResetCircuit, TypeOK
  <1>5. OrderInv'
    BY <1>0 DEF OrderInv, Published
  <1> QED BY <1>0, <1>1, <1>4, <1>5, EndStep DEF TypeOK

LEMMA EnvironmentStep == ASSUME IInv, InstallControl \/ Tick PROVE IInv'
  <1> USE DEF IInv
  <1>0. /\ UNCHANGED <<lease, circuit, spool, worker, sent, streak, unreset>>
        /\ control' \in Controls
        /\ clock' \in Nat /\ clock <= clock'
    BY DEF InstallControl, Tick, TypeOK
  <1>1. TypeOK'
    BY <1>0 DEF TypeOK
  <1>2. LeaseInv'
    BY <1>0 DEF LeaseInv
  <1>3. ClockInv'
    <2>1. ASSUME NEW w \in Workers, worker[w].step \in Leased \cup {"admitted"}
          PROVE  worker[w].now <= clock'
      <3>1. worker[w].step # "idle"
        BY <2>1 DEF Leased, Owning, Artifacts, After
      <3>2. worker[w].now \in Nat
        BY <3>1, ActiveType
      <3> QED BY <1>0, <2>1, <3>2 DEF ClockInv, TypeOK
    <2> QED BY <1>0, <2>1 DEF ClockInv
  <1>4. CircuitInv'
    BY <1>0 DEF CircuitInv, Readable, ClosedAt
  <1>5. OwnerInv' /\ OrderInv'
    BY <1>0 DEF OwnerInv, OrderInv, Published
  <1> QED BY <1>1, <1>2, <1>3, <1>4, <1>5

LEMMA StutterStep == ASSUME IInv, UNCHANGED vars PROVE IInv'
  BY DEF IInv, vars, TypeOK, LeaseInv, ClockInv, CircuitInv, OwnerInv, OrderInv, Published,
         Readable, ClosedAt

LEMMA NextPreserves == IInv /\ [Next]_vars => IInv'
  <1> SUFFICES ASSUME IInv, [Next]_vars PROVE IInv'
    OBVIOUS
  <1>1. ASSUME NEW w \in Workers, NEW o \in Orders, Load(w, o) PROVE IInv'
    BY <1>1, LoadStep
  <1>2. ASSUME NEW w \in Workers, Run(w) PROVE IInv'
    BY <1>2, AdmitStep, AcquireLeaseStep, CheckCircuitStep, CreateSpoolStep, WriteArtifactStep,
       WriteFailsStep, SendStep, FetchedStep, CircuitStep DEF Run
  <1>3. ASSUME NEW w \in Workers, Crash(w) PROVE IInv'
    BY <1>3, QuitStep DEF Crash
  <1>4. CASE InstallControl \/ Tick
    BY <1>4, EnvironmentStep
  <1>5. CASE UNCHANGED vars
    BY <1>5, StutterStep
  <1> QED BY <1>1, <1>2, <1>3, <1>4, <1>5 DEF Next

\* The inductive invariant holds in every reachable state.
THEOREM Inductive == Spec => []IInv
  <1>1. Init => IInv
    BY InitEstablishes
  <1>2. IInv /\ [Next]_vars => IInv'
    BY NextPreserves
  <1> QED BY <1>1, <1>2, PTL DEF Spec

\* Every variable keeps its type (worker.go, execute and executeFetch).
THEOREM TypeCorrect == Spec => []TypeOK
  <1>1. IInv => TypeOK
    BY DEF IInv
  <1> QED BY <1>1, Inductive, PTL

\* However many processes run an order, and wherever they crash, at most one
\* request leaves for it (createSpool claims the order before Fetch).
THEOREM OneRetrieval == Spec => []AtMostOneRetrieval
  <1>1. IInv => AtMostOneRetrieval
    BY DEF IInv, OrderInv, AtMostOneRetrieval
  <1> QED BY <1>1, Inductive, PTL

\* A request is in flight only from the one lease holder and with the circuit of
\* its origin closed at that moment (acquireLease, checkCircuit).
THEOREM CircuitGuardsRetrieval == Spec => []RetrievalUnderClosedCircuit
  <1>1. IInv => RetrievalUnderClosedCircuit
    <2> SUFFICES ASSUME IInv, NEW w \in Workers, worker[w].step = "inflight"
                 PROVE  LET g == OriginOf[worker[w].order]
                        IN /\ \A v \in Workers : worker[v].step \in Leased => v = w
                           /\ Readable(g) /\ ClosedAt(g, clock)
      BY DEF RetrievalUnderClosedCircuit, At
    <2>1. "inflight" \in Leased /\ "inflight" \in Checked
      BY DEF Leased, Owning, Checked
    <2>2. \A v \in Workers : worker[v].step \in Leased => v = w
      BY <2>1 DEF IInv, LeaseInv
    <2>3. /\ Readable(OriginOf[worker[w].order])
          /\ circuit[OriginOf[worker[w].order]].openUntil <= worker[w].now
      BY <2>1 DEF IInv, CircuitInv, ClosedAt
    <2>4. worker[w].now <= clock
      BY <2>1 DEF IInv, ClockInv
    <2>5. /\ worker[w].now \in Nat
          /\ OriginOf[worker[w].order] \in Origins
      BY ActiveType DEF IInv
    <2>6. circuit[OriginOf[worker[w].order]].openUntil \in Nat /\ clock \in Nat
      BY <2>5 DEF IInv, TypeOK
    <2> QED BY <2>2, <2>3, <2>4, <2>5, <2>6 DEF ClosedAt
  <1> QED BY <1>1, Inductive, PTL

\* Manifest-last publication: a manifest stands for a complete spool and one
\* retrieval (executeFetch writes it after every artifact it lists).
THEOREM ManifestIsCommit == Spec => []ManifestImpliesEvidence
  <1>1. IInv => ManifestImpliesEvidence
    BY DEF IInv, OrderInv, ManifestImpliesEvidence
  <1> QED BY <1>1, Inductive, PTL

\* Counted failures are failed runs since the last publication, unless that
\* publication is still to be reset; a run about to record is one more.
CountInv == \A g \in Origins : g \notin unreset =>
               /\ circuit[g].failures <= streak[g]
               /\ \A w \in Workers : At(w, "record") /\ OriginOf[worker[w].order] = g =>
                                       circuit[g].failures < streak[g]

\* A step that counts nothing and starts no recording.
LEMMA QuietCount ==
    ASSUME CountInv, UNCHANGED <<circuit, streak, unreset>>,
           \A w \in Workers : worker'[w].step = "record" => worker'[w] = worker[w]
    PROVE  CountInv'
  BY DEF CountInv, At

\* Beside a step of the lease holder no other process is recording.
LEMMA SoleRecorder ==
    ASSUME IInv, NEW w \in Workers, worker[w].step \in Leased,
           (\E t \in Steps \ {"idle"} : Goto(w, t)) \/ Exit(w)
    PROVE  /\ \A v \in Workers : v # w => worker'[v] = worker[v] /\ worker'[v].step # "record"
           /\ \A t \in Steps \ {"idle"} : Goto(w, t) =>
                 worker'[w].step = t /\ worker'[w].order = worker[w].order
           /\ Exit(w) => worker'[w].step = "idle"
           /\ OriginOf[worker[w].order] \in Origins
           /\ circuit \in [Origins -> [failures : Nat, openUntil : Nat]]
           /\ streak \in [Origins -> Nat]
  <1>1. worker[w].step # "idle" /\ "record" \in Leased
    BY DEF Leased, Owning, Artifacts, After
  <1>2. \A v \in Workers : v # w => worker[v].step # "record"
    BY <1>1, SoleOwner DEF IInv
  <1>3. \A v \in Workers : v # w => worker'[v] = worker[v]
    BY <1>1, GotoEffect, ExitEffect DEF IInv
  <1>4. \A t \in Steps \ {"idle"} : Goto(w, t) =>
          worker'[w].step = t /\ worker'[w].order = worker[w].order
    BY <1>1, GotoEffect DEF IInv
  <1>5. Exit(w) => worker'[w].step = "idle"
    BY ExitEffect DEF IInv
  <1>6. OriginOf[worker[w].order] \in Origins
    BY <1>1, ActiveType DEF IInv
  <1> QED BY <1>2, <1>3, <1>4, <1>5, <1>6 DEF IInv, TypeOK

\* A failed run is counted before it is recorded.
LEMMA FailureCounts ==
    ASSUME IInv, CountInv, NEW w \in Workers, worker[w].step \in Leased, Goto(w, "record"),
           CountFailure(OriginOf[worker[w].order]), UNCHANGED circuit
    PROVE  CountInv'
  <1> DEFINE g == OriginOf[worker[w].order]
  <1>1. "record" \in Steps \ {"idle"}
    BY DEF Steps, Leased, Owning
  <1>2. /\ \A v \in Workers : v # w => worker'[v].step # "record"
        /\ worker'[w].order = worker[w].order
        /\ g \in Origins
        /\ circuit \in [Origins -> [failures : Nat, openUntil : Nat]]
        /\ streak \in [Origins -> Nat]
    BY <1>1, SoleRecorder
  <1>3. ASSUME NEW h \in Origins, h \notin unreset
        PROVE  circuit[h].failures <= streak'[h] /\ (h = g => circuit[h].failures < streak'[h])
    <2>1. streak'[h] = IF h = g THEN streak[h] + 1 ELSE streak[h]
      BY <1>2 DEF CountFailure
    <2>2. circuit[h].failures \in Nat /\ streak[h] \in Nat /\ circuit[h].failures <= streak[h]
      BY <1>2, <1>3 DEF CountInv
    <2> QED BY <2>1, <2>2
  <1> QED BY <1>2, <1>3 DEF CountInv, CountFailure, At

\* A publication starts a new count and marks what it leaves to be reset.
LEMMA PublicationCounts ==
    ASSUME IInv, CountInv, NEW w \in Workers, worker[w].step \in Leased,
           Goto(w, "reset") \/ Exit(w),
           EndStreak(OriginOf[worker[w].order]), UNCHANGED circuit
    PROVE  CountInv'
  <1> DEFINE g == OriginOf[worker[w].order]
  <1>1. "reset" \in Steps \ {"idle"}
    BY DEF Steps, Leased, Owning
  <1>2. /\ \A v \in Workers : worker'[v].step # "record"
        /\ g \in Origins
        /\ circuit \in [Origins -> [failures : Nat, openUntil : Nat]]
        /\ streak \in [Origins -> Nat]
    BY <1>1, SoleRecorder
  <1>3. ASSUME NEW h \in Origins, h \notin unreset' PROVE circuit[h].failures <= streak'[h]
    <2>1. streak'[h] = (IF h = g THEN 0 ELSE streak[h]) /\ h \notin unreset
      BY <1>2, <1>3 DEF EndStreak
    <2>2. circuit[h].failures \in Nat /\ (h = g => ~(circuit[h].failures > 0))
      BY <1>2, <1>3 DEF EndStreak
    <2> QED BY <2>1, <2>2 DEF CountInv
  <1> QED BY <1>2, <1>3 DEF CountInv, At

LEMMA WritesCount ==
    ASSUME IInv, CountInv, NEW w \in Workers, WriteArtifact(w) \/ WriteFails(w)
    PROVE  CountInv'
  <1>0. PICK s \in Artifacts : s = worker[w].step
    BY DEF WriteArtifact, WriteFails
  <1>1. /\ s \in Leased /\ After[s] \in Steps \ {"idle", "record"}
        /\ "record" \in Steps \ {"idle"} /\ After["manifest"] = "reset"
    BY DEF Artifacts, After, Leased, Owning, Steps
  <1>2. UNCHANGED circuit
    BY DEF WriteArtifact, WriteFails
  <1>3. CASE UNCHANGED <<streak, unreset>> /\ (Goto(w, After[s]) \/ Exit(w))
    <2>1. \A v \in Workers : worker'[v].step # "record"
      BY <1>0, <1>1, <1>3, SoleRecorder
    <2> QED BY <1>2, <1>3, <2>1, QuietCount
  <1>4. CASE EndStreak(OriginOf[worker[w].order]) /\ (Goto(w, "reset") \/ Exit(w))
    BY <1>0, <1>1, <1>2, <1>4, PublicationCounts
  <1>5. CASE CountFailure(OriginOf[worker[w].order]) /\ Goto(w, "record")
    BY <1>0, <1>1, <1>2, <1>5, FailureCounts
  <1>6. CASE WriteArtifact(w)
    BY <1>0, <1>1, <1>3, <1>4, <1>6 DEF WriteArtifact
  <1>7. CASE WriteFails(w)
    BY <1>0, <1>3, <1>4, <1>5, <1>7 DEF WriteFails
  <1> QED BY <1>6, <1>7

LEMMA CircuitCounts ==
    ASSUME IInv, CountInv, NEW w \in Workers, RecordFailure(w) \/ ResetCircuit(w)
    PROVE  CountInv'
  <1> DEFINE g == OriginOf[worker[w].order]
  <1>0. worker[w].step \in Leased /\ Exit(w) /\ UNCHANGED streak
    BY DEF RecordFailure, ResetCircuit, At, Leased, Owning
  <1>1. /\ \A v \in Workers : worker'[v].step # "record"
        /\ g \in Origins
        /\ circuit \in [Origins -> [failures : Nat, openUntil : Nat]]
        /\ streak \in [Origins -> Nat]
    BY <1>0, SoleRecorder
  <1>2. CASE UNCHANGED <<circuit, unreset>>
    BY <1>0, <1>1, <1>2, QuietCount
  <1>3. CASE /\ At(w, "record") /\ UNCHANGED unreset
             /\ circuit' = [circuit EXCEPT ![g] = Failed(@, worker[w].order, worker[w].now)]
    <2>1. ASSUME NEW h \in Origins, h \notin unreset PROVE circuit'[h].failures <= streak[h]
      <3>1. /\ circuit[h].failures \in Nat /\ streak[h] \in Nat
            /\ circuit[h].failures <= streak[h]
            /\ h = g => circuit[h].failures < streak[h]
        BY <1>1, <1>3, <2>1 DEF CountInv
      <3>2. circuit'[h].failures = IF h = g THEN circuit[h].failures + 1 ELSE circuit[h].failures
        BY <1>1, <1>3 DEF Failed
      <3> QED BY <3>1, <3>2
    <2> QED BY <1>0, <1>1, <1>3, <2>1 DEF CountInv, At
  <1>4. CASE /\ unreset' = unreset \ {g}
             /\ circuit' = [circuit EXCEPT ![g] = [failures |-> 0, openUntil |-> 0]]
    <2>1. ASSUME NEW h \in Origins, h \notin unreset' PROVE circuit'[h].failures <= streak[h]
      <3>1. circuit'[h].failures = IF h = g THEN 0 ELSE circuit[h].failures
        BY <1>1, <1>4
      <3>2. h # g => circuit[h].failures <= streak[h]
        BY <1>4, <2>1 DEF CountInv
      <3> QED BY <1>1, <3>1, <3>2
    <2> QED BY <1>0, <1>1, <2>1 DEF CountInv, At
  <1> QED BY <1>2, <1>3, <1>4 DEF RecordFailure, ResetCircuit

LEMMA StepCounts == IInv /\ CountInv /\ [Next]_vars => CountInv'
  <1> SUFFICES ASSUME IInv, CountInv, [Next]_vars PROVE CountInv'
    OBVIOUS
  <1>1. ASSUME NEW w \in Workers, (\E o \in Orders : Load(w, o)) \/ Admit(w)
        PROVE  CountInv'
    <2>1. /\ UNCHANGED <<circuit, streak, unreset>>
          /\ worker \in [Workers -> WorkerStates]
          /\ \A v \in Workers : v # w => worker'[v] = worker[v]
      BY <1>1 DEF Load, Admit, IInv, TypeOK
    <2>2. worker'[w].step # "record"
      <3>1. CASE \E o \in Orders : Load(w, o)
        BY <2>1, <3>1 DEF Load
      <3>2. CASE Admit(w)
        <4>1. worker[w] \in [step : Steps \ {"idle"}, order : Orders, now : Nat,
                             permitted : BOOLEAN]
          BY <3>2, ActiveType DEF IInv, Admit, At
        <4> QED BY <2>1, <3>2, <4>1 DEF Admit, Idle
      <3> QED BY <1>1, <3>1, <3>2
    <2> QED BY <2>1, <2>2, QuietCount
  <1>2. ASSUME NEW w \in Workers,
               \/ AcquireLease(w) \/ CheckCircuit(w) \/ CreateSpool(w)
               \/ Send(w) \/ Fetched(w) \/ Crash(w)
        PROVE  CountInv'
    <2>1. /\ UNCHANGED <<circuit, streak, unreset>>
          /\ worker[w].step # "idle"
          /\ (\E t \in {"check", "create", "order", "inflight", "body"} : Goto(w, t)) \/ Exit(w)
      BY <1>2 DEF AcquireLease, CheckCircuit, CreateSpool, Send, Fetched, Crash, At
    <2>2. {"check", "create", "order", "inflight", "body"} \subseteq Steps \ {"idle", "record"}
      BY DEF Steps, Leased, Owning, Artifacts, After
    <2>3. /\ worker'[w].step # "record"
          /\ \A v \in Workers : v # w => worker'[v] = worker[v]
      BY <2>1, <2>2, GotoEffect, ExitEffect DEF IInv
    <2> QED BY <2>1, <2>3, QuietCount
  <1>3. ASSUME NEW w \in Workers, FetchFails(w) PROVE CountInv'
    BY <1>3, FailureCounts DEF FetchFails, At, Leased, Owning
  <1>4. CASE UNCHANGED <<circuit, streak, unreset, worker>>
    BY <1>4, QuietCount
  <1> QED BY <1>1, <1>2, <1>3, <1>4, WritesCount, CircuitCounts
          DEF Next, Run, InstallControl, Tick, vars

\* What a circuit has counted failed since the last publication it answers for.
THEOREM Counted == Spec => []CountInv
  <1>1. Init => CountInv
    <2> SUFFICES ASSUME Init, NEW g \in Origins
                 PROVE  /\ circuit[g].failures <= streak[g]
                        /\ \A w \in Workers : ~At(w, "record")
      BY DEF CountInv
    <2>1. circuit[g].failures = streak[g] /\ streak[g] \in Nat
      BY SettingAssumption DEF Init
    <2> QED BY <2>1 DEF Init, At, Idle
  <1> QED BY <1>1, StepCounts, Inductive, PTL DEF Spec

\* A circuit opens for consecutive failures alone, save those an earlier lost
\* reset left behind (recordFailure, resetCircuit and its discarded error).
THEOREM CircuitOpensOnStreak == Spec => OpensOnConsecutiveFailures
  <1> DEFINE Streak == \A g \in Origins : circuit'[g].openUntil > circuit[g].openUntil =>
                         \E w \in Workers :
                            /\ At(w, "record") /\ OriginOf[worker[w].order] = g
                            /\ \/ streak[g] >= MaxConsecutiveFailures[worker[w].order]
                               \/ g \in unreset
  <1>1. ASSUME IInv, CountInv, [Next]_vars PROVE Streak
    <2> SUFFICES ASSUME NEW g \in Origins, circuit'[g].openUntil > circuit[g].openUntil
                 PROVE  \E w \in Workers :
                           /\ At(w, "record") /\ OriginOf[worker[w].order] = g
                           /\ \/ streak[g] >= MaxConsecutiveFailures[worker[w].order]
                              \/ g \in unreset
      OBVIOUS
    <2>1. /\ circuit \in [Origins -> [failures : Nat, openUntil : Nat]]
          /\ circuit[g].failures \in Nat /\ circuit[g].openUntil \in Nat /\ streak[g] \in Nat
      BY <1>1 DEF IInv, TypeOK
    <2>2. circuit' # circuit
      BY <2>1
    <2>3. PICK w \in Workers : RecordFailure(w) \/ ResetCircuit(w)
      BY <1>1, <2>2 DEF Next, Run, Load, Admit, AcquireLease, CheckCircuit, CreateSpool,
         WriteArtifact, WriteFails, Send, Fetched, FetchFails, Crash, InstallControl, Tick, vars
    <2>4. OriginOf[worker[w].order] \in Origins /\ worker[w].order \in Orders
      BY <1>1, <2>3, ActiveType DEF IInv, RecordFailure, ResetCircuit, At
    <2>5. ~ResetCircuit(w)
      BY <2>1, <2>2, <2>4 DEF ResetCircuit
    <2>6. /\ At(w, "record") /\ OriginOf[worker[w].order] = g
          /\ circuit'[g] = Failed(circuit[g], worker[w].order, worker[w].now)
      BY <2>1, <2>2, <2>3, <2>4, <2>5 DEF RecordFailure
    <2>7. circuit[g].failures + 1 >= MaxConsecutiveFailures[worker[w].order]
      BY <2>1, <2>6 DEF Failed
    <2>8. g \notin unreset => circuit[g].failures < streak[g]
      BY <1>1, <2>6 DEF CountInv
    <2>9. MaxConsecutiveFailures[worker[w].order] \in Nat
      BY <2>4, WorkOrderAssumption
    <2> QED BY <2>1, <2>6, <2>7, <2>8, <2>9
  <1>2. IInv /\ CountInv /\ [Next]_vars => [Streak]_vars
    BY <1>1
  <1> QED BY <1>2, Counted, Inductive, PTL DEF Spec, OpensOnConsecutiveFailures

\* An origin becomes unusable by failures in a row alone, save those an earlier
\* lost reset left behind (recordFailure, loadCircuit).
THEOREM UsableUpToCeiling == Spec => []UnusableOnlyPastCeiling
  <1>1. IInv /\ CountInv => UnusableOnlyPastCeiling
    <2> SUFFICES ASSUME IInv, CountInv, NEW g \in Origins, ~Readable(g), g \notin unreset
                 PROVE  streak[g] > FailureCeiling
      BY DEF UnusableOnlyPastCeiling
    <2>1. circuit[g].failures \in Nat /\ streak[g] \in Nat /\ FailureCeiling \in Nat
      BY SettingAssumption DEF IInv, TypeOK
    <2> QED BY <2>1 DEF CountInv, Readable
  <1> QED BY <1>1, Counted, Inductive, PTL

\* Only resetCircuit, run by the lease holder after its manifest, lowers the
\* failures of an origin; a failed retrieval only adds to them.
THEOREM FailuresAreKept == Spec => OnlyPublicationForgetsFailures
  <1> DEFINE Kept == \A g \in Origins : circuit'[g].failures < circuit[g].failures =>
                       \E w \in Workers : /\ lease = w /\ At(w, "reset")
                                           /\ OriginOf[worker[w].order] = g
                                           /\ Published(worker[w].order)
  <1>1. ASSUME IInv, Next PROVE Kept
    <2> SUFFICES ASSUME NEW g \in Origins, circuit'[g].failures < circuit[g].failures
                 PROVE  \E w \in Workers : /\ lease = w /\ At(w, "reset")
                                           /\ OriginOf[worker[w].order] = g
                                           /\ Published(worker[w].order)
      OBVIOUS
    <2>1. /\ circuit \in [Origins -> [failures : Nat, openUntil : Nat]]
          /\ circuit[g].failures \in Nat
      BY <1>1 DEF IInv, TypeOK
    <2>2. circuit' # circuit
      BY <2>1
    <2>3. PICK w \in Workers : RecordFailure(w) \/ ResetCircuit(w)
      BY <1>1, <2>2 DEF Next, Run, Load, Admit, AcquireLease, CheckCircuit, CreateSpool, WriteArtifact,
         WriteFails, Send, Fetched, FetchFails, Crash, InstallControl, Tick
    <2> DEFINE q == worker[w].order
               h == OriginOf[q]
    <2>4. CASE RecordFailure(w)
      <3> DEFINE c == Failed(circuit[h], q, worker[w].now)
      <3>1. circuit' = [circuit EXCEPT ![h] = c]
        BY <2>2, <2>4 DEF RecordFailure
      <3>2. c.failures = circuit[h].failures + 1
        BY DEF Failed
      <3> HIDE DEF c, h
      <3>3. circuit'[g] = IF g = h THEN c ELSE circuit[g]
        BY <2>1, <3>1
      <3> QED BY <2>1, <3>2, <3>3
    <2>5. CASE ResetCircuit(w)
      <3>1. worker[w].step = "reset" /\ worker[w].step \in Owning /\ worker[w].step \in Leased
        BY <2>5 DEF ResetCircuit, At, Owning, Leased
      <3>2. lease = w /\ Published(q)
        BY <1>1, <3>1 DEF IInv, LeaseInv, OwnerInv, Progress, Published
      <3>3. circuit' = [circuit EXCEPT ![h] = [failures |-> 0, openUntil |-> 0]]
        BY <2>2, <2>5 DEF ResetCircuit
      <3> HIDE DEF h
      <3>4. g = h
        BY <2>1, <3>3
      <3> QED BY <3>1, <3>2, <3>4 DEF At, h
    <2> QED BY <2>3, <2>4, <2>5
  <1>2. IInv /\ [Next]_vars =>
          [\A g \in Origins : circuit'[g].failures < circuit[g].failures =>
              \E w \in Workers : /\ lease = w /\ At(w, "reset")
                                 /\ OriginOf[worker[w].order] = g
                                 /\ Published(worker[w].order)]_vars
    BY <1>1
  <1> QED BY <1>2, Inductive, PTL DEF Spec, OnlyPublicationForgetsFailures

(***************************************************************************)
(* The egress worker implements OneShot, and its spools obey the action      *)
(* properties, for every value of the constants.  The mapping reads the      *)
(* phase of an order off its spool, its count of requests and whether some   *)
(* process still owns it; each step either leaves all three readings alone   *)
(* or moves exactly one order.                                              *)
(***************************************************************************)
PhaseOf(artifacts, owned, count) ==
    CASE "manifest" \in artifacts -> "published"
      [] artifacts = {}           -> "sealed"
      [] "manifest" \notin artifacts /\ artifacts # {} /\ ~owned -> "burned"
      [] "manifest" \notin artifacts /\ artifacts # {} /\ owned ->
            IF count = 0 THEN "claimed" ELSE "retrieving"

LEMMA PhaseReads == ASSUME NEW o \in Orders
                    PROVE  /\ Owner(o) # {} => phase[o] = PhaseOf(spool[o], TRUE, sent[o])
                           /\ Owner(o) = {} => phase[o] = PhaseOf(spool[o], FALSE, sent[o])
  BY DEF phase, PhaseOf, Published

LEMMA PhaseReadsNext == ASSUME NEW o \in Orders
                        PROVE  /\ Owner(o)' # {} => phase'[o] = PhaseOf(spool'[o], TRUE, sent'[o])
                               /\ Owner(o)' = {} => phase'[o] = PhaseOf(spool'[o], FALSE, sent'[o])
  BY DEF phase, PhaseOf, Published

LEMMA PhaseExtensional == /\ phase = [o \in Orders |-> phase[o]]
                          /\ phase' = [o \in Orders |-> phase'[o]]
  BY DEF phase

\* Orders whose readings do not change keep their phase.
LEMMA SamePhase == ASSUME NEW o \in Orders, spool'[o] = spool[o], sent'[o] = sent[o],
                          Owner(o)' # {} <=> Owner(o) # {}
                   PROVE  phase'[o] = phase[o]
  BY PhaseReads, PhaseReadsNext

\* Under the lease, the owner of the lease holder's order is that process.
LEMMA OwnerOfLeased == ASSUME IInv, NEW w \in Workers, worker[w].step \in Owning
                       PROVE  /\ worker[w].order \in Orders
                              /\ Owner(worker[w].order) = {w}
                              /\ \A o \in Orders : o # worker[w].order => Owner(o) = {}
  <1>1. worker[w].step \in Leased /\ worker[w].step # "idle"
    BY DEF Leased, Owning, Artifacts, After
  <1>2. worker[w].order \in Orders
    BY <1>1, ActiveType DEF IInv
  <1>3. \A v \in Workers : v # w => worker[v].step \notin Owning
    BY <1>1, SoleOwner DEF IInv, Leased
  <1> QED BY <1>2, <1>3 DEF Owner

AbstractStep == OneShot!OneShotNext \/ UNCHANGED <<phase, sent>>

\* A process that owns nothing before or after its step moves no order.
LEMMA BystanderStep ==
    ASSUME IInv, NEW w \in Workers, worker[w].step \notin Owning, worker'[w].step \notin Owning,
           \A v \in Workers : v # w => worker'[v] = worker[v],
           UNCHANGED <<spool, sent>>
    PROVE  UNCHANGED <<phase, sent>>
  <1>1. \A o \in Orders : Owner(o)' = Owner(o)
    BY DEF Owner
  <1>2. \A o \in Orders : phase'[o] = phase[o]
    BY <1>1, SamePhase
  <1> QED BY <1>2, PhaseExtensional

\* A step of the owner of an order moves at most that order, to what its
\* readings say afterwards.
LEMMA OwnerStep ==
    ASSUME IInv, NEW w \in Workers, worker[w].step \in Owning,
           worker'[w].step \in Owning => worker'[w].order = worker[w].order,
           \A v \in Workers : v # w => worker'[v] = worker[v],
           \A o \in Orders : o # worker[w].order => spool'[o] = spool[o] /\ sent'[o] = sent[o]
    PROVE  /\ worker'[w].step \in Owning =>
                  phase' = [phase EXCEPT ![worker[w].order] =
                               PhaseOf(spool'[worker[w].order], TRUE, sent'[worker[w].order])]
           /\ worker'[w].step \notin Owning =>
                  phase' = [phase EXCEPT ![worker[w].order] =
                               PhaseOf(spool'[worker[w].order], FALSE, sent'[worker[w].order])]
           /\ phase[worker[w].order] =
                  IF worker[w].step = "reset" THEN "published"
                  ELSE IF worker[w].step \in {"order", "send"} THEN "claimed" ELSE "retrieving"
  <1>0. PICK q \in Orders : q = worker[w].order
    BY OwnerOfLeased
  <1>1. /\ Owner(q) = {w}
        /\ \A o \in Orders : o # q => Owner(o) = {}
    BY <1>0, OwnerOfLeased
  <1>2. \A o \in Orders : o # q => Owner(o)' = {}
    <2>1. \A v \in Workers : v # w => worker[v].step \notin Owning
      BY LeaseExcludes DEF IInv, LeaseInv, Leased
    <2>2. \A v \in Workers : v # w => worker'[v].step \notin Owning
      BY <2>1
    <2> QED BY <1>0, <2>2 DEF Owner
  <1>3. Owner(q)' # {} <=> worker'[w].step \in Owning
    <2>1. \A v \in Workers : v # w => v \notin Owner(q)
      BY <1>1
    <2>2. \A v \in Workers : v # w => worker[v].step \notin Owning
      BY LeaseExcludes DEF IInv, LeaseInv, Leased
    <2>3. \A v \in Workers : v # w => worker'[v].step \notin Owning
      BY <2>2
    <2> QED BY <1>0, <2>3 DEF Owner
  <1>4. \A o \in Orders : o # q => phase'[o] = phase[o]
    BY <1>0, <1>1, <1>2, SamePhase
  <1>5. /\ worker'[w].step \in Owning => phase'[q] = PhaseOf(spool'[q], TRUE, sent'[q])
        /\ worker'[w].step \notin Owning => phase'[q] = PhaseOf(spool'[q], FALSE, sent'[q])
    BY <1>1, <1>3, PhaseReadsNext
  <1>6. phase' = [phase EXCEPT ![q] = phase'[q]]
    BY <1>1, <1>4, PhaseExtensional
  <1>7. Progress(worker[w].step, spool[q], sent[q])
    BY <1>0 DEF IInv, OwnerInv
  <1>8. phase[q] = PhaseOf(spool[q], TRUE, sent[q])
    BY <1>1, PhaseReads
  <1>9. PhaseOf(spool[q], TRUE, sent[q]) =
            IF worker[w].step = "reset" THEN "published"
            ELSE IF worker[w].step \in {"order", "send"} THEN "claimed" ELSE "retrieving"
    BY <1>7 DEF Progress, PhaseOf
  <1> QED BY <1>0, <1>5, <1>6, <1>8, <1>9

\* What moving one order means in the abstract specification.
LEMMA AbstractMove ==
    ASSUME NEW q \in Orders, NEW t, phase' = [phase EXCEPT ![q] = t], UNCHANGED sent,
           \/ phase[q] = "claimed" /\ t \in {"claimed", "burned"}
           \/ phase[q] = "retrieving" /\ t \in {"retrieving", "published", "burned"}
           \/ phase[q] = "published" /\ t = "published"
    PROVE  AbstractStep
  <1>1. CASE t = phase[q]
    BY <1>1, PhaseExtensional DEF AbstractStep
  <1>2. CASE phase[q] = "retrieving" /\ t = "published"
    <2>1. OneShot!Publish(q)
      BY <1>2 DEF OneShot!Publish, OneShot!Move
    <2> QED BY <2>1 DEF AbstractStep, OneShot!OneShotNext
  <1>3. CASE t = "burned"
    <2>1. OneShot!Abandon(q)
      BY <1>3 DEF OneShot!Abandon, OneShot!Move
    <2> QED BY <2>1 DEF AbstractStep, OneShot!OneShotNext
  <1> QED BY <1>1, <1>2, <1>3

LEMMA ExitRefines ==
    ASSUME IInv, NEW w \in Workers, Exit(w), UNCHANGED <<spool, sent>>
    PROVE  AbstractStep
  <1>0. /\ worker'[w].step = "idle"
        /\ \A v \in Workers : v # w => worker'[v] = worker[v]
    BY ExitEffect DEF IInv
  <1>1. "idle" \notin Owning
    BY DEF Owning, Artifacts, After
  <1>2. CASE worker[w].step \notin Owning
    BY <1>0, <1>1, <1>2, BystanderStep DEF AbstractStep
  <1>3. CASE worker[w].step \in Owning
    <2> DEFINE q == worker[w].order
               t == PhaseOf(spool'[q], FALSE, sent'[q])
    <2>1. q \in Orders
      BY <1>3, OwnerOfLeased
    <2>2. phase' = [phase EXCEPT ![q] = t]
      <3>1. worker'[w].step \notin Owning
        BY <1>0, <1>1
      <3>2. \A o \in Orders : o # worker[w].order => spool'[o] = spool[o] /\ sent'[o] = sent[o]
        OBVIOUS
      <3> QED BY <1>0, <1>3, <3>1, <3>2, OwnerStep
    <2>3. phase[q] = IF worker[w].step = "reset" THEN "published"
                     ELSE IF worker[w].step \in {"order", "send"} THEN "claimed" ELSE "retrieving"
      BY <1>0, <1>1, <1>3, OwnerStep
    <2>4. Progress(worker[w].step, spool[q], sent[q])
      BY <1>3 DEF IInv, OwnerInv
    <2>5. t = IF worker[w].step = "reset" THEN "published" ELSE "burned"
      BY <2>4 DEF Progress, PhaseOf
    <2> QED BY <2>1, <2>2, <2>3, <2>5, AbstractMove
  <1> QED BY <1>2, <1>3

\* A run that goes on with its order, from a step of its own to another.
LEMMA ContinueRefines ==
    ASSUME IInv, NEW w \in Workers, worker[w].step \in Owning \ {"reset"},
           NEW t \in Owning, Goto(w, t),
           \A o \in Orders : o # worker[w].order => spool'[o] = spool[o],
           UNCHANGED sent,
           Progress(t, spool'[worker[w].order], sent'[worker[w].order])
    PROVE  AbstractStep
  <1> DEFINE q == worker[w].order
             p == PhaseOf(spool'[q], TRUE, sent'[q])
  <1>1. t \in Steps \ {"idle"} /\ worker[w].step # "idle"
    BY DEF Steps, Leased, Owning, Artifacts, After
  <1>2. /\ worker'[w].step = t
        /\ worker'[w].order = q
        /\ \A v \in Workers : v # w => worker'[v] = worker[v]
    BY <1>1, GotoEffect DEF IInv
  <1>3. q \in Orders
    BY OwnerOfLeased
  <1>4. phase' = [phase EXCEPT ![q] = p]
    BY <1>2, OwnerStep
  <1>5. phase[q] = IF worker[w].step = "reset" THEN "published"
                   ELSE IF worker[w].step \in {"order", "send"} THEN "claimed" ELSE "retrieving"
    BY <1>2, OwnerStep
  <1>6. Progress(worker[w].step, spool[q], sent[q])
    BY DEF IInv, OwnerInv
  <1>7. p = IF t = "reset" THEN "published"
            ELSE IF t \in {"order", "send"} THEN "claimed" ELSE "retrieving"
    BY DEF Progress, PhaseOf
  <1>8. t \in {"order", "send"} <=> worker[w].step \in {"order", "send"}
    BY <1>6 DEF Progress
  <1> QED BY <1>3, <1>4, <1>5, <1>7, <1>8, AbstractMove

LEMMA BeforeLeaseRefines ==
    ASSUME IInv, NEW w \in Workers,
           (\E o \in Orders : Load(w, o)) \/ Admit(w) \/ AcquireLease(w) \/ CheckCircuit(w)
    PROVE  AbstractStep
  <1>1. /\ worker[w].step \notin Owning
        /\ UNCHANGED <<spool, sent>>
    BY DEF Load, Admit, AcquireLease, CheckCircuit, At, Owning, Artifacts, After
  <1>2. {"idle", "loaded", "admitted", "check", "create"} \cap Owning = {}
    BY DEF Owning, Artifacts, After
  <1>3. worker \in [Workers -> WorkerStates]
    BY DEF IInv, TypeOK
  <1>4. worker'[w].step \notin Owning /\ \A v \in Workers : v # w => worker'[v] = worker[v]
    <2>1. CASE \E o \in Orders : Load(w, o)
      BY <1>2, <1>3, <2>1 DEF Load
    <2>2. CASE Admit(w)
      <3>1. worker[w].step # "idle"
        BY <2>2 DEF Admit, At
      <3>2. worker[w] \in [step : Steps \ {"idle"}, order : Orders, now : Nat, permitted : BOOLEAN]
        BY <3>1, ActiveType DEF IInv
      <3> QED BY <1>2, <1>3, <2>2, <3>2 DEF Admit, Idle
    <2>3. CASE AcquireLease(w)
      <3>1. CASE Exit(w)
        BY <1>2, <3>1, ExitEffect DEF IInv
      <3>2. CASE Goto(w, "check")
        <4>1. worker[w].step # "idle" /\ "check" \in Steps \ {"idle"}
          BY <2>3 DEF AcquireLease, At, Steps, Leased
        <4> QED BY <1>2, <3>2, <4>1, GotoEffect DEF IInv
      <3> QED BY <2>3, <3>1, <3>2 DEF AcquireLease
    <2>4. CASE CheckCircuit(w)
      <3>1. CASE Exit(w)
        BY <1>2, <3>1, ExitEffect DEF IInv
      <3>2. CASE Goto(w, "create")
        <4>1. worker[w].step # "idle" /\ "create" \in Steps \ {"idle"}
          BY <2>4 DEF CheckCircuit, At, Steps, Leased
        <4> QED BY <1>2, <3>2, <4>1, GotoEffect DEF IInv
      <3> QED BY <2>4, <3>1, <3>2 DEF CheckCircuit
    <2> QED BY <2>1, <2>2, <2>3, <2>4
  <1> QED BY <1>1, <1>4, BystanderStep DEF AbstractStep

\* Creating the spool is the claim.
LEMMA CreateSpoolRefines == ASSUME IInv, NEW w \in Workers, CreateSpool(w) PROVE AbstractStep
  <1>1. CASE Exit(w) /\ UNCHANGED <<spool, sent>>
    BY <1>1, ExitRefines
  <1>2. CASE /\ spool[worker[w].order] = {}
             /\ spool' = [spool EXCEPT ![worker[w].order] = {"dir"}]
             /\ Goto(w, "order") /\ UNCHANGED sent
    <2>0. worker[w].step = "create" /\ "order" \in Steps \ {"idle"} /\ "create" \in Leased
      BY DEF CreateSpool, At, Steps, Leased, Owning, Artifacts, After
    <2>1. PICK q \in Orders : q = worker[w].order
      BY <2>0, ActiveType DEF IInv
    <2>2. /\ worker'[w].step = "order" /\ worker'[w].order = q
          /\ \A v \in Workers : v # w => worker'[v] = worker[v]
      BY <1>2, <2>0, <2>1, GotoEffect DEF IInv
    <2>3. /\ spool[q] = {} /\ spool'[q] = {"dir"}
          /\ \A o \in Orders : o # q => spool'[o] = spool[o]
      BY <1>2, <2>1 DEF IInv, TypeOK
    <2>4. sent'[q] = 0
      BY <1>2, <2>3 DEF IInv, OrderInv
    <2>5. \A v \in Workers : worker[v].step \notin Owning
      <3>1. "create" \notin Owning
        BY DEF Owning, Artifacts, After
      <3> QED BY <2>0, <3>1, SoleOwner DEF IInv, Leased
    <2>6. Owner(q)' # {}
      BY <2>2 DEF Owner, Owning, Artifacts, After
    <2>7. phase[q] = "sealed" /\ phase'[q] = "claimed"
      BY <2>3, <2>4, <2>6, PhaseReads, PhaseReadsNext DEF PhaseOf
    <2>8. \A o \in Orders : o # q => phase'[o] = phase[o]
      <3>1. \A o \in Orders : o # q => Owner(o) = {} /\ Owner(o)' = {}
        BY <2>2, <2>5 DEF Owner
      <3> QED BY <1>2, <2>3, <3>1, SamePhase
    <2>9. OneShot!Claim(q)
      BY <1>2, <2>7, <2>8, PhaseExtensional DEF OneShot!Claim, OneShot!Move
    <2> QED BY <2>9 DEF AbstractStep, OneShot!OneShotNext
  <1> QED BY <1>1, <1>2 DEF CreateSpool

LEMMA SendRefines == ASSUME IInv, NEW w \in Workers, Send(w) PROVE AbstractStep
  <1>0. /\ worker[w].step = "send"
        /\ sent' = [sent EXCEPT ![worker[w].order] = @ + 1]
        /\ Goto(w, "inflight") /\ UNCHANGED spool
    BY DEF Send, At
  <1>1. {"send", "inflight"} \subseteq Owning /\ "inflight" \in Steps \ {"idle"}
    BY DEF Owning, Steps, Leased
  <1>2. PICK q \in Orders : q = worker[w].order
    BY <1>0, <1>1, OwnerOfLeased
  <1>3. /\ worker'[w].step = "inflight" /\ worker'[w].order = q
        /\ \A v \in Workers : v # w => worker'[v] = worker[v]
    BY <1>0, <1>1, <1>2, GotoEffect DEF IInv
  <1>4. Progress("send", spool[q], sent[q])
    BY <1>0, <1>1, <1>2 DEF IInv, OwnerInv
  <1>5. /\ sent[q] = 0 /\ sent' = [sent EXCEPT ![q] = 1] /\ sent'[q] = 1
        /\ \A o \in Orders : o # q => sent'[o] = sent[o]
    BY <1>0, <1>2, <1>4 DEF Progress, IInv, TypeOK
  <1>6. /\ phase' = [phase EXCEPT ![q] = PhaseOf(spool'[q], TRUE, sent'[q])]
        /\ phase[q] = "claimed"
    <2>1. worker[w].step \in Owning /\ worker'[w].step \in Owning /\ worker'[w].order = worker[w].order
      BY <1>0, <1>1, <1>2, <1>3
    <2>2. \A o \in Orders : o # worker[w].order => spool'[o] = spool[o] /\ sent'[o] = sent[o]
      BY <1>0, <1>2, <1>5
    <2>3. phase' = [phase EXCEPT ![q] = PhaseOf(spool'[q], TRUE, sent'[q])]
      BY <1>2, <1>3, <2>1, <2>2, OwnerStep
    <2>4. phase[q] = "claimed"
      BY <1>0, <1>2, <1>3, <2>1, <2>2, OwnerStep
    <2> QED BY <2>3, <2>4
  <1>7. PhaseOf(spool'[q], TRUE, sent'[q]) = "retrieving"
    BY <1>0, <1>4, <1>5 DEF Progress, PhaseOf
  <1>8. OneShot!Retrieve(q)
    BY <1>5, <1>6, <1>7 DEF OneShot!Retrieve, OneShot!Move
  <1> QED BY <1>8 DEF AbstractStep, OneShot!OneShotNext

LEMMA WriteRefines == ASSUME IInv, NEW w \in Workers, WriteArtifact(w) PROVE AbstractStep
  <1>0. PICK s \in Artifacts : s = worker[w].step
    BY DEF WriteArtifact
  <1>1. PICK q \in Orders : q = worker[w].order
    BY <1>0, OwnerOfLeased DEF Artifacts, After, Owning
  <1>2. /\ s \in Owning \ {"reset"}
        /\ spool' = [spool EXCEPT ![q] = @ \cup {s}]
        /\ Goto(w, After[s])
        /\ UNCHANGED sent
    BY <1>0, <1>1 DEF WriteArtifact, Artifacts, After, Owning
  <1>3. /\ spool'[q] = spool[q] \cup {s}
        /\ \A o \in Orders : o # q => spool'[o] = spool[o]
    BY <1>2 DEF IInv, TypeOK
  <1>4. Progress(s, spool[q], sent[q])
    BY <1>0, <1>1, <1>2 DEF IInv, OwnerInv
  <1>5. After[s] \in Owning /\ Progress(After[s], spool'[q], sent'[q])
    <2>1. After[s] \in Owning /\ Progress(After[s], spool[q] \cup {s}, sent[q])
      BY <1>4, WriteProgress
    <2> QED BY <1>2, <1>3, <2>1
  <1> QED BY <1>0, <1>1, <1>2, <1>3, <1>5, ContinueRefines

LEMMA WriteFailsRefines == ASSUME IInv, NEW w \in Workers, WriteFails(w) PROVE AbstractStep
  <1>0. PICK s \in Artifacts : s = worker[w].step
    BY DEF WriteFails
  <1>1. PICK q \in Orders : q = worker[w].order
    BY <1>0, OwnerOfLeased DEF Artifacts, After, Owning
  <1>2. /\ s \in Owning \ {"reset"}
        /\ UNCHANGED spool \/ spool' = [spool EXCEPT ![q] = @ \cup {s}]
        /\ IF s \in Bundle THEN Goto(w, "record") ELSE Exit(w)
        /\ UNCHANGED sent
    BY <1>0, <1>1 DEF WriteFails, Artifacts, After, Owning
  <1>3. /\ spool'[q] = spool[q] \/ spool'[q] = spool[q] \cup {s}
        /\ \A o \in Orders : o # q => spool'[o] = spool[o]
    BY <1>2 DEF IInv, TypeOK
  <1>4. Progress(s, spool[q], sent[q])
    BY <1>0, <1>1, <1>2 DEF IInv, OwnerInv
  <1>5. CASE s \in Bundle
    <2>1. Progress("record", spool'[q], sent'[q])
      BY <1>2, <1>3, <1>4, <1>5 DEF Progress, Prior, Bundle
    <2>2. "record" \in Owning
      BY DEF Owning
    <2> QED BY <1>0, <1>1, <1>2, <1>3, <1>5, <2>1, <2>2, ContinueRefines
  <1>6. CASE s \notin Bundle
    <2>1. worker'[w].step = "idle" /\ \A v \in Workers : v # w => worker'[v] = worker[v]
      BY <1>2, <1>6, ExitEffect DEF IInv
    <2>2. "idle" \notin Owning
      BY DEF Owning, Artifacts, After
    <2>3. /\ phase' = [phase EXCEPT ![q] = PhaseOf(spool'[q], FALSE, sent'[q])]
          /\ phase[q] = IF s \in {"order", "send"} THEN "claimed" ELSE "retrieving"
      BY <1>0, <1>1, <1>2, <1>3, <2>1, <2>2, OwnerStep
    <2>4. s \in {"order", "result", "manifest"}
      BY <1>6 DEF Artifacts, After, Bundle
    <2>5. CASE "manifest" \in spool'[q]
      <3>1. s = "manifest"
        BY <1>3, <1>4, <2>4, <2>5 DEF Progress
      <3>2. PhaseOf(spool'[q], FALSE, sent'[q]) = "published"
        BY <2>5 DEF PhaseOf
      <3> QED BY <1>2, <2>3, <3>1, <3>2, AbstractMove
    <2>6. CASE "manifest" \notin spool'[q]
      <3>1. spool'[q] # {}
        BY <1>3, <1>4 DEF Progress
      <3>2. PhaseOf(spool'[q], FALSE, sent'[q]) = "burned"
        BY <2>6, <3>1 DEF PhaseOf
      <3> QED BY <1>2, <2>3, <3>2, AbstractMove
    <2> QED BY <2>5, <2>6
  <1> QED BY <1>5, <1>6

LEMMA FetchRefines == ASSUME IInv, NEW w \in Workers, Fetched(w) \/ FetchFails(w) PROVE AbstractStep
  <1>0. /\ worker[w].step = "inflight"
        /\ Goto(w, "body") \/ Goto(w, "record")
        /\ UNCHANGED <<spool, sent>>
    BY DEF Fetched, FetchFails, At
  <1>1. {"inflight", "body", "record"} \subseteq Owning \ {"reset"}
    BY DEF Owning, Artifacts, After
  <1>2. Progress("inflight", spool[worker[w].order], sent[worker[w].order])
    BY <1>0, <1>1 DEF IInv, OwnerInv
  <1>3. PICK q \in Orders : q = worker[w].order
    BY <1>0, <1>1, OwnerOfLeased
  <1>4. Progress("body", spool'[q], sent'[q]) /\ Progress("record", spool'[q], sent'[q])
    BY <1>0, <1>2, <1>3 DEF Progress, Prior
  <1> QED BY <1>0, <1>1, <1>3, <1>4, ContinueRefines

LEMMA StepRefines == IInv /\ [Next]_vars => AbstractStep
  <1> SUFFICES ASSUME IInv, [Next]_vars PROVE AbstractStep
    OBVIOUS
  <1>1. ASSUME NEW w \in Workers, NEW o \in Orders, Load(w, o) PROVE AbstractStep
    BY <1>1, BeforeLeaseRefines
  <1>2. ASSUME NEW w \in Workers, Run(w) PROVE AbstractStep
    <2>1. CASE RecordFailure(w) \/ ResetCircuit(w)
      BY <2>1, ExitRefines DEF RecordFailure, ResetCircuit
    <2> QED BY <1>2, <2>1, BeforeLeaseRefines, CreateSpoolRefines, WriteRefines, WriteFailsRefines,
               SendRefines, FetchRefines DEF Run
  <1>3. ASSUME NEW w \in Workers, Crash(w) PROVE AbstractStep
    BY <1>3, ExitRefines DEF Crash
  <1>4. CASE UNCHANGED <<spool, worker, sent>>
    <2>1. \A o \in Orders : phase'[o] = phase[o]
      BY <1>4, SamePhase DEF Owner
    <2> QED BY <1>4, <2>1, PhaseExtensional DEF AbstractStep
  <1> QED BY <1>1, <1>2, <1>3, <1>4 DEF Next, InstallControl, Tick, vars

LEMMA InitRefines == Init => OneShot!OneShotInit
  BY DEF Init, OneShot!OneShotInit, phase, Published

\* Every behaviour of the workers is a life of sealed orders: claimed at most
\* once, sent at most once, then published for good or burned for good.
THEOREM Refinement == Spec => ImplementsOneShot
  <1>1. Init => OneShot!OneShotInit
    BY InitRefines
  <1>2. IInv /\ [Next]_vars => [OneShot!OneShotNext]_<<phase, sent>>
    BY StepRefines DEF AbstractStep
  <1> QED BY <1>1, <1>2, Inductive, PTL DEF Spec, ImplementsOneShot, OneShot!OneShotSpec

LEMMA StepKeepsSpools ==
    ASSUME IInv, [Next]_vars, NEW o \in Orders
    PROVE  spool[o] \subseteq spool'[o] /\ (Published(o) => spool'[o] = spool[o])
  <1>1. CASE UNCHANGED spool
    BY <1>1
  <1>2. ASSUME NEW w \in Workers, CreateSpool(w) PROVE spool[o] = {} \/ spool'[o] = spool[o]
    BY <1>2 DEF CreateSpool, IInv, TypeOK
  <1>3. ASSUME NEW w \in Workers, WriteArtifact(w) \/ WriteFails(w)
        PROVE  spool[o] \subseteq spool'[o] /\ (Published(o) => spool'[o] = spool[o])
    <2>0. worker[w].step \in Owning \ {"reset"}
      BY <1>3 DEF WriteArtifact, WriteFails, Artifacts, After, Owning
    <2>1. ~Published(worker[w].order)
      BY <2>0 DEF IInv, OwnerInv, Progress, Published
    <2> QED BY <1>3, <2>1 DEF WriteArtifact, WriteFails, IInv, TypeOK
  <1>4. ASSUME NEW w \in Workers, Run(w), ~CreateSpool(w), ~WriteArtifact(w), ~WriteFails(w)
        PROVE  UNCHANGED spool
    BY <1>4 DEF Run, Admit, AcquireLease, CheckCircuit, Send, Fetched, FetchFails, RecordFailure,
                ResetCircuit
  <1>5. CASE \E w \in Workers : Run(w)
    BY <1>1, <1>2, <1>3, <1>4, <1>5 DEF Published
  <1>6. CASE ~ \E w \in Workers : Run(w)
    BY <1>1, <1>6 DEF Next, Load, Crash, InstallControl, Tick, vars
  <1> QED BY <1>5, <1>6

\* No process ever alters a published spool or withdraws a claim (createSpool
\* refuses an existing directory; the manifest is the last write below it).
THEOREM SpoolsAreFinal == Spec => SpoolOnlyGrowsToManifest
  <1>1. IInv /\ [Next]_vars =>
          [\A o \in Orders : /\ spool[o] \subseteq spool'[o]
                             /\ Published(o) => spool'[o] = spool[o]]_vars
    BY StepKeepsSpools
  <1> QED BY <1>1, Inductive, PTL DEF Spec, SpoolOnlyGrowsToManifest
=============================================================================
