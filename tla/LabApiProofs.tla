---------------------------- MODULE LabApiProofs ----------------------------
(***************************************************************************)
(* The Lab server uses each limiter only as RateLimiter allows, so the     *)
(* quotas proved there hold of its requests, for every number of requests, *)
(* clients and origins.                                                    *)
(***************************************************************************)
EXTENDS LabApi, FiniteSetTheorems, TLAPS

ClientFacts == INSTANCE RateLimiterProofs
               WITH Keys <- Clients, Maximum <- MaxClients, Cost <- ClientCost, Burst <- ClientBurst,
                    Watched <- WatchedClient, buckets <- clients, window <- clientWindow
OriginFacts == INSTANCE RateLimiterProofs
               WITH Keys <- Origins, Maximum <- MaxOrigins, Cost <- OriginCost, Burst <- OriginBurst,
                    Watched <- WatchedOrigin, buckets <- origins, window <- originWindow

\* The per-client limiter of LabApi and the one the theorems of RateLimiterProofs are
\* about are the same: their operators agree one by one.
LEMMA SameClientCalls ==
    ASSUME NEW key, NEW now
    PROVE  /\ PerIP!Admit(key, now) <=> ClientFacts!Admit(key, now)
           /\ PerIP!Refuse(key, now) <=> ClientFacts!Refuse(key, now)
<1>1. \A k : PerIP!Known(k) <=> ClientFacts!Known(k)
  BY DEF PerIP!Known, ClientFacts!Known
<1>2. \A t : PerIP!Full(t) <=> ClientFacts!Full(t)
  BY Zenon DEF PerIP!Full, ClientFacts!Full, PerIP!Cardinality, ClientFacts!Cardinality,
               PerIP!IsFiniteSet, ClientFacts!IsFiniteSet
<1>3. \A k : PerIP!Idle(k, now) <=> ClientFacts!Idle(k, now)
  BY <1>1 DEF PerIP!Idle, ClientFacts!Idle
<1>4. PerIP!Table(key, now) = ClientFacts!Table(key, now)
  BY <1>1, <1>2, <1>3 DEF PerIP!Table, ClientFacts!Table
<1>5. PerIP!Earned(key, now) = ClientFacts!Earned(key, now)
  BY <1>1 DEF PerIP!Earned, ClientFacts!Earned
<1>6. PerIP!Turned(key, now) <=> ClientFacts!Turned(key, now)
  BY <1>1, <1>2, <1>4 DEF PerIP!Turned, ClientFacts!Turned
<1>7. PerIP!ObserveOther(key, now) <=> ClientFacts!ObserveOther(key, now)
  BY <1>4 DEF PerIP!ObserveOther, ClientFacts!ObserveOther
<1>8. PerIP!Backwards(now) = ClientFacts!Backwards(now)
  BY DEF PerIP!Backwards, ClientFacts!Backwards
<1>9. \A n : PerIP!Observe(now, n) <=> ClientFacts!Observe(now, n)
  BY <1>8 DEF PerIP!Observe, ClientFacts!Observe
<1>10. PerIP!Admit(key, now) <=> ClientFacts!Admit(key, now)
  BY <1>4, <1>5, <1>6, <1>7, <1>9 DEF PerIP!Admit, ClientFacts!Admit
<1>11. PerIP!Refuse(key, now) <=> ClientFacts!Refuse(key, now)
  BY <1>4, <1>5, <1>6, <1>7, <1>9 DEF PerIP!Refuse, ClientFacts!Refuse
<1> QED BY <1>10, <1>11

\* The per-origin limiter of LabApi and the one the theorems of RateLimiterProofs are
\* about are the same: their operators agree one by one.
LEMMA SameOriginCalls ==
    ASSUME NEW key, NEW now
    PROVE  /\ PerOrigin!Admit(key, now) <=> OriginFacts!Admit(key, now)
           /\ PerOrigin!Refuse(key, now) <=> OriginFacts!Refuse(key, now)
<1>1. \A k : PerOrigin!Known(k) <=> OriginFacts!Known(k)
  BY DEF PerOrigin!Known, OriginFacts!Known
<1>2. \A t : PerOrigin!Full(t) <=> OriginFacts!Full(t)
  BY Zenon DEF PerOrigin!Full, OriginFacts!Full, PerOrigin!Cardinality, OriginFacts!Cardinality,
               PerOrigin!IsFiniteSet, OriginFacts!IsFiniteSet
<1>3. \A k : PerOrigin!Idle(k, now) <=> OriginFacts!Idle(k, now)
  BY <1>1 DEF PerOrigin!Idle, OriginFacts!Idle
<1>4. PerOrigin!Table(key, now) = OriginFacts!Table(key, now)
  BY <1>1, <1>2, <1>3 DEF PerOrigin!Table, OriginFacts!Table
<1>5. PerOrigin!Earned(key, now) = OriginFacts!Earned(key, now)
  BY <1>1 DEF PerOrigin!Earned, OriginFacts!Earned
<1>6. PerOrigin!Turned(key, now) <=> OriginFacts!Turned(key, now)
  BY <1>1, <1>2, <1>4 DEF PerOrigin!Turned, OriginFacts!Turned
<1>7. PerOrigin!ObserveOther(key, now) <=> OriginFacts!ObserveOther(key, now)
  BY <1>4 DEF PerOrigin!ObserveOther, OriginFacts!ObserveOther
<1>8. PerOrigin!Backwards(now) = OriginFacts!Backwards(now)
  BY DEF PerOrigin!Backwards, OriginFacts!Backwards
<1>9. \A n : PerOrigin!Observe(now, n) <=> OriginFacts!Observe(now, n)
  BY <1>8 DEF PerOrigin!Observe, OriginFacts!Observe
<1>10. PerOrigin!Admit(key, now) <=> OriginFacts!Admit(key, now)
  BY <1>4, <1>5, <1>6, <1>7, <1>9 DEF PerOrigin!Admit, OriginFacts!Admit
<1>11. PerOrigin!Refuse(key, now) <=> OriginFacts!Refuse(key, now)
  BY <1>4, <1>5, <1>6, <1>7, <1>9 DEF PerOrigin!Refuse, OriginFacts!Refuse
<1> QED BY <1>10, <1>11

\* A request is never started later than the clock, so every step of the server
\* is a step of the limiter of clients, or leaves it alone ...
LEMMA StepIsClientStep ==
    ASSUME Next, clock \in Nat, \A q \in Requests : request[q].started \in 0..clock
    PROVE  [ClientFacts!Next]_<<clock, clients, clientWindow>>
<1>1. ASSUME NEW q \in Requests, AdmitClient(q) \/ RefuseClient(q) PROVE ClientFacts!Next
  BY <1>1, ApiAssumption, SameClientCalls DEF AdmitClient, RefuseClient, ClientFacts!Next
<1>2. ASSUME NEW q \in Requests, AdmitOrigin(q) \/ RefuseOrigin(q)
      PROVE  UNCHANGED <<clock, clients, clientWindow>>
  BY <1>2 DEF AdmitOrigin, RefuseOrigin, PerOrigin!Admit, PerOrigin!Refuse
<1>3. CASE Tick
  BY <1>3 DEF Tick, ClientFacts!Next, PerIP!Tick, ClientFacts!Tick
<1>4. ASSUME NEW q \in Requests, Start(q) \/ Dismiss(q) \/ Enter(q) \/ TurnAway(q) \/ Finish(q)
      PROVE  UNCHANGED <<clock, clients, clientWindow>>
  BY <1>4 DEF Start, Dismiss, Enter, TurnAway, Finish
<1> QED BY <1>1, <1>2, <1>3, <1>4 DEF Next, Handle

\* ... and a step of the limiter of origins, or leaves it alone.
LEMMA StepIsOriginStep ==
    ASSUME Next, clock \in Nat, \A q \in Requests : request[q].started \in 0..clock
    PROVE  [OriginFacts!Next]_<<clock, origins, originWindow>>
<1>1. ASSUME NEW q \in Requests, AdmitOrigin(q) \/ RefuseOrigin(q) PROVE OriginFacts!Next
  BY <1>1, ApiAssumption, SameOriginCalls DEF AdmitOrigin, RefuseOrigin, OriginFacts!Next
<1>2. ASSUME NEW q \in Requests, AdmitClient(q) \/ RefuseClient(q)
      PROVE  UNCHANGED <<clock, origins, originWindow>>
  BY <1>2 DEF AdmitClient, RefuseClient, PerIP!Admit, PerIP!Refuse
<1>3. CASE Tick
  BY <1>3 DEF Tick, OriginFacts!Next, PerIP!Tick, OriginFacts!Tick
<1>4. ASSUME NEW q \in Requests, Start(q) \/ Dismiss(q) \/ Enter(q) \/ TurnAway(q) \/ Finish(q)
      PROVE  UNCHANGED <<clock, origins, originWindow>>
  BY <1>4 DEF Start, Dismiss, Enter, TurnAway, Finish
<1> QED BY <1>1, <1>2, <1>3, <1>4 DEF Next, Handle

(***************************************************************************)
(* Requests and slots: the semaphore counts the invocations under way.     *)
(***************************************************************************)
RequestState == [step : Steps, started : 0..clock, reply : Replies]

IInv == /\ clock \in 0..MaxTime
        /\ request \in [Requests -> RequestState]
        /\ slots \in Nat
        /\ slots = Cardinality(Running)
        /\ slots <= GlobalConcurrency

\* A step of one request that neither enters nor leaves the running ones.
LEMMA StaysOut ==
    ASSUME IInv, NEW q \in Requests, ~At(q, "running"), NEW s \in RequestState,
           s.step # "running", request' = [request EXCEPT ![q] = s],
           UNCHANGED <<clock, slots>>
    PROVE  IInv'
<1>1. Running' = Running
  BY DEF Running, At, IInv
<1>2. RequestState' = RequestState
  BY DEF RequestState
<1>3. request' \in [Requests -> RequestState']
  BY <1>2 DEF IInv
<1> QED BY <1>1, <1>3 DEF IInv

\* Answering, or going on to another step than running.
LEMMA MovesOn ==
    ASSUME IInv, NEW q \in Requests, ~At(q, "running"), UNCHANGED <<clock, slots>>,
           \/ \E s \in Steps \ {"running"} : Goto(q, s)
           \/ \E answer \in Replies : Reply(q, answer)
    PROVE  IInv'
<1>0. request \in [Requests -> RequestState]
  BY DEF IInv
<1>1. ASSUME NEW s \in Steps \ {"running"}, Goto(q, s) PROVE IInv'
  <2> DEFINE new == [request[q] EXCEPT !.step = s]
  <2>1. new \in RequestState /\ new.step # "running"
    BY <1>0 DEF RequestState
  <2>2. request' = [request EXCEPT ![q] = new]
    BY <1>0, <1>1 DEF Goto, RequestState
  <2> QED BY <2>1, <2>2, StaysOut
<1>2. ASSUME NEW answer \in Replies, Reply(q, answer) PROVE IInv'
  <2> DEFINE new == [request[q] EXCEPT !.step = "answered", !.reply = answer]
  <2>1. new \in RequestState /\ new.step # "running"
    BY <1>0 DEF RequestState, Steps
  <2>2. request' = [request EXCEPT ![q] = new]
    BY <1>0, <1>2 DEF Reply, RequestState
  <2> QED BY <2>1, <2>2, StaysOut
<1> QED BY <1>1, <1>2

LEMMA InitIInv == Init => IInv
<1> SUFFICES ASSUME Init PROVE IInv
  OBVIOUS
<1>1. Running = {}
  BY DEF Init, Running, At
<1>2. clock = 0 /\ slots = 0 /\ MaxTime \in Nat
  BY ApiAssumption DEF Init, PerIP!Init, PerIP!LimiterAssumption
<1>3. request \in [Requests -> RequestState]
  BY <1>2 DEF Init, RequestState, Steps, Replies
<1> QED BY <1>1, <1>2, <1>3, FS_EmptySet, ApiAssumption DEF IInv

LEMMA EnterKeepsIInv ==
    ASSUME IInv, NEW q \in Requests, Enter(q)
    PROVE  IInv'
<1>0. request \in [Requests -> RequestState] /\ request[q] \in RequestState
  BY DEF IInv
<1>1. request' \in [Requests -> RequestState'] /\ clock' = clock /\ slots' = slots + 1
  BY <1>0 DEF Enter, Goto, RequestState, Steps
<1>2. Running' = Running \cup {q} /\ q \notin Running
  BY <1>0 DEF Enter, Goto, Running, At, RequestState
<1>3. IsFiniteSet(Running)
  BY FS_Subset, ApiAssumption DEF Running
<1>4. Cardinality(Running') = Cardinality(Running) + 1
  BY <1>2, <1>3, FS_AddElement
<1>5. slots' <= GlobalConcurrency /\ slots' \in Nat
  BY <1>1, ApiAssumption DEF Enter, IInv
<1> QED BY <1>1, <1>4, <1>5 DEF IInv

LEMMA FinishKeepsIInv ==
    ASSUME IInv, NEW q \in Requests, Finish(q)
    PROVE  IInv'
<1>0. request \in [Requests -> RequestState] /\ request[q] \in RequestState
  BY DEF IInv
<1>1. request' \in [Requests -> RequestState'] /\ clock' = clock /\ slots' = slots - 1
  <2>1. PICK answer \in Replies : Reply(q, answer)
    BY DEF Finish, Replies
  <2>2. [request[q] EXCEPT !.step = "answered", !.reply = answer] \in RequestState
    BY <1>0 DEF RequestState, Steps
  <2>3. request' = [request EXCEPT ![q] = [request[q] EXCEPT !.step = "answered", !.reply = answer]]
    BY <1>0, <2>1 DEF Reply, RequestState
  <2>4. RequestState' = RequestState /\ clock' = clock /\ slots' = slots - 1
    BY DEF RequestState, Finish
  <2> QED BY <1>0, <2>2, <2>3, <2>4
<1>2. Running' = Running \ {q} /\ q \in Running
  BY <1>0 DEF Finish, Reply, Running, At, RequestState
<1>3. IsFiniteSet(Running)
  BY FS_Subset, ApiAssumption DEF Running
<1>4. Cardinality(Running') = Cardinality(Running) - 1 /\ Cardinality(Running') \in Nat
  BY <1>2, <1>3, FS_RemoveElement, FS_CardinalityType
<1>5. slots' = Cardinality(Running') /\ slots' \in Nat /\ slots' <= GlobalConcurrency
  BY <1>1, <1>4, ApiAssumption DEF IInv
<1> QED BY <1>1, <1>5 DEF IInv

LEMMA NextIInv == IInv /\ [Next]_vars => IInv'
<1> SUFFICES ASSUME IInv, [Next]_vars PROVE IInv'
  OBVIOUS
<1>1. ASSUME NEW q \in Requests, Start(q) PROVE IInv'
  <2> DEFINE new == [request[q] EXCEPT !.step = "client", !.started = clock]
  <2>1. request \in [Requests -> RequestState] /\ clock \in 0..MaxTime /\ MaxTime \in Nat
    BY ApiAssumption DEF IInv, PerIP!LimiterAssumption
  <2>2. new \in RequestState /\ new.step # "running"
    <3>1. request[q] \in RequestState /\ clock \in 0..clock
      BY <2>1
    <3> QED BY <3>1 DEF RequestState, Steps
  <2>3. request' = [request EXCEPT ![q] = new] /\ ~At(q, "running")
    BY <1>1, <2>1 DEF Start, RequestState, At
  <2> QED BY <1>1, <2>2, <2>3, StaysOut DEF Start
<1>2. ASSUME NEW q \in Requests, AdmitClient(q) \/ RefuseClient(q) PROVE IInv'
  BY <1>2, MovesOn DEF AdmitClient, RefuseClient, PerIP!Admit, PerIP!Refuse, At, Steps, Replies
<1>3. ASSUME NEW q \in Requests, AdmitOrigin(q) \/ RefuseOrigin(q) PROVE IInv'
  BY <1>3, MovesOn DEF AdmitOrigin, RefuseOrigin, PerOrigin!Admit, PerOrigin!Refuse, At, Steps, Replies
<1>4. ASSUME NEW q \in Requests, Dismiss(q) \/ TurnAway(q) PROVE IInv'
  BY <1>4, MovesOn DEF Dismiss, TurnAway, At, Steps, Replies
<1>5. CASE Tick
  <2>1. /\ clock' = clock + 1 /\ clock' \in 0..MaxTime /\ clock \in Nat
        /\ request' = request /\ slots' = slots
    BY <1>5, ApiAssumption DEF Tick, PerIP!Tick, PerIP!LimiterAssumption, IInv
  <2>2. RequestState \subseteq RequestState'
    BY <2>1 DEF RequestState
  <2>3. Running' = Running
    BY <2>1 DEF Running, At
  <2> QED BY <2>1, <2>2, <2>3 DEF IInv
<1>6. CASE UNCHANGED vars
  BY <1>6 DEF IInv, vars, Running, At, RequestState
<1> QED BY <1>1, <1>2, <1>3, <1>4, <1>5, <1>6, EnterKeepsIInv, FinishKeepsIInv DEF Next, Handle

\* The invariant holds throughout.
THEOREM Inductive == Spec => []IInv
<1> QED BY InitIInv, NextIInv, PTL DEF Spec

\* No interleaving of requests, whatever their invocations come to, lets more of
\* them run than the semaphore holds.
THEOREM ConcurrencyIsBounded == Spec => []BoundedConcurrency
<1>1. IInv => BoundedConcurrency
  BY DEF IInv, BoundedConcurrency
<1> QED BY <1>1, Inductive, PTL

\* A request turned away for lack of a slot is turned away while that many
\* invocations are under way.
THEOREM TurningAwayIsHonest == Spec => TurnedAwayOnlyWhenFull
<1>1. IInv /\ [Next]_vars => [\A q \in Requests :
          request'[q].reply = "concurrency_limited" /\ request[q].reply = "none"
          => Cardinality(Running) = GlobalConcurrency]_vars
  <2> SUFFICES ASSUME IInv, Next, NEW q \in Requests,
                      request'[q].reply = "concurrency_limited", request[q].reply = "none"
               PROVE  Cardinality(Running) = GlobalConcurrency
    BY DEF vars
  <2>0. request \in [Requests -> RequestState] /\ GlobalConcurrency \in Nat
    BY ApiAssumption DEF IInv
  <2>1. ASSUME NEW r \in Requests, NEW answer, answer # "concurrency_limited", Reply(r, answer) PROVE FALSE
    BY <2>0, <2>1 DEF Reply, RequestState
  <2>2. ASSUME NEW r \in Requests, NEW s, Goto(r, s) PROVE FALSE
    BY <2>0, <2>2 DEF Goto, RequestState
  <2>3. ASSUME NEW r \in Requests, TurnAway(r) PROVE Cardinality(Running) = GlobalConcurrency
    BY <2>0, <2>3 DEF TurnAway, IInv
  <2>4. ASSUME NEW r \in Requests, Start(r) PROVE FALSE
    BY <2>0, <2>4 DEF Start, RequestState
  <2>5. CASE Tick
    BY <2>5 DEF Tick
  <2>6. ASSUME NEW r \in Requests, AdmitClient(r) \/ RefuseClient(r) \/ Dismiss(r) PROVE FALSE
    BY <2>1, <2>2, <2>6 DEF AdmitClient, RefuseClient, Dismiss
  <2>7. ASSUME NEW r \in Requests, AdmitOrigin(r) \/ RefuseOrigin(r) \/ Enter(r) PROVE FALSE
    BY <2>1, <2>2, <2>7 DEF AdmitOrigin, RefuseOrigin, Enter
  <2>8. ASSUME NEW r \in Requests, Finish(r) PROVE FALSE
    BY <2>1, <2>8 DEF Finish
  <2> QED BY <2>3, <2>4, <2>5, <2>6, <2>7, <2>8 DEF Next, Handle
<1> QED BY <1>1, Inductive, PTL DEF Spec, TurnedAwayOnlyWhenFull

(***************************************************************************)
(* The server implements both limiters, and inherits their quotas.         *)
(***************************************************************************)
\* However requests are delayed, overtake each other or are dropped from the
\* table, no client exceeds its quota in any window.
THEOREM ClientQuotaHolds == Spec => []ClientQuota
<1>1. IInv => clock \in Nat /\ \A q \in Requests : request[q].started \in 0..clock
  BY ApiAssumption DEF IInv, RequestState, PerIP!LimiterAssumption
<1>2. IInv /\ [Next]_vars => [ClientFacts!Next]_<<clock, clients, clientWindow>>
  BY <1>1, StepIsClientStep DEF vars
<1>3. Init => ClientFacts!Init
  BY DEF Init, PerIP!Init, ClientFacts!Init
<1>4. Spec => ClientFacts!Spec
  BY <1>2, <1>3, Inductive, PTL DEF Spec, ClientFacts!Spec
<1>5. ClientFacts!LimiterAssumption /\ ClientFacts!Spec => []ClientFacts!Quota
  BY ClientFacts!QuotaHolds
<1>6. ClientFacts!LimiterAssumption
  BY ApiAssumption DEF PerIP!LimiterAssumption, ClientFacts!LimiterAssumption
<1>7. ClientFacts!Quota => ClientQuota
  BY DEF ClientFacts!Quota, ClientQuota, PerIP!Quota
<1> QED BY <1>4, <1>5, <1>6, <1>7, PTL

\* Nor does an origin receive more than its quota in any window, although the
\* limiter is consulted with the time its request began.
THEOREM OriginQuotaHolds == Spec => []OriginQuota
<1>1. IInv => clock \in Nat /\ \A q \in Requests : request[q].started \in 0..clock
  BY ApiAssumption DEF IInv, RequestState, PerIP!LimiterAssumption
<1>2. IInv /\ [Next]_vars => [OriginFacts!Next]_<<clock, origins, originWindow>>
  BY <1>1, StepIsOriginStep DEF vars
<1>3. Init => OriginFacts!Init
  BY DEF Init, PerOrigin!Init, OriginFacts!Init
<1>4. Spec => OriginFacts!Spec
  BY <1>2, <1>3, Inductive, PTL DEF Spec, OriginFacts!Spec
<1>5. OriginFacts!LimiterAssumption /\ OriginFacts!Spec => []OriginFacts!Quota
  BY OriginFacts!QuotaHolds
<1>6. OriginFacts!LimiterAssumption
  BY ApiAssumption DEF PerOrigin!LimiterAssumption, OriginFacts!LimiterAssumption
<1>7. OriginFacts!Quota => OriginQuota
  BY DEF OriginFacts!Quota, OriginQuota, PerOrigin!Quota
<1> QED BY <1>4, <1>5, <1>6, <1>7, PTL
=============================================================================
