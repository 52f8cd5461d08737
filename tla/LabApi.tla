------------------------------- MODULE LabApi -------------------------------
(***************************************************************************)
(* internal/labapi: the requests of the Lab server, from ServeHTTP through *)
(* the two rate limiters and the concurrency semaphore to the answer.      *)
(*                                                                         *)
(* Abstractions.  What a request contains is left open: where the code     *)
(* decides on its content, either outcome may come.  The publication that  *)
(* an admitted invocation makes is LabPublication's.                       *)
(***************************************************************************)
EXTENDS Naturals, FiniteSets

CONSTANTS Requests, Clients, Origins,
          ClientOf, OriginOf,             \* who asks, and of which origin
          GlobalConcurrency,              \* capacity of the semaphore
          MaxClients, MaxOrigins,         \* capacities of the limiters' tables
          ClientCost, ClientBurst, OriginCost, OriginBurst, IdleLimit,
          WatchedClient, WatchedOrigin,   \* the keys whose quota is observed
          MaxTime, NoBucket

VARIABLES clock,
          clients, clientWindow,   \* the per-client limiter
          origins, originWindow,   \* the per-origin limiter
          request,                 \* how far each request is, and when it was started
          slots                    \* tokens in the semaphore channel

vars == <<clock, clients, clientWindow, origins, originWindow, request, slots>>
clientVars == <<clients, clientWindow>>
originVars == <<origins, originWindow>>

PerIP == INSTANCE RateLimiter
         WITH Keys <- Clients, Maximum <- MaxClients, Cost <- ClientCost, Burst <- ClientBurst,
              Watched <- WatchedClient, buckets <- clients, window <- clientWindow
PerOrigin == INSTANCE RateLimiter
             WITH Keys <- Origins, Maximum <- MaxOrigins, Cost <- OriginCost, Burst <- OriginBurst,
                  Watched <- WatchedOrigin, buckets <- origins, window <- originWindow

ASSUME ApiAssumption == /\ ClientOf \in [Requests -> Clients]
                        /\ OriginOf \in [Requests -> Origins]
                        /\ GlobalConcurrency \in Nat \ {0}
                        /\ IsFiniteSet(Requests)
                        /\ PerIP!LimiterAssumption /\ PerOrigin!LimiterAssumption

Init == /\ PerIP!Init /\ PerOrigin!Init
        /\ request = [q \in Requests |-> [step |-> "new", started |-> 0, reply |-> "none"]]
        /\ slots = 0

At(q, s) == request[q].step = s
Goto(q, s) == request' = [request EXCEPT ![q].step = s]
Reply(q, answer) == request' = [request EXCEPT ![q].step = "answered", ![q].reply = answer]

\* ServeHTTP reads the clock once; every later decision uses that time.
Start(q) == /\ At(q, "new")
            /\ request' = [request EXCEPT ![q].step = "client", ![q].started = clock]
            /\ UNCHANGED <<clock, clients, clientWindow, origins, originWindow, slots>>

AdmitClient(q) == /\ At(q, "client")
                  /\ PerIP!Admit(ClientOf[q], request[q].started)
                  /\ Goto(q, "body")
                  /\ UNCHANGED <<origins, originWindow, slots>>

RefuseClient(q) == /\ At(q, "client")
                   /\ PerIP!Refuse(ClientOf[q], request[q].started)
                   /\ Reply(q, "rate_limited")
                   /\ UNCHANGED <<origins, originWindow, slots>>

\* Any request that is no well-formed invocation is answered without more ado;
\* the body of one that is may take as long as ReadTimeout lets it.
Dismiss(q) == /\ At(q, "body")
              /\ Reply(q, "dismissed")
              /\ UNCHANGED <<clock, clients, clientWindow, origins, originWindow, slots>>

AdmitOrigin(q) == /\ At(q, "body")
                  /\ PerOrigin!Admit(OriginOf[q], request[q].started)
                  /\ Goto(q, "slot")
                  /\ UNCHANGED <<clients, clientWindow, slots>>

RefuseOrigin(q) == /\ At(q, "body")
                   /\ PerOrigin!Refuse(OriginOf[q], request[q].started)
                   /\ Reply(q, "origin_rate_limited")
                   /\ UNCHANGED <<clients, clientWindow, slots>>

\* The select on the semaphore does not wait.
Enter(q) == /\ At(q, "slot") /\ slots < GlobalConcurrency
            /\ slots' = slots + 1
            /\ Goto(q, "running")
            /\ UNCHANGED <<clock, clients, clientWindow, origins, originWindow>>

TurnAway(q) == /\ At(q, "slot") /\ slots >= GlobalConcurrency
               /\ Reply(q, "concurrency_limited")
               /\ UNCHANGED <<clock, clients, clientWindow, origins, originWindow, slots>>

\* Mutant of Finish: an invocation that panics keeps its slot.
FinishLeaking(q) == /\ At(q, "running")
                    /\ \/ slots' = slots - 1 /\ \E answer \in {"ok", "invocation_failed"} : Reply(q, answer)
                       \/ slots' = slots /\ Reply(q, "internal_error")
                    /\ UNCHANGED <<clock, clients, clientWindow, origins, originWindow>>

\* Mutant of Finish: a panic is not recovered and the request never answered.
FinishUnrecovered(q) == /\ At(q, "running")
                        /\ slots' = slots - 1
                        /\ \/ \E answer \in {"ok", "invocation_failed"} : Reply(q, answer)
                           \/ Goto(q, "panicked")
                        /\ UNCHANGED <<clock, clients, clientWindow, origins, originWindow>>

\* The deferred receive gives the slot back, whether the invocation succeeds,
\* fails or panics.
Finish(q) == /\ At(q, "running")
             /\ slots' = slots - 1
             /\ \E answer \in {"ok", "invocation_failed", "internal_error"} : Reply(q, answer)
             /\ UNCHANGED <<clock, clients, clientWindow, origins, originWindow>>

Tick == PerIP!Tick /\ UNCHANGED <<origins, originWindow, request, slots>>

Handle(q) == \/ AdmitClient(q) \/ RefuseClient(q) \/ Dismiss(q) \/ AdmitOrigin(q)
             \/ RefuseOrigin(q) \/ Enter(q) \/ TurnAway(q) \/ Finish(q)

Next == (\E q \in Requests : Start(q) \/ Handle(q)) \/ Tick

Spec == Init /\ [][Next]_vars

\* The server runs its goroutines, and reading a body ends by ReadTimeout.
FairSpec == Spec /\ \A q \in Requests : WF_vars(Handle(q))

(***************************************************************************)
(* Properties.                                                              *)
(***************************************************************************)
Steps == {"new", "client", "body", "slot", "running", "answered"}
Replies == {"none", "rate_limited", "dismissed", "origin_rate_limited", "concurrency_limited",
            "ok", "invocation_failed", "internal_error"}

\* Every variable has its type.
TypeOK == /\ PerIP!TypeOK /\ PerOrigin!TypeOK
          /\ request \in [Requests -> [step : Steps, started : 0..clock, reply : Replies]]
          /\ slots \in 0..GlobalConcurrency

\* The per-client limit holds in every window of time, however requests are
\* delayed, overtake each other and are dropped from the table.
ClientQuota == PerIP!Quota

\* So does the per-origin limit, which is consulted only when the body is read.
OriginQuota == PerOrigin!Quota

Running == {q \in Requests : At(q, "running")}

\* A request is turned away only when that many invocations are really under way:
\* no outcome of an invocation loses a slot.
TurnedAwayOnlyWhenFull ==
    [][\A q \in Requests :
          request'[q].reply = "concurrency_limited" /\ request[q].reply = "none"
          => Cardinality(Running) = GlobalConcurrency]_vars

\* No interleaving lets more invocations run than the semaphore holds: proved in
\* LabApiProofs, without a run of its own.
BoundedConcurrency == Cardinality(Running) <= GlobalConcurrency

\* Every request that is started is answered.
RequestAnswered == \A q \in Requests : At(q, "client") ~> At(q, "answered")
=============================================================================
