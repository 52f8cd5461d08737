---------------------------- MODULE RateLimiter ----------------------------
(***************************************************************************)
(* The token buckets of internal/labapi, one limiter (per client or per    *)
(* origin) with its bounded table of buckets.                              *)
(*                                                                         *)
(* Abstractions.  A tick earns one unit, a request costs Cost units: the   *)
(* code's requests per minute and fractions of tokens in whole numbers.    *)
(* The caller passes the time it was started at, which is not later than   *)
(* the clock and may be earlier than that of a call already made.          *)
(*                                                                         *)
(* A window observes one key from some call on: what it has spent, and how *)
(* far its calls ran backwards in time.                                    *)
(***************************************************************************)
EXTENDS Naturals, FiniteSets

CONSTANTS Keys,        \* clients or origins
          Maximum,     \* buckets the table holds
          Cost,        \* ticks in which the allowance for one request is earned
          Burst,       \* ticks after which a bucket is full
          IdleLimit,   \* ticks after which a bucket may be dropped (ten minutes)
          Watched,     \* the key the window observes
          MaxTime,     \* bound of the clock, for model checking
          NoBucket

\* The defaults (60 a minute, burst 20) and every admitted origin (a burst of one
\* minute) fill a bucket before it may be dropped; Config does not demand it.
LimiterAssumption == /\ Cost \in Nat \ {0} /\ Burst \in Nat /\ IdleLimit \in Nat
                     /\ Burst <= IdleLimit
                     /\ Watched \in Keys
                     /\ MaxTime \in Nat
                     /\ NoBucket \notin [tokens : Nat, last : Nat]

VARIABLES clock, buckets, window

Bucket == [tokens : 0..Burst, last : 0..clock]
Window == [since : 0..clock, mark : 0..clock, spent : Nat, back : Nat]

Init == /\ clock = 0
        /\ buckets = [k \in Keys |-> NoBucket]
        /\ window = [since |-> 0, mark |-> 0, spent |-> 0, back |-> 0]

Known(key) == buckets[key] # NoBucket
Full(table) == Cardinality({k \in Keys : table[k] # NoBucket}) >= Maximum
Idle(key, now) == Known(key) /\ buckets[key].last + IdleLimit < now

\* Mutant of Table: buckets are dropped whatever their age.
TableDropsAll(key, now) ==
    IF Known(key) \/ ~Full(buckets) THEN buckets ELSE [k \in Keys |-> NoBucket]

\* Idle buckets are dropped when a new key finds the table full.
Table(key, now) ==
    IF Known(key) \/ ~Full(buckets) THEN buckets
    ELSE [k \in Keys |-> IF Idle(k, now) THEN NoBucket ELSE buckets[k]]

Turned(key, now) == ~Known(key) /\ Full(Table(key, now))

\* What the bucket holds at time now: nothing is earned, and nothing lost, by a
\* call that comes with an earlier time than the last one.
Earned(key, now) ==
    IF ~Known(key) THEN Burst
    ELSE IF now <= buckets[key].last THEN buckets[key].tokens
    ELSE IF buckets[key].tokens + (now - buckets[key].last) > Burst THEN Burst
    ELSE buckets[key].tokens + (now - buckets[key].last)

Backwards(now) == IF now < window.mark THEN window.mark - now ELSE 0

\* The window goes on, or a new one starts with this call.
Observe(now, spent) ==
    \/ window' = [since |-> IF now < window.since THEN now ELSE window.since, mark |-> now,
                  spent |-> window.spent + spent, back |-> window.back + Backwards(now)]
    \/ window' = [since |-> now, mark |-> now, spent |-> spent, back |-> 0]

ObserveOther(key, now) ==
    window' = IF Table(key, now)[Watched] # buckets[Watched]
              THEN [window EXCEPT !.mark = now] ELSE window

\* Mutant of Admit: the call that creates a bucket takes nothing from it.
AdmitNewFree(key, now) ==
    /\ now \in 0..clock
    /\ ~Turned(key, now) /\ Earned(key, now) >= Cost
    /\ buckets' = [Table(key, now) EXCEPT
                     ![key] = [tokens |-> IF Known(key) THEN Earned(key, now) - Cost ELSE Burst,
                               last |-> now]]
    /\ IF key = Watched THEN Observe(now, Cost) ELSE ObserveOther(key, now)
    /\ UNCHANGED clock

\* limiter.allow, under its mutex.  The time of the call is stored in any case.
Admit(key, now) ==
    /\ now \in 0..clock
    /\ ~Turned(key, now) /\ Earned(key, now) >= Cost
    /\ buckets' = [Table(key, now) EXCEPT ![key] = [tokens |-> Earned(key, now) - Cost, last |-> now]]
    /\ IF key = Watched THEN Observe(now, Cost) ELSE ObserveOther(key, now)
    /\ UNCHANGED clock

Refuse(key, now) ==
    /\ now \in 0..clock
    /\ \/ /\ Turned(key, now)
          /\ buckets' = Table(key, now)
          /\ ObserveOther(key, now)
       \/ /\ ~Turned(key, now) /\ Earned(key, now) < Cost
          /\ buckets' = [Table(key, now) EXCEPT ![key] = [tokens |-> Earned(key, now), last |-> now]]
          /\ IF key = Watched THEN Observe(now, 0) ELSE ObserveOther(key, now)
    /\ UNCHANGED clock

Tick == clock < MaxTime /\ clock' = clock + 1 /\ UNCHANGED <<buckets, window>>

Next == \/ \E key \in Keys, now \in 0..clock : Admit(key, now) \/ Refuse(key, now)
        \/ Tick

Spec == Init /\ [][Next]_<<clock, buckets, window>>

(***************************************************************************)
(* Properties.                                                              *)
(***************************************************************************)
\* Every variable has its type; no bucket holds more than its burst.
TypeOK == /\ clock \in 0..MaxTime
          /\ buckets \in [Keys -> Bucket \cup {NoBucket}]
          /\ window \in Window

\* In any window a key is granted no more than a full bucket and what is earned
\* from the earliest start of its calls to now, plus what its calls that came
\* out of order let it earn twice.
Quota == window.spent <= Burst + (clock - window.since) + window.back
=============================================================================
