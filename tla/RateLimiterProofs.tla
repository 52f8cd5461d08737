------------------------- MODULE RateLimiterProofs -------------------------
(***************************************************************************)
(* For every burst, cost, table size and number of keys: the quota of a    *)
(* key in any window of time.                                              *)
(*                                                                         *)
(* What a bucket holds and what its window has spent are covered together  *)
(* by a full bucket, the time the window spans and the time run backwards; *)
(* a bucket that was dropped was full, so its key has spent no more than   *)
(* the time and need not be charged for the new bucket.                    *)
(***************************************************************************)
EXTENDS RateLimiter, TLAPS

LimiterVars == <<clock, buckets, window>>

Span == window.mark - window.since

\* The accounts of the watched key.
Account ==
    /\ window.since <= window.mark
    /\ Known(Watched) => /\ window.mark = buckets[Watched].last
                         /\ buckets[Watched].tokens + window.spent <= Burst + Span + window.back
    /\ ~Known(Watched) => window.spent <= Span + window.back

IInv == TypeOK /\ Account

(***************************************************************************)
(* The operators of one call.                                              *)
(***************************************************************************)
\* A bucket that is there is a bucket.
LEMMA KnownBucket ==
    ASSUME LimiterAssumption, TypeOK, NEW k \in Keys, Known(k)
    PROVE  /\ buckets[k] \in Bucket
           /\ buckets[k].tokens \in 0..Burst
           /\ buckets[k].last \in 0..clock
BY DEF TypeOK, Known, Bucket

\* What a call finds in its bucket lies between nothing and a full bucket, and
\* exceeds what was left by no more than the time that went by.
LEMMA EarnedBound ==
    ASSUME LimiterAssumption, TypeOK, NEW k \in Keys, NEW now \in 0..clock
    PROVE  /\ Earned(k, now) \in 0..Burst
           /\ Known(k) => /\ now <= buckets[k].last => Earned(k, now) = buckets[k].tokens
                          /\ now > buckets[k].last =>
                                Earned(k, now) <= buckets[k].tokens + (now - buckets[k].last)
           /\ ~Known(k) => Earned(k, now) = Burst
<1>0. clock \in Nat /\ Burst \in Nat
  BY DEF LimiterAssumption, TypeOK
<1>1. CASE Known(k)
  <2>1. buckets[k].tokens \in 0..Burst /\ buckets[k].last \in 0..clock
    BY <1>1, KnownBucket
  <2> QED BY <1>0, <1>1, <2>1 DEF Earned
<1>2. CASE ~Known(k)
  BY <1>0, <1>2 DEF Earned
<1> QED BY <1>1, <1>2

\* Looking up a key leaves every bucket alone or drops it as idle.
LEMMA TableKeepsOrDrops ==
    ASSUME LimiterAssumption, TypeOK, NEW k \in Keys, NEW now \in 0..clock
    PROVE  /\ Table(k, now) \in [Keys -> Bucket \cup {NoBucket}]
           /\ \A j \in Keys : \/ Table(k, now)[j] = buckets[j]
                              \/ Table(k, now)[j] = NoBucket /\ Idle(j, now)
BY DEF Table, TypeOK

\* An idle watched bucket was full: what its key spent is covered by the time.
LEMMA IdleIsFull ==
    ASSUME LimiterAssumption, IInv, NEW now \in 0..clock, Idle(Watched, now)
    PROVE  /\ window.mark < now
           /\ window.spent <= (now - window.since) + window.back
<1>1. Known(Watched) /\ buckets[Watched].last + IdleLimit < now
  BY DEF Idle
<1>2. buckets[Watched].tokens \in 0..Burst /\ buckets[Watched].last \in 0..clock
  BY <1>1, KnownBucket DEF LimiterAssumption, IInv
<1>3. /\ window.since \in Nat /\ window.mark \in Nat /\ window.spent \in Nat /\ window.back \in Nat
      /\ clock \in Nat
  BY DEF IInv, TypeOK, Window
<1>4. /\ window.mark = buckets[Watched].last
      /\ buckets[Watched].tokens + window.spent <= Burst + (window.mark - window.since) + window.back
  BY <1>1 DEF IInv, Account, Span
<1> QED BY <1>1, <1>2, <1>3, <1>4 DEF LimiterAssumption

(***************************************************************************)
(* The inductive invariant.                                                *)
(***************************************************************************)
\* A call of another key keeps the accounts of the watched one.
LEMMA OtherKeepsAccount ==
    ASSUME LimiterAssumption, IInv, NEW k \in Keys \ {Watched}, NEW now \in 0..clock, NEW b \in Bucket \cup {NoBucket},
           buckets' = [Table(k, now) EXCEPT ![k] = b] \/ buckets' = Table(k, now),
           ObserveOther(k, now), clock' = clock
    PROVE  Account' /\ window' \in Window
<1>1. Table(k, now) \in [Keys -> Bucket \cup {NoBucket}] /\ Watched \in Keys /\ Watched # k
  BY TableKeepsOrDrops DEF LimiterAssumption, IInv
<1>2. buckets'[Watched] = Table(k, now)[Watched]
  BY <1>1
<1>3. /\ window \in Window /\ clock \in Nat
      /\ window.since \in Nat /\ window.mark \in Nat /\ window.spent \in Nat /\ window.back \in Nat
  BY DEF IInv, TypeOK, Window
<1>4. CASE Table(k, now)[Watched] = buckets[Watched]
  BY <1>2, <1>3, <1>4 DEF IInv, Account, Known, Span, ObserveOther
<1>5. CASE Table(k, now)[Watched] # buckets[Watched]
  <2>1. Table(k, now)[Watched] = NoBucket /\ Idle(Watched, now)
    BY <1>1, <1>5, TableKeepsOrDrops DEF IInv
  <2>2. window.mark < now /\ window.spent <= (now - window.since) + window.back
    BY <2>1, IdleIsFull
  <2>3. window' = [window EXCEPT !.mark = now]
    BY <1>5 DEF ObserveOther
  <2>4. /\ window'.mark = now /\ window'.since = window.since
        /\ window'.spent = window.spent /\ window'.back = window.back
    BY <1>3, <2>3 DEF Window
  <2>5. window' \in Window
    BY <1>3, <2>3 DEF Window
  <2>6. window.since <= window.mark
    BY DEF IInv, Account
  <2> QED BY <1>2, <1>3, <2>1, <2>2, <2>4, <2>5, <2>6 DEF Account, Known, Span
<1> QED BY <1>4, <1>5

\* A call of the watched key that leaves it "left" tokens after spending "spent".
LEMMA WatchedKeepsAccount ==
    ASSUME LimiterAssumption, IInv, NEW now \in 0..clock, NEW left \in Nat, NEW spent \in Nat,
           left + spent = Earned(Watched, now),
           buckets' = [Table(Watched, now) EXCEPT ![Watched] = [tokens |-> left, last |-> now]],
           Observe(now, spent), clock' = clock
    PROVE  Account' /\ window' \in Window
<1>1. Table(Watched, now) \in [Keys -> Bucket \cup {NoBucket}] /\ Watched \in Keys
  BY TableKeepsOrDrops DEF LimiterAssumption, IInv
<1>2. buckets'[Watched] = [tokens |-> left, last |-> now]
  BY <1>1
<1>3. Known(Watched)'
  BY <1>2 DEF LimiterAssumption, Known
<1>4. /\ window \in Window /\ clock \in Nat /\ Burst \in Nat
      /\ window.since \in Nat /\ window.mark \in Nat /\ window.spent \in Nat /\ window.back \in Nat
      /\ window.since <= clock /\ window.mark <= clock
  BY DEF LimiterAssumption, IInv, TypeOK, Window
<1>5. Earned(Watched, now) \in 0..Burst
  BY <1>1, EarnedBound DEF IInv
<1>6. CASE window' = [since |-> now, mark |-> now, spent |-> spent, back |-> 0]
  BY <1>2, <1>3, <1>4, <1>5, <1>6 DEF Account, Span, Window
<1>7. CASE window' = [since |-> IF now < window.since THEN now ELSE window.since, mark |-> now,
                      spent |-> window.spent + spent, back |-> window.back + Backwards(now)]
  <2>1. /\ window'.since = IF now < window.since THEN now ELSE window.since
        /\ window'.mark = now /\ window'.spent = window.spent + spent
        /\ window'.back = window.back + (IF now < window.mark THEN window.mark - now ELSE 0)
    BY <1>7 DEF Backwards
  <2>2. Earned(Watched, now) + window.spent <= Burst + (window'.mark - window'.since) + window'.back
    <3>1. CASE Known(Watched)
      <4>1. /\ window.mark = buckets[Watched].last
            /\ buckets[Watched].tokens + window.spent <= Burst + (window.mark - window.since) + window.back
            /\ buckets[Watched].tokens \in Nat
        BY <1>1, <3>1, KnownBucket DEF LimiterAssumption, IInv, Account, Span
      <4>2. /\ now <= window.mark => Earned(Watched, now) = buckets[Watched].tokens
            /\ now > window.mark =>
                  Earned(Watched, now) <= buckets[Watched].tokens + (now - window.mark)
        BY <1>1, <3>1, <4>1, EarnedBound DEF IInv
      <4> QED BY <1>4, <1>5, <2>1, <4>1, <4>2
    <3>2. CASE ~Known(Watched)
      <4>1. Earned(Watched, now) = Burst /\ window.spent <= (window.mark - window.since) + window.back
        BY <1>1, <3>2, EarnedBound DEF IInv, Account, Span
      <4> QED BY <1>4, <2>1, <4>1
    <3> QED BY <3>1, <3>2
  <2>3. window'.since <= window'.mark
    BY <1>4, <2>1
  <2>4. window' \in Window
    BY <1>4, <1>7 DEF Window, Backwards
  <2> QED BY <1>2, <1>3, <1>4, <1>5, <2>1, <2>2, <2>3, <2>4 DEF Account, Span
<1> QED BY <1>6, <1>7 DEF Observe

\* The invariant holds at first: no bucket, and nothing spent.
LEMMA InitIInv ==
    ASSUME LimiterAssumption, Init
    PROVE  IInv
<1>1. clock = 0 /\ buckets = [k \in Keys |-> NoBucket]
      /\ window = [since |-> 0, mark |-> 0, spent |-> 0, back |-> 0]
  BY DEF Init
<1>2. TypeOK
  BY <1>1 DEF LimiterAssumption, TypeOK, Window
<1>3. ~Known(Watched)
  BY <1>1 DEF LimiterAssumption, Known
<1>4. Account
  BY <1>1, <1>3 DEF Account, Span
<1> QED BY <1>2, <1>4 DEF IInv

\* A call that leaves "left" tokens and grants "spent" keeps the invariant.
LEMMA CallKeepsIInv ==
    ASSUME LimiterAssumption, IInv, NEW k \in Keys, NEW now \in 0..clock, NEW left \in Nat, NEW spent \in Nat,
           left + spent = Earned(k, now),
           buckets' = [Table(k, now) EXCEPT ![k] = [tokens |-> left, last |-> now]],
           IF k = Watched THEN Observe(now, spent) ELSE ObserveOther(k, now),
           clock' = clock
    PROVE  IInv'
<1>1. /\ Table(k, now) \in [Keys -> Bucket \cup {NoBucket}]
      /\ Earned(k, now) \in 0..Burst
  BY TableKeepsOrDrops, EarnedBound DEF IInv
<1>2. [tokens |-> left, last |-> now] \in Bucket
  BY <1>1 DEF LimiterAssumption, Bucket
<1>3. buckets' \in [Keys -> Bucket \cup {NoBucket}] /\ Bucket' = Bucket /\ Window' = Window
  BY <1>1, <1>2 DEF Bucket, Window
<1>4. Account' /\ window' \in Window
  <2>1. CASE k = Watched
    BY <2>1, WatchedKeepsAccount
  <2>2. CASE k # Watched
    BY <1>2, <2>2, OtherKeepsAccount
  <2> QED BY <2>1, <2>2
<1> QED BY <1>3, <1>4 DEF IInv, TypeOK

\* Every step keeps the invariant.
LEMMA NextIInv ==
    ASSUME LimiterAssumption, IInv, [Next]_LimiterVars
    PROVE  IInv'
<1>1. ASSUME NEW k \in Keys, NEW now \in 0..clock, Admit(k, now) PROVE IInv'
  <2>1. Earned(k, now) \in 0..Burst
    BY EarnedBound DEF IInv
  <2>2. /\ Earned(k, now) - Cost \in Nat /\ Cost \in Nat
        /\ (Earned(k, now) - Cost) + Cost = Earned(k, now)
    BY <1>1, <2>1 DEF LimiterAssumption, Admit
  <2> QED BY <1>1, <2>2, CallKeepsIInv DEF Admit
<1>2. ASSUME NEW k \in Keys, NEW now \in 0..clock, Refuse(k, now) PROVE IInv'
  <2>1. CASE Turned(k, now)
    <3>1. buckets' = Table(k, now) /\ ObserveOther(k, now) /\ clock' = clock
      BY <1>2, <2>1 DEF Refuse
    <3>2. Table(k, now) \in [Keys -> Bucket \cup {NoBucket}]
      BY TableKeepsOrDrops DEF IInv
    <3>3. Bucket' = Bucket /\ Window' = Window
      BY <3>1 DEF Bucket, Window
    <3>4. Account' /\ window' \in Window
      <4>1. CASE k # Watched
        BY <3>1, <4>1, OtherKeepsAccount
      <4>2. CASE k = Watched
        <5>1. ~Known(Watched) /\ ~Idle(Watched, now)
          BY <2>1, <4>2 DEF Turned, Idle
        <5>2. Table(k, now)[Watched] = buckets[Watched]
          BY <5>1, TableKeepsOrDrops DEF LimiterAssumption, IInv
        <5> QED BY <3>1, <5>1, <5>2 DEF IInv, TypeOK, Account, Known, Span, ObserveOther
      <4> QED BY <4>1, <4>2
    <3> QED BY <3>1, <3>2, <3>3, <3>4 DEF IInv, TypeOK
  <2>2. CASE ~Turned(k, now)
    <3>1. Earned(k, now) \in Nat /\ Earned(k, now) + 0 = Earned(k, now)
      BY EarnedBound DEF LimiterAssumption, IInv
    <3> QED BY <1>2, <2>2, <3>1, CallKeepsIInv DEF Refuse
  <2> QED BY <2>1, <2>2
<1>3. CASE Tick
  <2>1. clock' \in 0..MaxTime /\ clock < clock' /\ buckets' = buckets /\ window' = window
    BY <1>3 DEF LimiterAssumption, Tick, IInv, TypeOK
  <2>2. Bucket \subseteq Bucket' /\ Window \subseteq Window'
    BY <2>1 DEF LimiterAssumption, IInv, TypeOK, Bucket, Window
  <2>3. TypeOK'
    BY <2>1, <2>2 DEF IInv, TypeOK
  <2> QED BY <2>1, <2>3 DEF IInv, Account, Known, Span
<1>4. CASE UNCHANGED LimiterVars
  BY <1>4 DEF IInv, TypeOK, Account, Known, Span, Bucket, Window, LimiterVars
<1> QED BY <1>1, <1>2, <1>3, <1>4 DEF Next

\* The types and the accounts hold in every reachable state.
THEOREM Inductive ==
    ASSUME LimiterAssumption
    PROVE  Spec => []IInv
<1>1. Init => IInv
  BY InitIInv
<1>2. IInv /\ [Next]_LimiterVars => IInv'
  BY NextIInv
<1> QED BY <1>1, <1>2, PTL DEF Spec, LimiterVars

\* Every variable keeps its type, and no bucket holds more than its burst.
THEOREM TypeCorrect ==
    ASSUME LimiterAssumption
    PROVE  Spec => []TypeOK
<1>1. IInv => TypeOK
  BY DEF IInv
<1> QED BY <1>1, Inductive, PTL

\* In any window a key is granted no more than a full bucket, what is earned in
\* the window, and what its calls that came out of order let it earn again.
THEOREM QuotaHolds == LimiterAssumption /\ Spec => []Quota
<1> SUFFICES ASSUME LimiterAssumption PROVE Spec => []Quota
  OBVIOUS
<1>1. IInv => Quota
  <2> SUFFICES ASSUME IInv PROVE Quota
    OBVIOUS
  <2>1. /\ window.since \in Nat /\ window.mark \in Nat /\ window.spent \in Nat /\ window.back \in Nat
        /\ window.mark <= clock /\ clock \in Nat /\ Burst \in Nat
    BY DEF LimiterAssumption, IInv, TypeOK, Window
  <2>2. CASE Known(Watched)
    <3>1. buckets[Watched].tokens \in Nat
      BY <2>2, KnownBucket DEF LimiterAssumption, IInv
    <3> QED BY <2>1, <2>2, <3>1 DEF IInv, Account, Span, Quota
  <2>3. CASE ~Known(Watched)
    BY <2>1, <2>3 DEF IInv, Account, Span, Quota
  <2> QED BY <2>2, <2>3
<1> QED BY <1>1, Inductive, PTL
=============================================================================
