--------------------------- MODULE SnapshotProofs ---------------------------
(***************************************************************************)
(* What a build leaves in its directory and what a runtime makes of it,    *)
(* for any number of builds, sources, edits, damage and queries.           *)
(*                                                                         *)
(* The argument.  Mkdir gives a directory one owner, whose remembered      *)
(* artifacts are its files (OwnerInv).  The paths of the evidence of two   *)
(* sources are apart, so nothing is written twice.  While the owner        *)
(* compiles, its files are the catalog and the evidence, none of which is  *)
(* a packet segment; the segments it then cuts hold the packets it has     *)
(* compiled, each once, as digests order them (CompileInv).  A manifest is *)
(* only ever that of a whole build (ManifestInv), and a runtime that finds *)
(* every artifact as its manifest says has read the packets of that build  *)
(* (RuntimeInv), in an order in which each has one place.                  *)
(*                                                                         *)
(* That the runtime opens what a build reports as built needs, beyond the  *)
(* packets, what each step has written (ContentsInv): the evidence of each *)
(* source that passed its checks, then the segments, the concepts, the     *)
(* proofs in the order of the packets, the views, the report.  Nothing is  *)
(* written over, so it is still there when the manifest is verified        *)
(* (BuiltInv), and what load counts once more is what the build counted.   *)
(***************************************************************************)
EXTENDS SnapshotRuntime, Integers, FiniteSetTheorems, FunctionTheorems, SequenceTheorems, TLAPS

(***************************************************************************)
(* Orders.  An element's place is the number of elements up to it; places  *)
(* that differ for different elements are all taken.                       *)
(***************************************************************************)
LEMMA EveryPlaceIsTaken ==
    ASSUME NEW S, IsFiniteSet(S), NEW f \in [S -> 1..Cardinality(S)],
           \A x, y \in S : f[x] = f[y] => x = y
    PROVE  \A n \in 1..Cardinality(S) : \E x \in S : f[x] = n
<1> DEFINE N == Cardinality(S)
<1>1. N \in Nat
  BY FS_CardinalityType
<1>2. f \in Injection(S, 1..N)
  BY Fun_IsInj
<1>3. 0 \in Int /\ 1 \in Int /\ N \in Int /\ ~(1 > N /\ N # 0) /\ N - 1 + 1 = N
  BY <1>1
<1>4. IsFiniteSet(1..N) /\ Cardinality(1..N) = N
  <2>1. IsFiniteSet(1..N) /\ Cardinality(1..N) = IF 1 > N THEN 0 ELSE N - 1 + 1
    BY <1>3, FS_Interval
  <2> QED BY <1>1, <2>1
<1>5. f \in Surjection(S, 1..N)
  BY <1>2, <1>4, FS_Injection
<1> QED BY <1>5, Fun_SurjectionProperties

\* A set and what is in it up to some element.
LEMMA PartCounts ==
    ASSUME NEW S, IsFiniteSet(S), NEW T \in SUBSET S, NEW e \in T
    PROVE  IsFiniteSet(T) /\ Cardinality(T) \in 1..Cardinality(S)
<1>1. IsFiniteSet(T) /\ Cardinality(T) <= Cardinality(S)
  BY FS_Subset
<1>2. Cardinality(T) \in Nat /\ Cardinality(S) \in Nat
  BY <1>1, FS_CardinalityType
<1>3. Cardinality(T) # 0
  BY <1>1, FS_EmptySet
<1> QED BY <1>1, <1>2, <1>3

\* The digests put a set in one order, in which each element has one place.
LEMMA SortedIs ==
    ASSUME NEW S, IsFiniteSet(S), \A p, q \in S : Rank(p) \in Nat /\ (Rank(p) = Rank(q) => p = q)
    PROVE  /\ Cardinality(S) \in Nat /\ DOMAIN Sorted(S) = 1..Cardinality(S)
           /\ Range(Sorted(S)) = S
           /\ \A m, n \in 1..Cardinality(S) : Sorted(S)[m] = Sorted(S)[n] => m = n
           /\ \A m, n \in 1..Cardinality(S) : m < n => Rank(Sorted(S)[m]) < Rank(Sorted(S)[n])
<1> DEFINE Upto(e) == {d \in S : Rank(d) <= Rank(e)}
<1> DEFINE f == [e \in S |-> Cardinality(Upto(e))]
<1>1. \A e \in S : IsFiniteSet(Upto(e)) /\ Cardinality(Upto(e)) \in 1..Cardinality(S)
  <2> SUFFICES ASSUME NEW e \in S
               PROVE  IsFiniteSet(Upto(e)) /\ Cardinality(Upto(e)) \in 1..Cardinality(S)
    OBVIOUS
  <2>1. e \in Upto(e) /\ Upto(e) \in SUBSET S
    OBVIOUS
  <2> HIDE DEF Upto
  <2> QED BY <2>1, PartCounts
<1>2. \A x, y \in S : Rank(x) <= Rank(y) /\ Cardinality(Upto(x)) = Cardinality(Upto(y)) => x = y
  <2> SUFFICES ASSUME NEW x \in S, NEW y \in S, Rank(x) <= Rank(y), Cardinality(Upto(x)) = Cardinality(Upto(y))
               PROVE  x = y
    OBVIOUS
  <2>1. Upto(x) \in SUBSET Upto(y)
    OBVIOUS
  <2>2. Upto(y) = Upto(x)
    <3> HIDE DEF Upto
    <3> QED BY <1>1, <2>1, FS_Subset
  <2>3. y \in Upto(y)
    OBVIOUS
  <2>4. Rank(y) <= Rank(x)
    BY <2>2, <2>3
  <2> QED BY <2>4
<1>3. f \in [S -> 1..Cardinality(S)] /\ \A x \in S : f[x] = Cardinality(Upto(x))
  BY <1>1
<1>4. \A x, y \in S : f[x] = f[y] => x = y
  <2> SUFFICES ASSUME NEW x \in S, NEW y \in S, f[x] = f[y] PROVE x = y
    OBVIOUS
  <2>1. Cardinality(Upto(x)) = Cardinality(Upto(y))
    BY <1>3
  <2>2. Rank(x) <= Rank(y) \/ Rank(y) <= Rank(x)
    OBVIOUS
  <2> HIDE DEF Upto
  <2> QED BY <1>2, <2>1, <2>2
<1>5. \A n \in 1..Cardinality(S) : \E x \in S : Cardinality(Upto(x)) = n
  <2> HIDE DEF f
  <2>1. \A n \in 1..Cardinality(S) : \E x \in S : f[x] = n
    BY <1>3, <1>4, EveryPlaceIsTaken
  <2> HIDE DEF Upto
  <2> QED BY <1>3, <2>1
<1>6. Sorted(S) = [n \in 1..Cardinality(S) |-> CHOOSE e \in S : Cardinality(Upto(e)) = n]
  BY DEF Sorted
<1> HIDE DEF Upto
<1>7. \A n \in 1..Cardinality(S) : Sorted(S)[n] \in S /\ Cardinality(Upto(Sorted(S)[n])) = n
  <2> SUFFICES ASSUME NEW n \in 1..Cardinality(S)
               PROVE  Sorted(S)[n] \in S /\ Cardinality(Upto(Sorted(S)[n])) = n
    OBVIOUS
  <2>1. Sorted(S)[n] = CHOOSE e \in S : Cardinality(Upto(e)) = n
    BY <1>6
  <2> QED BY <1>5, <2>1
<1>8. \A e \in S : \E n \in 1..Cardinality(S) : Sorted(S)[n] = e
  <2> SUFFICES ASSUME NEW e \in S PROVE \E n \in 1..Cardinality(S) : Sorted(S)[n] = e
    OBVIOUS
  <2> DEFINE n == Cardinality(Upto(e))
  <2>1. n \in 1..Cardinality(S)
    BY <1>1
  <2>2. Sorted(S)[n] \in S /\ f[Sorted(S)[n]] = f[e]
    BY <1>3, <1>7, <2>1
  <2>3. Sorted(S)[n] = e
    BY <1>4, <2>2
  <2> QED BY <2>1, <2>3
<1>9. Cardinality(S) \in Nat
  BY FS_CardinalityType
<1>10. DOMAIN Sorted(S) = 1..Cardinality(S)
  BY <1>6
<1>11. Range(Sorted(S)) = S
  BY <1>7, <1>8, <1>10 DEF Range
<1>12. ASSUME NEW m \in 1..Cardinality(S), NEW n \in 1..Cardinality(S), Sorted(S)[m] = Sorted(S)[n] PROVE m = n
  BY <1>7, <1>12
<1>13. \A x, y \in S : Rank(x) <= Rank(y) => Cardinality(Upto(x)) <= Cardinality(Upto(y))
  <2> SUFFICES ASSUME NEW x \in S, NEW y \in S, Rank(x) <= Rank(y) PROVE Cardinality(Upto(x)) <= Cardinality(Upto(y))
    OBVIOUS
  <2>1. Upto(x) \in SUBSET Upto(y)
    BY DEF Upto
  <2> QED BY <1>1, <2>1, FS_Subset
<1>14. ASSUME NEW m \in 1..Cardinality(S), NEW n \in 1..Cardinality(S), m < n PROVE Rank(Sorted(S)[m]) < Rank(Sorted(S)[n])
  <2>1. Sorted(S)[m] \in S /\ Sorted(S)[n] \in S /\ Cardinality(Upto(Sorted(S)[m])) = m /\ Cardinality(Upto(Sorted(S)[n])) = n
    BY <1>7
  <2>2. ~(Rank(Sorted(S)[n]) <= Rank(Sorted(S)[m]))
    BY <1>13, <1>14, <2>1
  <2> QED BY <2>1, <2>2
<1> QED BY <1>9, <1>10, <1>11, <1>12, <1>14

\* Neighbours in the order of time have no capture between them.
LEMMA ByTimeIs ==
    ASSUME NEW captures, captures \in Seq(Range(captures)), \A i \in DOMAIN captures : captures[i].at \in Nat,
           NEW n \in DOMAIN captures, n + 1 \in DOMAIN captures
    PROVE  /\ ByTime(captures)[n] \in DOMAIN captures /\ ByTime(captures)[n + 1] \in DOMAIN captures
           /\ captures[ByTime(captures)[n]].at <= captures[ByTime(captures)[n + 1]].at
           /\ \A i \in DOMAIN captures :
                 ~(captures[ByTime(captures)[n]].at < captures[i].at
                     /\ captures[i].at < captures[ByTime(captures)[n + 1]].at)
<1> DEFINE S == DOMAIN captures
<1> DEFINE At0(i) == captures[i].at
<1> DEFINE NoLater(i, j) == \/ captures[i].at < captures[j].at
                            \/ captures[i].at = captures[j].at /\ i <= j
<1> DEFINE Upto(j) == {i \in S : NoLater(i, j)}
<1> DEFINE f == [j \in S |-> Cardinality(Upto(j))]
<1>1. Len(captures) \in Nat /\ S = 1..Len(captures)
  BY LenProperties
<1>2. IsFiniteSet(S) /\ Cardinality(S) = Len(captures) /\ S \subseteq Int
  <2>1. IsFiniteSet(1..Len(captures)) /\ Cardinality(1..Len(captures)) = IF 1 > Len(captures) THEN 0 ELSE Len(captures) - 1 + 1
    BY <1>1, FS_Interval
  <2> QED BY <1>1, <2>1
<1>3. /\ \A j \in S : NoLater(j, j)
      /\ \A i, j \in S : NoLater(i, j) \/ NoLater(j, i)
      /\ \A i, j \in S : NoLater(i, j) /\ NoLater(j, i) => i = j
      /\ \A i, j, k \in S : NoLater(i, j) /\ NoLater(j, k) => NoLater(i, k)
  BY <1>2
<1> HIDE DEF NoLater
<1>4. \A j \in S : IsFiniteSet(Upto(j)) /\ Cardinality(Upto(j)) \in 1..Cardinality(S)
  <2> SUFFICES ASSUME NEW e \in S
               PROVE  IsFiniteSet(Upto(e)) /\ Cardinality(Upto(e)) \in 1..Cardinality(S)
    OBVIOUS
  <2>1. e \in Upto(e) /\ Upto(e) \in SUBSET S
    BY <1>3
  <2> HIDE DEF Upto, S
  <2> QED BY <1>2, <2>1, PartCounts
\* The later of two captures has the higher place.
<1>5. \A i, j \in S : NoLater(i, j) /\ i # j => Cardinality(Upto(i)) < Cardinality(Upto(j))
  <2> SUFFICES ASSUME NEW i \in S, NEW j \in S, NoLater(i, j), i # j
               PROVE  Cardinality(Upto(i)) < Cardinality(Upto(j))
    OBVIOUS
  <2>1. Upto(i) \in SUBSET Upto(j)
    BY <1>3
  <2>2. j \in Upto(j) /\ j \notin Upto(i)
    BY <1>3
  <2>3. Upto(j) # Upto(i)
    BY <2>2
  <2> HIDE DEF Upto, S
  <2>4. Cardinality(Upto(i)) <= Cardinality(Upto(j)) /\ Cardinality(Upto(i)) # Cardinality(Upto(j))
    BY <1>4, <2>1, <2>3, FS_Subset
  <2>5. Cardinality(Upto(i)) \in Int /\ Cardinality(Upto(j)) \in Int
    BY <1>4
  <2> QED BY <2>4, <2>5
<1>6. f \in [S -> 1..Cardinality(S)] /\ \A x \in S : f[x] = Cardinality(Upto(x))
  BY <1>4
<1>7. \A i, j \in S : f[i] = f[j] => i = j
  <2> SUFFICES ASSUME NEW i \in S, NEW j \in S, f[i] = f[j], i # j PROVE FALSE
    OBVIOUS
  <2>1. Cardinality(Upto(i)) = Cardinality(Upto(j)) /\ Cardinality(Upto(i)) \in Int
    BY <1>4, <1>6
  <2> HIDE DEF Upto, S, f
  <2> QED BY <1>3, <1>5, <2>1
<1> HIDE DEF f
<1>8. \A m \in S : \E x \in S : f[x] = m
  <2>1. \A m \in 1..Cardinality(S) : \E x \in S : f[x] = m
    <3>1. IsFiniteSet(S)
      BY <1>2
    <3> HIDE DEF S, Upto
    <3>2. f \in [S -> 1..Cardinality(S)]
      BY <1>6
    <3> QED BY <3>1, <3>2, <1>7, EveryPlaceIsTaken
  <2> QED BY <1>1, <1>2, <2>1
<1>9. \A m \in S : ByTime(captures)[m] \in S /\ f[ByTime(captures)[m]] = m
  <2> SUFFICES ASSUME NEW m \in S PROVE ByTime(captures)[m] \in S /\ f[ByTime(captures)[m]] = m
    OBVIOUS
  <2>1. ByTime(captures)[m] = CHOOSE j \in S : Cardinality(Upto(j)) = m
    BY DEF ByTime, NoLater
  <2>2. \E j \in S : Cardinality(Upto(j)) = m
    BY <1>6, <1>8
  <2> HIDE DEF Upto, S
  <2> QED BY <1>6, <2>1, <2>2
<1> DEFINE a == ByTime(captures)[n]
<1> DEFINE b == ByTime(captures)[n + 1]
<1>10. a \in S /\ b \in S /\ f[a] = n /\ f[b] = n + 1
  BY <1>9
<1>11. \A i, j \in S : f[i] < f[j] => NoLater(i, j)
  <2> SUFFICES ASSUME NEW i \in S, NEW j \in S, f[i] < f[j], ~NoLater(i, j) PROVE FALSE
    OBVIOUS
  <2>2. NoLater(j, i) /\ i # j
    BY <1>3
  <2> HIDE DEF Upto, S
  <2>1. f[i] \in Int /\ f[j] \in Int /\ f[i] = Cardinality(Upto(i)) /\ f[j] = Cardinality(Upto(j))
    BY <1>4, <1>6
  <2>3. f[j] < f[i]
    BY <1>5, <2>1, <2>2
  <2> QED BY <2>1, <2>3
<1>12. n \in Int
  BY <1>2
<1>13. NoLater(a, b)
  BY <1>10, <1>11, <1>12
<1>14. \A i \in S : NoLater(i, a) \/ NoLater(b, i)
  <2> SUFFICES ASSUME NEW i \in S, ~NoLater(i, a), ~NoLater(b, i) PROVE FALSE
    OBVIOUS
  <2>1. NoLater(a, i) /\ NoLater(i, b) /\ i # a /\ i # b
    BY <1>3, <1>10
  <2>2. f[a] < f[i] /\ f[i] < f[b] /\ f[i] \in Int
    <3> HIDE DEF Upto, S, a, b
    <3> QED BY <1>4, <1>5, <1>6, <1>10, <2>1
  <2> QED BY <1>10, <1>12, <2>2
<1> HIDE DEF a, b
<1>15. captures[a].at <= captures[b].at
  BY <1>10, <1>13 DEF NoLater
<1>16. \A i \in S : ~(captures[a].at < captures[i].at /\ captures[i].at < captures[b].at)
  BY <1>10, <1>14 DEF NoLater
<1> QED BY <1>10, <1>15, <1>16 DEF a, b

(***************************************************************************)
(* What a build compiles.                                                  *)
(***************************************************************************)
Sensible(options) ==
    /\ options \in [scale : Nat, acquisitions : Seq(DOMAIN Acquisition), createdAt : Nat]
    /\ \A m, n \in DOMAIN options.acquisitions : m < n => options.acquisitions[m] < options.acquisitions[n]

\* The place of a scale fixture, if there is one, among the sources.
Scales(options) == IF options.scale = 0 THEN 0 ELSE 1

LEMMA SourcesAre ==
    ASSUME NEW options, Sensible(options)
    PROVE  /\ Len(Replays) \in Nat /\ Len(options.acquisitions) \in Nat /\ Len(Sources(options)) \in Nat
           /\ Len(Sources(options)) = Len(Replays) + Scales(options) + Len(options.acquisitions)
           /\ DOMAIN Sources(options) = 1..Len(Sources(options))
           /\ \A n \in 1..Len(Replays) : Sources(options)[n] = [kind |-> "replay", of |-> Replays[n]]
           /\ Scales(options) = 1 => Sources(options)[Len(Replays) + 1] =
                 [kind |-> "scale", of |-> [fields |-> options.scale, at |-> options.createdAt,
                                      operation |-> "fixture.scaleCorpus"]]
           /\ \A n \in 1..Len(options.acquisitions) :
                 Sources(options)[Len(Replays) + Scales(options) + n] =
                     [kind |-> "archive", of |-> Acquisition[options.acquisitions[n]]]
<1> DEFINE A == [n \in DOMAIN Replays |-> [kind |-> "replay", of |-> Replays[n]]]
<1> DEFINE f == [kind |-> "scale", of |-> [fields |-> options.scale, at |-> options.createdAt,
                                      operation |-> "fixture.scaleCorpus"]]
<1> DEFINE B == IF options.scale = 0 THEN <<>> ELSE <<f>>
<1> DEFINE C == [n \in DOMAIN options.acquisitions |-> [kind |-> "archive", of |-> Acquisition[options.acquisitions[n]]]]
<1> DEFINE U == Range(A) \cup {f} \cup Range(C)
<1>1. Len(Replays) \in Nat /\ DOMAIN Replays = 1..Len(Replays)
  BY SourcesAssumption, LenProperties
<1>2. Len(options.acquisitions) \in Nat /\ DOMAIN options.acquisitions = 1..Len(options.acquisitions)
  BY LenProperties DEF Sensible
<1>3. A \in Seq(U) /\ Len(A) = Len(Replays)
  BY <1>1 DEF Range
<1>4. B \in Seq(U) /\ Len(B) = Scales(options) /\ (Scales(options) = 1 => B[1] = f)
  <2>1. f \in U
    OBVIOUS
  <2> HIDE DEF U, f
  <2>2. CASE options.scale = 0
    BY <2>2 DEF Scales
  <2>3. CASE options.scale # 0
    BY <2>1, <2>3 DEF Scales
  <2> QED BY <2>2, <2>3
<1>5. C \in Seq(U) /\ Len(C) = Len(options.acquisitions)
  BY <1>2 DEF Range
<1>6. /\ \A n \in 1..Len(Replays) : A[n] = [kind |-> "replay", of |-> Replays[n]]
      /\ \A n \in 1..Len(options.acquisitions) : C[n] = [kind |-> "archive", of |-> Acquisition[options.acquisitions[n]]]
  BY <1>1, <1>2
<1>7. Sources(options) = (A \o B) \o C
  BY DEF Sources
<1>8. Scales(options) \in {0, 1}
  BY DEF Scales
<1> HIDE DEF A, B, C, U, f
<1>9. /\ A \o B \in Seq(U) /\ Len(A \o B) = Len(Replays) + Scales(options)
      /\ \A i \in 1..Len(Replays) + Scales(options) : (A \o B)[i] = IF i <= Len(Replays) THEN A[i] ELSE B[i - Len(Replays)]
  <2>1. /\ A \o B \in Seq(U) /\ Len(A \o B) = Len(A) + Len(B)
        /\ \A i \in 1..Len(A) + Len(B) : (A \o B)[i] = IF i <= Len(A) THEN A[i] ELSE B[i - Len(A)]
    <3>1. A \in Seq(U) /\ B \in Seq(U)
      BY <1>3, <1>4
    <3> QED BY <3>1, ConcatProperties
  <2> QED BY <1>3, <1>4, <2>1
<1>10. /\ Sources(options) \in Seq(U)
       /\ Len(Sources(options)) = Len(Replays) + Scales(options) + Len(options.acquisitions)
       /\ \A i \in 1..Len(Replays) + Scales(options) + Len(options.acquisitions) : Sources(options)[i] =
             IF i <= Len(Replays) + Scales(options) THEN (A \o B)[i] ELSE C[i - (Len(Replays) + Scales(options))]
  BY <1>5, <1>7, <1>9, ConcatProperties
<1>11. Len(Sources(options)) \in Nat /\ DOMAIN Sources(options) = 1..Len(Sources(options))
  BY <1>10, LenProperties
<1>12. \A n \in 1..Len(Replays) : Sources(options)[n] = A[n]
  <2> SUFFICES ASSUME NEW n \in 1..Len(Replays) PROVE Sources(options)[n] = A[n]
    OBVIOUS
  <2>1. /\ n \in 1..Len(Replays) + Scales(options) + Len(options.acquisitions)
        /\ n \in 1..Len(Replays) + Scales(options) /\ n <= Len(Replays) + Scales(options) /\ n <= Len(Replays)
    BY <1>1, <1>2, <1>8
  <2> QED BY <1>9, <1>10, <2>1
<1>13. Scales(options) = 1 => Sources(options)[Len(Replays) + 1] = B[1]
  <2> SUFFICES ASSUME Scales(options) = 1 PROVE Sources(options)[Len(Replays) + 1] = B[1]
    OBVIOUS
  <2> DEFINE i == Len(Replays) + 1
  <2>1. /\ i \in 1..Len(Replays) + Scales(options) + Len(options.acquisitions)
        /\ i \in 1..Len(Replays) + Scales(options) /\ i <= Len(Replays) + Scales(options)
        /\ ~(i <= Len(Replays)) /\ i - Len(Replays) = 1
    <3> DEFINE R == Len(Replays)
    <3> DEFINE Q == Len(options.acquisitions)
    <3> HIDE DEF R, Q
    <3>1. R \in Nat /\ Q \in Nat
      BY <1>1, <1>2 DEF R, Q
    <3>2. /\ R + 1 \in 1..R + 1 + Q
          /\ R + 1 \in 1..R + 1 /\ R + 1 <= R + 1
          /\ ~(R + 1 <= R) /\ (R + 1) - R = 1
      BY <3>1
    <3> QED BY <3>2 DEF R, Q
  <2> HIDE DEF i
  <2>2. Sources(options)[i] = B[1]
    BY <1>9, <1>10, <2>1
  <2> QED BY <2>2 DEF i
<1>14. \A n \in 1..Len(options.acquisitions) : Sources(options)[Len(Replays) + Scales(options) + n] = C[n]
  <2> SUFFICES ASSUME NEW n \in 1..Len(options.acquisitions)
               PROVE  Sources(options)[Len(Replays) + Scales(options) + n] = C[n]
    OBVIOUS
  <2> DEFINE i == Len(Replays) + Scales(options) + n
  <2>1. /\ i \in 1..Len(Replays) + Scales(options) + Len(options.acquisitions)
        /\ ~(i <= Len(Replays) + Scales(options)) /\ i - (Len(Replays) + Scales(options)) = n
    BY <1>1, <1>2, <1>8
  <2> HIDE DEF i
  <2>2. Sources(options)[i] = C[n]
    BY <1>10, <2>1
  <2> QED BY <2>2 DEF i
<1> QED BY <1>1, <1>2, <1>4, <1>6, <1>10, <1>11, <1>12, <1>13, <1>14 DEF f

\* A source is one of three kinds.
Replaying(options, n) == n \in 1..Len(Replays) /\ Sources(options)[n] = [kind |-> "replay", of |-> Replays[n]]
Scaling(options, n) ==
    /\ n = Len(Replays) + 1
    /\ Sources(options)[n] = [kind |-> "scale", of |-> [fields |-> options.scale, at |-> options.createdAt,
                                                 operation |-> "fixture.scaleCorpus"]]
Archiving(options, n, m) ==
    /\ m \in DOMAIN options.acquisitions /\ n = Len(Replays) + Scales(options) + m
    /\ Sources(options)[n] = [kind |-> "archive", of |-> Acquisition[options.acquisitions[m]]]
    /\ options.acquisitions[m] \in DOMAIN Acquisition

LEMMA SourceIs ==
    ASSUME NEW options, Sensible(options), NEW n \in 1..Len(Sources(options))
    PROVE  \/ Replaying(options, n)
           \/ Scaling(options, n)
           \/ \E m \in DOMAIN options.acquisitions : Archiving(options, n, m)
<1> DEFINE R == Len(Replays)
<1> DEFINE K == Scales(options)
<1> DEFINE Q == Len(options.acquisitions)
<1>1. R \in Nat /\ Q \in Nat /\ Len(Sources(options)) = R + K + Q
  BY SourcesAre
<1>2. K \in {0, 1}
  BY DEF Scales
<1>3. DOMAIN options.acquisitions = 1..Q /\ \A m \in 1..Q : options.acquisitions[m] \in DOMAIN Acquisition
  BY LenProperties, ElementOfSeq DEF Sensible
<1>4. n \in 1..R \/ (K = 1 /\ n = R + 1) \/ n - (R + K) \in 1..Q
  BY <1>1, <1>2
<1>5. CASE n \in 1..R
  BY <1>5, SourcesAre DEF Replaying
<1>6. CASE K = 1 /\ n = R + 1
  BY <1>6, SourcesAre DEF Scaling
<1>7. CASE n - (R + K) \in 1..Q
  <2> DEFINE m == n - (R + K)
  <2>1. n = R + K + m /\ m \in 1..Q
    BY <1>1, <1>2, <1>7
  <2> HIDE DEF m
  <2>2. Sources(options)[R + K + m] = [kind |-> "archive", of |-> Acquisition[options.acquisitions[m]]]
    BY <2>1, SourcesAre
  <2> QED BY <1>3, <2>1, <2>2 DEF Archiving
<1> QED BY <1>4, <1>5, <1>6, <1>7

LEMMA CapturesAre ==
    ASSUME NEW a \in DOMAIN Acquisition
    PROVE  /\ Acquisition[a].id = a /\ a \in Nat
           /\ Acquisition[a].captures \in Seq(Range(Acquisition[a].captures))
           /\ \A i \in DOMAIN Acquisition[a].captures : Acquisition[a].captures[i].at \in Nat
           /\ Len(Acquisition[a].captures) \in Nat \ {0}
           /\ DOMAIN Acquisition[a].captures = 1..Len(Acquisition[a].captures)
<1>1. /\ Acquisition[a].id = a /\ a \in Nat
      /\ Acquisition[a].captures \in Seq(Range(Acquisition[a].captures))
      /\ \A i \in DOMAIN Acquisition[a].captures : Acquisition[a].captures[i].at \in Nat
      /\ Acquisition[a].captures # <<>>
  BY SourcesAssumption
<1> QED BY <1>1, LenProperties, EmptySeq

LEMMA WithIs ==
    ASSUME NEW f, NEW g
    PROVE  /\ DOMAIN With(f, g) = DOMAIN f \cup DOMAIN g
           /\ \A p \in DOMAIN f : With(f, g)[p] = f[p]
           /\ \A p \in DOMAIN g \ DOMAIN f : With(f, g)[p] = g[p]
BY DEF With

LEMMA EvidencePaths ==
    ASSUME NEW options, Sensible(options), NEW n \in 1..Len(Sources(options)),
           NEW path \in DOMAIN EvidenceOf(Sources(options)[n])
    PROVE  \/ Replaying(options, n) /\ path = <<"bundle", Replays[n].id>>
           \/ Scaling(options, n) /\ path = <<"scale">>
           \/ \E m \in DOMAIN options.acquisitions :
                 /\ Archiving(options, n, m)
                 /\ \/ path = <<"acquisition", options.acquisitions[m]>>
                    \/ \E i \in DOMAIN Acquisition[options.acquisitions[m]].captures :
                          path = <<"capture", options.acquisitions[m], i>>
<1>1. CASE Replaying(options, n)
  BY <1>1 DEF Replaying, EvidenceOf, At
<1>2. CASE Scaling(options, n)
  BY <1>2 DEF Scaling, EvidenceOf, At
<1>3. ASSUME NEW m \in DOMAIN options.acquisitions, Archiving(options, n, m)
      PROVE  \/ path = <<"acquisition", options.acquisitions[m]>>
             \/ \E i \in DOMAIN Acquisition[options.acquisitions[m]].captures :
                   path = <<"capture", options.acquisitions[m], i>>
  <2> DEFINE a == options.acquisitions[m]
  <2> DEFINE source == Sources(options)[n]
  <2>1. source.kind = "archive" /\ source.of = Acquisition[a] /\ Acquisition[a].id = a
    BY <1>3, CapturesAre DEF Archiving
  <2> DEFINE T == [p \in {<<"capture", source.of.id, i>> : i \in DOMAIN source.of.captures} |-> source.of.captures[p[3]]]
  <2>2. EvidenceOf(source) = With(At(<<"acquisition", source.of.id>>, source.of), T)
    BY <2>1 DEF EvidenceOf
  <2> HIDE DEF source, a
  <2>3. path \in DOMAIN At(<<"acquisition", source.of.id>>, source.of) \cup DOMAIN T
    BY <2>2, WithIs DEF source
  <2>4. path \in {<<"acquisition", a>>} \cup {<<"capture", a, i>> : i \in DOMAIN Acquisition[a].captures}
    BY <2>1, <2>3 DEF At
  <2> QED BY <2>4 DEF a
<1> QED BY <1>1, <1>2, <1>3, SourceIs

Evidence == {"bundle", "scale", "acquisition", "capture"}

LEMMA EvidenceRoles ==
    ASSUME NEW options, Sensible(options), NEW n \in 1..Len(Sources(options)),
           NEW path \in DOMAIN EvidenceOf(Sources(options)[n])
    PROVE  path[1] \in Evidence
BY EvidencePaths DEF Evidence

\* No two sources have evidence at one path.
LEMMA EvidenceApart ==
    ASSUME NEW options, Sensible(options),
           NEW m \in 1..Len(Sources(options)), NEW n \in 1..Len(Sources(options)), m # n
    PROVE  DOMAIN EvidenceOf(Sources(options)[m]) \cap DOMAIN EvidenceOf(Sources(options)[n]) = {}
<1> SUFFICES ASSUME NEW path \in DOMAIN EvidenceOf(Sources(options)[m]),
                    path \in DOMAIN EvidenceOf(Sources(options)[n])
             PROVE  FALSE
  OBVIOUS
<1> DEFINE Replayed0(x) == Replaying(options, x) /\ path = <<"bundle", Replays[x].id>>
<1> DEFINE Scaled0(x) == Scaling(options, x) /\ path = <<"scale">>
<1> DEFINE Archived0(x) ==
      \E k \in DOMAIN options.acquisitions :
         /\ Archiving(options, x, k)
         /\ \/ path = <<"acquisition", options.acquisitions[k]>>
            \/ \E i \in DOMAIN Acquisition[options.acquisitions[k]].captures :
                  path = <<"capture", options.acquisitions[k], i>>
<1>1. \A x \in {m, n} : Replayed0(x) \/ Scaled0(x) \/ Archived0(x)
  BY EvidencePaths
<1>2. \A x \in {m, n} :
         /\ Replayed0(x) => path[1] = "bundle"
         /\ Scaled0(x) => path[1] = "scale"
         /\ Archived0(x) => path[1] \in {"acquisition", "capture"}
  OBVIOUS
<1>3. ~(Replayed0(m) /\ Replayed0(n))
  <2> SUFFICES ASSUME Replayed0(m), Replayed0(n) PROVE FALSE
    OBVIOUS
  <2>1. Replays[m].id = Replays[n].id
    OBVIOUS
  <2>2. m \in DOMAIN Replays /\ n \in DOMAIN Replays
    BY SourcesAssumption, LenProperties DEF Replaying
  <2> QED BY <2>1, <2>2, SourcesAssumption
<1>4. ~(Scaled0(m) /\ Scaled0(n))
  BY DEF Scaling
<1>5. ~(Archived0(m) /\ Archived0(n))
  <2> SUFFICES ASSUME Archived0(m), Archived0(n) PROVE FALSE
    OBVIOUS
  <2>1. PICK j \in DOMAIN options.acquisitions : Archiving(options, m, j) /\ path[2] = options.acquisitions[j]
    OBVIOUS
  <2>2. PICK k \in DOMAIN options.acquisitions : Archiving(options, n, k) /\ path[2] = options.acquisitions[k]
    OBVIOUS
  <2>3. j # k
    BY <2>1, <2>2 DEF Archiving
  <2>4. j \in Nat /\ k \in Nat
    <3>1. Len(options.acquisitions) \in Nat /\ DOMAIN options.acquisitions = 1..Len(options.acquisitions)
      BY LenProperties DEF Sensible
    <3> QED BY <3>1
  <2>5. options.acquisitions[j] # options.acquisitions[k]
    <3>1. options.acquisitions[j] \in Nat /\ options.acquisitions[k] \in Nat
      BY <2>1, <2>2, CapturesAre DEF Archiving
    <3>2. j < k \/ k < j
      BY <2>3, <2>4
    <3> QED BY <3>1, <3>2 DEF Sensible
  <2> QED BY <2>1, <2>2, <2>5
<1> HIDE DEF Replayed0, Scaled0, Archived0
<1> QED BY <1>1, <1>2, <1>3, <1>4, <1>5

LEMMA PacketsAreFinite ==
    ASSUME NEW options, Sensible(options), NEW n \in 1..Len(Sources(options))
    PROVE  IsFiniteSet(PacketsOf(Sources(options)[n]))
<1> DEFINE source == Sources(options)[n]
<1>1. CASE Replaying(options, n)
  <2> DEFINE F == Replays[n].fields
  <2> DEFINE g == [f \in F |-> E2Packet(Replays[n], f)]
  <2>1. n \in DOMAIN Replays
    BY <1>1, SourcesAssumption, LenProperties DEF Replaying
  <2>2. IsFiniteSet(F)
    BY <2>1, SourcesAssumption
  <2>3. PacketsOf(source) = {E2Packet(Replays[n], f) : f \in F}
    BY <1>1 DEF PacketsOf, Replaying
  <2>4. g \in [F -> PacketsOf(source)] /\ \A p \in PacketsOf(source) : \E f \in F : g[f] = p
    BY <2>3
  <2>5. g \in Surjection(F, PacketsOf(source))
    <3> HIDE DEF F, g, source
    <3> QED BY <2>4, Fun_IsSurj
  <2> HIDE DEF F, g, source
  <2> QED BY <2>2, <2>5, FS_Surjection DEF source
<1>2. CASE Scaling(options, n)
  <2> DEFINE F == 1..options.scale
  <2> DEFINE g == [i \in F |-> ScalePacket(i, options.createdAt)]
  <2>2. IsFiniteSet(F)
    BY FS_Interval DEF Sensible
  <2>3. PacketsOf(source) = {ScalePacket(i, options.createdAt) : i \in F}
    BY <1>2 DEF PacketsOf, Scaling
  <2>4. g \in [F -> PacketsOf(source)] /\ \A p \in PacketsOf(source) : \E f \in F : g[f] = p
    BY <2>3
  <2>5. g \in Surjection(F, PacketsOf(source))
    <3> HIDE DEF F, g, source
    <3> QED BY <2>4, Fun_IsSurj
  <2> HIDE DEF F, g, source
  <2> QED BY <2>2, <2>5, FS_Surjection DEF source
<1>3. ASSUME NEW m \in DOMAIN options.acquisitions, Archiving(options, n, m)
      PROVE  IsFiniteSet(PacketsOf(Sources(options)[n]))
  <2> DEFINE a == Acquisition[options.acquisitions[m]]
  <2> DEFINE F == DOMAIN a.captures
  <2> DEFINE g == [i \in F |-> ArchivePacket(a, i)]
  <2>1. Len(a.captures) \in Nat /\ F = 1..Len(a.captures)
    BY <1>3, CapturesAre DEF Archiving
  <2>2. IsFiniteSet(F)
    BY <2>1, FS_Interval
  <2>3. PacketsOf(source) = {ArchivePacket(a, i) : i \in F}
    BY <1>3 DEF PacketsOf, Archiving
  <2>4. g \in [F -> PacketsOf(source)] /\ \A p \in PacketsOf(source) : \E f \in F : g[f] = p
    BY <2>3
  <2>5. g \in Surjection(F, PacketsOf(source))
    <3> HIDE DEF F, g, source
    <3> QED BY <2>4, Fun_IsSurj
  <2> HIDE DEF F, g, source
  <2> QED BY <2>2, <2>5, FS_Surjection DEF source
<1> QED BY <1>1, <1>2, <1>3, SourceIs

(***************************************************************************)
(* Segments.                                                               *)
(***************************************************************************)
LEMMA Division ==
    ASSUME NEW n \in Nat, NEW s \in Nat \ {0}
    PROVE  n \div s \in Nat /\ s * (n \div s) <= n /\ n < s * (n \div s) + s /\ s * (n \div s) \in Nat
OBVIOUS

LEMMA Times ==
    ASSUME NEW s \in Nat, NEW q \in Nat, NEW r \in Nat, q <= r
    PROVE  s * q <= s * r
<1>1. s * (r - q) >= 0
  OBVIOUS
<1>2. s * r = s * q + s * (r - q)
  OBVIOUS
<1> QED BY <1>1, <1>2

\* An entry is in the segment that its number divided by the size says.
LEMMA SegmentOf ==
    ASSUME NEW len \in Nat, NEW n \in 1..len, NEW s \in Nat \ {0}
    PROVE  \E k \in 1..((len + s - 1) \div s) : (k - 1) * s < n /\ n <= (k - 1) * s + s
<1> DEFINE q == (n - 1) \div s
<1> DEFINE r == (len + s - 1) \div s
<1>1. n - 1 \in Nat /\ len + s - 1 \in Nat /\ s \in Nat /\ n \in Nat
  OBVIOUS
<1>2. q \in Nat /\ s * q <= n - 1 /\ n - 1 < s * q + s /\ s * q \in Nat
  BY <1>1, Division
<1>3. r \in Nat /\ len + s - 1 < s * r + s /\ s * r \in Nat
  BY <1>1, Division
<1> HIDE DEF q, r
<1>4. q < r
  <2> SUFFICES ASSUME r <= q PROVE FALSE
    BY <1>2, <1>3
  <2>1. s * r <= s * q
    BY <1>1, <1>2, <1>3, Times
  <2> DEFINE x == s * r
  <2> DEFINE y == s * q
  <2>2. x \in Nat /\ y \in Nat /\ x <= y /\ len + s - 1 < x + s /\ y <= n - 1
    BY <1>2, <1>3, <2>1
  <2> HIDE DEF x, y
  <2> QED BY <1>1, <2>2
<1>5. q + 1 \in 1..r /\ (q + 1) - 1 = q
  BY <1>2, <1>3, <1>4
<1>6. q * s = s * q
  BY <1>1, <1>2
<1>7. ((q + 1) - 1) * s < n /\ n <= ((q + 1) - 1) * s + s
  <2> DEFINE y == s * q
  <2>1. y \in Nat /\ y <= n - 1 /\ n - 1 < y + s
    BY <1>2
  <2> HIDE DEF y
  <2>2. y < n /\ n <= y + s
    BY <1>1, <2>1
  <2> QED BY <1>5, <1>6, <2>2 DEF y
<1> QED BY <1>5, <1>7 DEF r

\* A segment is a part of s without a gap.
Part(segment, s) ==
    /\ Len(segment) \in Nat /\ DOMAIN segment = 1..Len(segment)
    /\ \E a \in Nat : \A i \in 1..Len(segment) : a + i \in 1..Len(s) /\ segment[i] = s[a + i]

LEMMA CutCovers ==
    ASSUME NEW role, NEW s, s \in Seq(Range(s))
    PROVE  /\ \A path \in DOMAIN Cut(role, s) : path[1] = role /\ Part(Cut(role, s)[path], s)
           /\ UNION {Range(Cut(role, s)[path]) : path \in DOMAIN Cut(role, s)} = Range(s)
<1> DEFINE K == (Len(s) + SegmentSize - 1) \div SegmentSize
<1> DEFINE Start(k) == (k - 1) * SegmentSize
<1> DEFINE End(k) == IF Start(k) + SegmentSize < Len(s) THEN Start(k) + SegmentSize ELSE Len(s)
<1>1. Len(s) \in Nat /\ DOMAIN s = 1..Len(s) /\ SegmentSize \in Nat \ {0}
  BY LenProperties, SegmentAssumption
<1>2. DOMAIN Cut(role, s) = {<<role, k>> : k \in 1..K}
  BY DEF Cut
<1>3. \A k \in 1..K : Cut(role, s)[<<role, k>>] = SubSeq(s, Start(k) + 1, End(k))
  BY <1>2 DEF Cut
<1>4. \A k \in 1..K : Start(k) \in Nat
  <2> SUFFICES ASSUME NEW k \in 1..K PROVE Start(k) \in Nat
    OBVIOUS
  <2>1. k - 1 \in Nat
    OBVIOUS
  <2> QED BY <1>1, <2>1
<1>5. \A n \in 1..Len(s) : \E k \in 1..K : Start(k) < n /\ n <= Start(k) + SegmentSize
  BY <1>1, SegmentOf
<1> HIDE DEF K, Start
<1>6. \A k \in 1..K : End(k) \in Nat /\ End(k) <= Len(s) /\ \A n \in 1..Len(s) : n <= Start(k) + SegmentSize => n <= End(k)
  BY <1>1, <1>4
<1> HIDE DEF End
<1>7. \A k \in 1..K : /\ Len(Cut(role, s)[<<role, k>>]) \in Nat
                      /\ DOMAIN Cut(role, s)[<<role, k>>] = 1..Len(Cut(role, s)[<<role, k>>])
                      /\ DOMAIN Cut(role, s)[<<role, k>>] = 1..(End(k) - Start(k))
                      /\ \A i \in 1..(End(k) - Start(k)) : Cut(role, s)[<<role, k>>][i] = s[Start(k) + i]
  <2> SUFFICES ASSUME NEW k \in 1..K
               PROVE  /\ Len(Cut(role, s)[<<role, k>>]) \in Nat
                      /\ DOMAIN Cut(role, s)[<<role, k>>] = 1..Len(Cut(role, s)[<<role, k>>])
                      /\ DOMAIN Cut(role, s)[<<role, k>>] = 1..(End(k) - Start(k))
                      /\ \A i \in 1..(End(k) - Start(k)) : Cut(role, s)[<<role, k>>][i] = s[Start(k) + i]
    OBVIOUS
  <2> DEFINE a == Start(k)
  <2> DEFINE e == End(k)
  <2>1. a \in Nat /\ e \in Nat /\ e <= Len(s)
    BY <1>4, <1>6
  <2>2. Cut(role, s)[<<role, k>>] = SubSeq(s, a + 1, e)
    BY <1>3
  <2> HIDE DEF a, e
  <2>3. \A i \in (a + 1)..e : s[i] \in Range(s)
    BY <1>1, <2>1 DEF Range
  <2>4. a + 1 \in Int /\ e \in Int
    BY <2>1
  <2>5. /\ SubSeq(s, a + 1, e) \in Seq(Range(s))
        /\ Len(SubSeq(s, a + 1, e)) = IF a + 1 <= e THEN e - (a + 1) + 1 ELSE 0
        /\ \A i \in 1..e - (a + 1) + 1 : SubSeq(s, a + 1, e)[i] = s[(a + 1) + i - 1]
    BY <2>3, <2>4, SubSeqProperties
  <2>6. Len(SubSeq(s, a + 1, e)) \in Nat /\ DOMAIN SubSeq(s, a + 1, e) = 1..Len(SubSeq(s, a + 1, e))
    BY <2>5, LenProperties
  <2>7. 1..Len(SubSeq(s, a + 1, e)) = 1..(e - a) /\ e - (a + 1) + 1 = e - a
    BY <2>1, <2>5
  <2>8. \A i \in 1..(e - a) : (a + 1) + i - 1 = a + i
    BY <2>1
  <2> QED BY <2>2, <2>5, <2>6, <2>7, <2>8 DEF a, e
<1>8. ASSUME NEW k \in 1..K PROVE Range(Cut(role, s)[<<role, k>>]) \subseteq Range(s)
  <2> DEFINE part == Cut(role, s)[<<role, k>>]
  <2>2. DOMAIN part = 1..(End(k) - Start(k)) /\ \A i \in 1..(End(k) - Start(k)) : part[i] = s[Start(k) + i]
    BY <1>7
  <2> HIDE DEF part
  <2> SUFFICES ASSUME NEW i \in 1..(End(k) - Start(k)) PROVE s[Start(k) + i] \in Range(s)
    BY <2>2 DEF Range, part
  <2>1. Start(k) + i \in 1..Len(s)
    BY <1>1, <1>4, <1>6
  <2> QED BY <1>1, <2>1 DEF Range
<1>9. ASSUME NEW n \in 1..Len(s) PROVE \E k \in 1..K : s[n] \in Range(Cut(role, s)[<<role, k>>])
  <2>1. PICK k \in 1..K : Start(k) < n /\ n <= Start(k) + SegmentSize
    BY <1>5
  <2>2. n <= End(k) /\ Start(k) \in Nat /\ End(k) \in Nat
    BY <1>4, <1>6, <2>1
  <2>3. n - Start(k) \in 1..(End(k) - Start(k)) /\ Start(k) + (n - Start(k)) = n
    BY <2>1, <2>2
  <2> DEFINE i == n - Start(k)
  <2> HIDE DEF i
  <2>4. i \in DOMAIN Cut(role, s)[<<role, k>>] /\ Cut(role, s)[<<role, k>>][i] = s[n]
    BY <1>7, <2>3 DEF i
  <2> QED BY <2>4 DEF Range
<1>10. Range(s) \subseteq UNION {Range(Cut(role, s)[path]) : path \in DOMAIN Cut(role, s)}
  <2> SUFFICES ASSUME NEW n \in 1..Len(s)
               PROVE  \E path \in DOMAIN Cut(role, s) : s[n] \in Range(Cut(role, s)[path])
    BY <1>1 DEF Range
  <2>1. PICK k \in 1..K : s[n] \in Range(Cut(role, s)[<<role, k>>])
    BY <1>9
  <2> QED BY <1>2, <2>1
<1>11. UNION {Range(Cut(role, s)[path]) : path \in DOMAIN Cut(role, s)} \subseteq Range(s)
  BY <1>2, <1>8
<1>12. ASSUME NEW k \in 1..K PROVE Part(Cut(role, s)[<<role, k>>], s)
  <2> DEFINE part == Cut(role, s)[<<role, k>>]
  <2>1. /\ Len(part) \in Nat /\ DOMAIN part = 1..Len(part) /\ 1..Len(part) = 1..(End(k) - Start(k))
        /\ \A i \in 1..(End(k) - Start(k)) : part[i] = s[Start(k) + i]
    BY <1>7
  <2>2. \A i \in 1..(End(k) - Start(k)) : Start(k) + i \in 1..Len(s)
    BY <1>1, <1>4, <1>6
  <2> HIDE DEF part
  <2> QED BY <1>4, <2>1, <2>2 DEF Part, part
<1>13. \A path \in DOMAIN Cut(role, s) : path[1] = role /\ Part(Cut(role, s)[path], s)
  BY <1>2, <1>12
<1> QED BY <1>10, <1>11, <1>13

\* The segments run on: what is in an earlier segment, or earlier in the same, is
\* earlier in s.
LEMMA CutRunsOn ==
    ASSUME NEW role, NEW s, s \in Seq(Range(s)), NEW p \in DOMAIN Cut(role, s), NEW q \in DOMAIN Cut(role, s),
           NEW n \in DOMAIN Cut(role, s)[p], NEW k \in DOMAIN Cut(role, s)[q],
           p[2] < q[2] \/ (p = q /\ n < k)
    PROVE  \E u, v \in 1..Len(s) : u < v /\ Cut(role, s)[p][n] = s[u] /\ Cut(role, s)[q][k] = s[v]
<1> DEFINE K == (Len(s) + SegmentSize - 1) \div SegmentSize
<1> DEFINE Start(k_) == (k_ - 1) * SegmentSize
<1>1. Len(s) \in Nat /\ DOMAIN s = 1..Len(s) /\ SegmentSize \in Nat \ {0}
  BY LenProperties, SegmentAssumption
<1>2. DOMAIN Cut(role, s) = {<<role, i>> : i \in 1..K}
  BY DEF Cut
<1>3. PICK i, j \in 1..K : p = <<role, i>> /\ q = <<role, j>>
  BY <1>2
<1>4. ASSUME NEW m \in 1..K, NEW h \in DOMAIN Cut(role, s)[<<role, m>>]
      PROVE  /\ Start(m) \in Nat /\ h \in Nat \ {0} /\ h <= SegmentSize
             /\ Start(m) + h \in 1..Len(s) /\ Cut(role, s)[<<role, m>>][h] = s[Start(m) + h]
  <2> DEFINE a == Start(m)
  <2> DEFINE e == IF a + SegmentSize < Len(s) THEN a + SegmentSize ELSE Len(s)
  <2>1. Cut(role, s)[<<role, m>>] = SubSeq(s, a + 1, e)
    BY <1>2 DEF Cut
  <2>2. m - 1 \in Nat
    OBVIOUS
  <2>3. a \in Nat
    BY <1>1, <2>2
  <2> HIDE DEF a
  <2>4. e \in Nat /\ e <= Len(s) /\ e <= a + SegmentSize
    BY <1>1, <2>3
  <2> HIDE DEF e
  <2>5. \A x \in (a + 1)..e : s[x] \in Range(s)
    BY <1>1, <2>3, <2>4 DEF Range
  <2>6. /\ SubSeq(s, a + 1, e) \in Seq(Range(s))
        /\ Len(SubSeq(s, a + 1, e)) = IF a + 1 <= e THEN e - (a + 1) + 1 ELSE 0
        /\ \A x \in 1..e - (a + 1) + 1 : SubSeq(s, a + 1, e)[x] = s[(a + 1) + x - 1]
    BY <2>3, <2>4, <2>5, SubSeqProperties
  <2>7. Len(SubSeq(s, a + 1, e)) \in Nat /\ DOMAIN SubSeq(s, a + 1, e) = 1..Len(SubSeq(s, a + 1, e))
    BY <2>6, LenProperties
  <2> DEFINE cut == SubSeq(s, a + 1, e)
  <2> DEFINE len == Len(s)
  <2> HIDE DEF cut, len
  <2>8. h \in 1..(e - a) /\ e <= len
    <3>1. h \in 1..Len(cut) /\ Len(cut) = IF a + 1 <= e THEN e - (a + 1) + 1 ELSE 0
      BY <1>4, <2>1, <2>6, <2>7 DEF cut
    <3> QED BY <2>3, <2>4, <3>1 DEF len
  <2>9. /\ h \in 1..e - (a + 1) + 1 /\ (a + 1) + h - 1 = a + h /\ a + h \in 1..len
        /\ h \in Nat \ {0} /\ h <= SegmentSize
    <3>1. len \in Nat /\ SegmentSize \in Nat
      BY <1>1 DEF len
    <3> QED BY <2>3, <2>4, <2>8, <3>1
  <2> QED BY <2>1, <2>3, <2>6, <2>9 DEF a, len
<1>5. /\ Start(i) \in Nat /\ n \in Nat \ {0} /\ n <= SegmentSize
      /\ Start(i) + n \in 1..Len(s) /\ Cut(role, s)[p][n] = s[Start(i) + n]
  BY <1>3, <1>4
<1>6. /\ Start(j) \in Nat /\ k \in Nat \ {0}
      /\ Start(j) + k \in 1..Len(s) /\ Cut(role, s)[q][k] = s[Start(j) + k]
  BY <1>3, <1>4
<1>7. i < j => Start(i) + SegmentSize <= Start(j)
  <2> SUFFICES ASSUME i < j PROVE Start(i) + SegmentSize <= Start(j)
    OBVIOUS
  <2>1. i \in Nat /\ j - 1 \in Nat /\ i <= j - 1
    BY <1>3
  <2>2. SegmentSize * i <= SegmentSize * (j - 1)
    BY <1>1, <2>1, Times
  <2>3. (i - 1) * SegmentSize + SegmentSize = SegmentSize * i /\ (j - 1) * SegmentSize = SegmentSize * (j - 1)
    BY <1>1, <2>1
  <2> QED BY <2>2, <2>3
<1> HIDE DEF Start, K
<1>8. i < j \/ (i = j /\ n < k)
  BY <1>3
<1>9. Start(i) + n < Start(j) + k
  BY <1>1, <1>5, <1>6, <1>7, <1>8
<1> DEFINE u == Start(i) + n
<1> DEFINE v == Start(j) + k
<1>10. u \in 1..Len(s) /\ v \in 1..Len(s) /\ u < v /\ Cut(role, s)[p][n] = s[u] /\ Cut(role, s)[q][k] = s[v]
  BY <1>5, <1>6, <1>9
<1> HIDE DEF u, v
<1> QED BY <1>10

LEMMA SeqOfFunction ==
    ASSUME NEW s, NEW n \in Nat, s = [i \in 1..n |-> s[i]]
    PROVE  s \in Seq(Range(s))
<1>1. \A i \in 1..n : s[i] \in Range(s)
  BY DEF Range
<1>2. s \in [1..n -> Range(s)]
  BY <1>1
<1> QED BY <1>2

LEMMA CoresOfCut ==
    ASSUME NEW role, NEW S, IsFiniteSet(S), \A p, q \in S : Rank(p) \in Nat /\ (Rank(p) = Rank(q) => p = q)
    PROVE  Cores(role, Cut(role, Entries(S))) = S
<1> DEFINE s == Entries(S)
<1> DEFINE N == Cardinality(S)
<1> DEFINE cut == Cut(role, s)
<1>1. N \in Nat /\ DOMAIN Sorted(S) = 1..N /\ Range(Sorted(S)) = S
  BY SortedIs
<1>2. s = [n \in 1..N |-> [sequence |-> n, core |-> Sorted(S)[n]]]
  BY <1>1 DEF Entries
<1>3. s = [n \in 1..N |-> s[n]] /\ \A n \in 1..N : s[n].core = Sorted(S)[n]
  BY <1>2
<1>4. DOMAIN s = 1..N
  BY <1>2
<1> HIDE DEF s, N
<1>5. s \in Seq(Range(s))
  BY <1>1, <1>3, SeqOfFunction
<1>6. /\ \A path \in DOMAIN cut : path[1] = role
      /\ UNION {Range(cut[path]) : path \in DOMAIN cut} = Range(s)
  BY <1>5, CutCovers
<1> HIDE DEF cut
<1>7. Having(role, cut) = DOMAIN cut
  BY <1>6 DEF Having
<1>8. EntriesIn(role, cut) = Range(s)
  BY <1>6, <1>7 DEF EntriesIn
<1>9. {e.core : e \in Range(s)} = Range(Sorted(S))
  BY <1>1, <1>3, <1>4 DEF Range
<1> QED BY <1>1, <1>8, <1>9 DEF Cores, cut, s

\* Files of other roles do not change the cores of a role.
LEMMA CoresKept ==
    ASSUME NEW role, NEW f, NEW g, \A p \in DOMAIN f : p[1] # role
    PROVE  Cores(role, With(f, g)) = Cores(role, g)
<1> DEFINE h == With(f, g)
<1>0. /\ DOMAIN h = DOMAIN f \cup DOMAIN g
      /\ \A p \in DOMAIN f : h[p] = f[p]
      /\ \A p \in DOMAIN g \ DOMAIN f : h[p] = g[p]
  BY WithIs
<1> HIDE DEF h
<1>1. Having(role, h) = Having(role, g)
  BY <1>0 DEF Having
<1>2. \A p \in Having(role, g) : h[p] = g[p]
  BY <1>0 DEF Having
<1>3. EntriesIn(role, h) = EntriesIn(role, g)
  BY <1>1, <1>2 DEF EntriesIn
<1> QED BY <1>3 DEF Cores, h

LEMMA CoresNew ==
    ASSUME NEW role, NEW f, NEW g, \A p \in DOMAIN g : p[1] # role
    PROVE  Cores(role, With(f, g)) = Cores(role, f)
<1> DEFINE h == With(f, g)
<1>0. /\ DOMAIN h = DOMAIN f \cup DOMAIN g
      /\ \A p \in DOMAIN f : h[p] = f[p]
      /\ \A p \in DOMAIN g \ DOMAIN f : h[p] = g[p]
  BY WithIs
<1> HIDE DEF h
<1>1. Having(role, h) = Having(role, f)
  BY <1>0 DEF Having
<1>2. \A p \in Having(role, f) : h[p] = f[p]
  BY <1>0 DEF Having
<1>3. EntriesIn(role, h) = EntriesIn(role, f)
  BY <1>1, <1>2 DEF EntriesIn
<1> QED BY <1>3 DEF Cores, h

(***************************************************************************)
(* The invariant.  The directory belongs to the build that made it, whose  *)
(* files are exactly the artifacts it remembers; while the build compiles, *)
(* these are the catalog and the evidence of what it has compiled, and     *)
(* once it has cut its segments, the packets in them are those it has      *)
(* compiled.  A manifest stands only beside a build that has compiled      *)
(* everything, and what a runtime has opened is such a manifest.           *)
(***************************************************************************)
Before == {"idle", "reserve"}
Indexed == {"canon", "proofs", "views", "report", "manifest", "writing"}
Filling == {"load", "catalog", "compile"} \cup Indexed
After == {"verify", "built"}

IsBuilder(e) ==
    /\ e = [pc |-> e.pc, options |-> e.options, loaded |-> e.loaded, done |-> e.done, artifacts |-> e.artifacts]
    /\ e.pc \in Before \cup Filling \cup After \cup {"failed"}
    /\ Sensible(e.options)
    /\ e.done \in 0..Len(Sources(e.options))

PacketsIn(e) == UNION {PacketsOf(Sources(e.options)[n]) : n \in 1..e.done}

Whole(e) == e.done = Len(Sources(e.options)) /\ Cores("packets", e.artifacts) = PacketsIn(e)

Compiling(e) ==
    /\ e.pc \in {"load", "catalog"} => DOMAIN e.artifacts = {} /\ e.done = 0
    /\ e.pc = "compile" =>
          \A path \in DOMAIN e.artifacts :
              \/ path = <<"catalog">>
              \/ \E n \in 1..e.done : path \in DOMAIN EvidenceOf(Sources(e.options)[n])
    /\ e.pc \in Indexed => Whole(e)
    /\ \A p \in PacketsIn(e) : p.at <= e.options.createdAt

\* m is the manifest of all that e has compiled.
Documents(m, e) ==
    /\ e.pc \in After \cup {"failed"} /\ Whole(e)
    /\ m.artifacts = e.artifacts /\ m.createdAt = e.options.createdAt

TypeInv ==
    /\ builders = [b \in Builders |-> builders[b]]
    /\ \A b \in Builders : IsBuilder(builders[b])
    /\ output = [owner |-> output.owner, files |-> output.files, manifest |-> output.manifest]
    /\ damage \in Nat
    /\ runtime # NoRuntime => runtime = [stage |-> runtime.stage, fixtures |-> runtime.fixtures,
                                         manifest |-> runtime.manifest, packets |-> runtime.packets]

OwnerInv ==
    /\ output.owner \in Builders \cup {Nobody}
    /\ output.owner = Nobody => DOMAIN output.files = {} /\ output.manifest = NoManifest
    /\ output.owner \in Builders =>
          /\ DOMAIN output.files = DOMAIN builders[output.owner].artifacts
          /\ builders[output.owner].options \in OptionSet[output.owner]
    /\ \A b \in Builders :
          /\ builders[b].pc \in Filling \cup After => output.owner = b
          /\ builders[b].pc \in Before =>
                output.owner # b /\ DOMAIN builders[b].artifacts = {} /\ builders[b].done = 0
          /\ builders[b].pc = "reserve" => builders[b].options \in OptionSet[b]

CompileInv == \A b \in Builders : Compiling(builders[b])

ManifestInv ==
    /\ \A b \in Builders : builders[b].pc \in Filling => output.manifest \in {NoManifest, Damaged}
    /\ output.manifest \notin {NoManifest, Damaged} =>
          output.owner \in Builders /\ Documents(output.manifest, builders[output.owner])

RuntimeInv ==
    /\ runtime # NoRuntime =>
          /\ output.owner \in Builders /\ Documents(runtime.manifest, builders[output.owner])
          /\ runtime.stage = "open" => runtime.packets = Sorted(PacketsIn(builders[output.owner]))
    /\ answer # NoAnswer => runtime # NoRuntime /\ runtime.stage = "open"

IInv == TypeInv /\ OwnerInv /\ CompileInv /\ ManifestInv /\ RuntimeInv

(***************************************************************************)
(* Records.                                                                *)
(***************************************************************************)
Builder(pc, options, loaded, done, artifacts) ==
    [pc |-> pc, options |-> options, loaded |-> loaded, done |-> done, artifacts |-> artifacts]

LEMMA BuilderExcept ==
    ASSUME NEW e, IsBuilder(e), NEW x
    PROVE  /\ e = Builder(e.pc, e.options, e.loaded, e.done, e.artifacts)
           /\ [e EXCEPT !.pc = x] = Builder(x, e.options, e.loaded, e.done, e.artifacts)
           /\ [e EXCEPT !.options = x] = Builder(e.pc, x, e.loaded, e.done, e.artifacts)
           /\ [e EXCEPT !.loaded = x] = Builder(e.pc, e.options, x, e.done, e.artifacts)
           /\ [e EXCEPT !.done = x] = Builder(e.pc, e.options, e.loaded, x, e.artifacts)
           /\ [e EXCEPT !.artifacts = x] = Builder(e.pc, e.options, e.loaded, e.done, x)
<1>1. e = [pc |-> e.pc, options |-> e.options, loaded |-> e.loaded, done |-> e.done, artifacts |-> e.artifacts]
  BY DEF IsBuilder
<1> DEFINE p == e.pc
<1> DEFINE o == e.options
<1> DEFINE l == e.loaded
<1> DEFINE d == e.done
<1> DEFINE a == e.artifacts
<1>2. e = [pc |-> p, options |-> o, loaded |-> l, done |-> d, artifacts |-> a]
  BY <1>1
<1> HIDE DEF p, o, l, d, a
<1>3. [e EXCEPT !.pc = x] = [pc |-> x, options |-> o, loaded |-> l, done |-> d, artifacts |-> a]
  BY <1>2
<1>4. [e EXCEPT !.options = x] = [pc |-> p, options |-> x, loaded |-> l, done |-> d, artifacts |-> a]
  BY <1>2
<1>5. [e EXCEPT !.loaded = x] = [pc |-> p, options |-> o, loaded |-> x, done |-> d, artifacts |-> a]
  BY <1>2
<1>6. [e EXCEPT !.done = x] = [pc |-> p, options |-> o, loaded |-> l, done |-> x, artifacts |-> a]
  BY <1>2
<1>7. [e EXCEPT !.artifacts = x] = [pc |-> p, options |-> o, loaded |-> l, done |-> d, artifacts |-> x]
  BY <1>2
<1> QED BY <1>2, <1>3, <1>4, <1>5, <1>6, <1>7 DEF Builder, p, o, l, d, a

LEMMA BuilderFields ==
    ASSUME NEW pc, NEW options, NEW loaded, NEW done, NEW artifacts
    PROVE  LET e == Builder(pc, options, loaded, done, artifacts) IN
           /\ e.pc = pc /\ e.options = options /\ e.loaded = loaded /\ e.done = done /\ e.artifacts = artifacts
           /\ e = [pc |-> e.pc, options |-> e.options, loaded |-> e.loaded, done |-> e.done, artifacts |-> e.artifacts]
BY DEF Builder

Output(owner, files, manifest) == [owner |-> owner, files |-> files, manifest |-> manifest]

LEMMA OutputExcept ==
    ASSUME NEW o, o = [owner |-> o.owner, files |-> o.files, manifest |-> o.manifest], NEW x
    PROVE  /\ o = Output(o.owner, o.files, o.manifest)
           /\ [o EXCEPT !.owner = x] = Output(x, o.files, o.manifest)
           /\ [o EXCEPT !.files = x] = Output(o.owner, x, o.manifest)
           /\ [o EXCEPT !.manifest = x] = Output(o.owner, o.files, x)
<1> DEFINE w == o.owner
<1> DEFINE f == o.files
<1> DEFINE m == o.manifest
<1>1. o = [owner |-> w, files |-> f, manifest |-> m]
  OBVIOUS
<1> HIDE DEF w, f, m
<1>2. [o EXCEPT !.owner = x] = [owner |-> x, files |-> f, manifest |-> m]
  BY <1>1
<1>3. [o EXCEPT !.files = x] = [owner |-> w, files |-> x, manifest |-> m]
  BY <1>1
<1>4. [o EXCEPT !.manifest = x] = [owner |-> w, files |-> f, manifest |-> x]
  BY <1>1
<1> QED BY <1>1, <1>2, <1>3, <1>4 DEF Output, w, f, m

LEMMA OutputFields ==
    ASSUME NEW owner, NEW files, NEW manifest
    PROVE  LET o == Output(owner, files, manifest) IN
           /\ o.owner = owner /\ o.files = files /\ o.manifest = manifest
           /\ o = [owner |-> o.owner, files |-> o.files, manifest |-> o.manifest]
BY DEF Output

\* Both sides of the model's @.
LEMMA Turns ==
    ASSUME NEW b \in Builders, builders = [c \in Builders |-> builders[c]], NEW e,
           builders' = [builders EXCEPT ![b] = e]
    PROVE  /\ builders'[b] = e /\ \A c \in Builders \ {b} : builders'[c] = builders[c]
           /\ builders' = [c \in Builders |-> builders'[c]]
OBVIOUS

(***************************************************************************)
(* A step of the build that owns the directory.                            *)
(***************************************************************************)
LEMMA OwnerKeeps ==
    ASSUME IInv, NEW b \in Builders, builders[b].pc \in Filling \cup After,
           NEW e, builders' = [builders EXCEPT ![b] = e],
           IsBuilder(e), Compiling(e), e.options = builders[b].options, e.pc \in Filling \cup After \cup {"failed"},
           NEW files, NEW manifest, output' = Output(output.owner, files, manifest),
           DOMAIN files = DOMAIN e.artifacts,
           e.pc \in Filling => manifest \in {NoManifest, Damaged},
           manifest \notin {NoManifest, Damaged} => Documents(manifest, e),
           builders[b].pc \in After =>
               e.pc \in After \cup {"failed"} /\ e.done = builders[b].done /\ e.artifacts = builders[b].artifacts,
           damage' = damage, runtime' = runtime, answer' = answer
    PROVE  IInv'
<1>1. output.owner = b
  BY DEF IInv, OwnerInv
<1>2. /\ builders'[b] = e /\ \A c \in Builders \ {b} : builders'[c] = builders[c]
      /\ builders' = [c \in Builders |-> builders'[c]]
  BY Turns DEF IInv, TypeInv
<1>3. /\ output'.owner = b /\ output'.files = files /\ output'.manifest = manifest
      /\ output' = [owner |-> output'.owner, files |-> output'.files, manifest |-> output'.manifest]
  BY <1>1, OutputFields
<1>4. b # Nobody
  BY SourcesAssumption
<1>5. \A c \in Builders \ {b} : builders[c].pc \notin Filling \cup After
  BY <1>1 DEF IInv, OwnerInv
<1>6. e.pc \notin Before
  BY DEF Filling, After, Indexed, Before
<1>7. TypeInv'
  BY <1>2, <1>3 DEF IInv, TypeInv
<1>8. OwnerInv'
  <2>1. /\ output'.owner \in Builders \cup {Nobody} /\ output'.owner # Nobody
        /\ DOMAIN output'.files = DOMAIN builders'[output'.owner].artifacts
        /\ builders'[output'.owner].options \in OptionSet[output'.owner]
    BY <1>1, <1>2, <1>3, <1>4 DEF IInv, OwnerInv
  <2>2. ASSUME NEW c \in Builders \ {b}
        PROVE  /\ builders'[c].pc \in Filling \cup After => output'.owner = c
               /\ builders'[c].pc \in Before =>
                     output'.owner # c /\ DOMAIN builders'[c].artifacts = {} /\ builders'[c].done = 0
               /\ builders'[c].pc = "reserve" => builders'[c].options \in OptionSet[c]
    BY <1>2, <1>3, <1>5 DEF IInv, OwnerInv
  <2>3. /\ builders'[b].pc \in Filling \cup After => output'.owner = b
        /\ builders'[b].pc \notin Before
    BY <1>2, <1>3, <1>6
  <2>4. builders'[b].pc # "reserve"
    BY <2>3 DEF Before
  <2> QED BY <2>1, <2>2, <2>3, <2>4 DEF OwnerInv
<1>9. CompileInv'
  BY <1>2 DEF IInv, CompileInv
<1>10. ManifestInv'
  BY <1>2, <1>3, <1>5 DEF ManifestInv
<1>11. RuntimeInv'
  <2>1. ASSUME runtime # NoRuntime
        PROVE  Documents(runtime.manifest, e) /\ PacketsIn(e) = PacketsIn(builders[b])
    <3>1. Documents(runtime.manifest, builders[b])
      BY <1>1, <2>1 DEF IInv, RuntimeInv
    <3>2. builders[b].pc \in After
      BY <3>1 DEF Documents, Filling, Indexed, After
    <3>3. e.done = builders[b].done /\ e.artifacts = builders[b].artifacts /\ e.pc \in After \cup {"failed"}
      BY <3>2
    <3>4. PacketsIn(e) = PacketsIn(builders[b])
      BY <3>3 DEF PacketsIn
    <3> QED BY <3>1, <3>3, <3>4 DEF Documents, Whole
  <2> QED BY <1>1, <1>2, <1>3, <2>1 DEF IInv, RuntimeInv
<1> QED BY <1>7, <1>8, <1>9, <1>10, <1>11 DEF IInv

(***************************************************************************)
(* The packets of a build.                                                 *)
(***************************************************************************)
LEMMA PacketsAre ==
    ASSUME NEW b \in Builders
    PROVE  Packets(b) = PacketsIn(builders[b])
<1> DEFINE s == Sources(builders[b].options)
<1> DEFINE d == builders[b].done
<1>1. Compiled(b) = {s[n] : n \in 1..d}
  BY DEF Compiled
<1>2. Packets(b) = UNION {PacketsOf(source) : source \in Compiled(b)}
  BY DEF Packets
<1>3. PacketsIn(builders[b]) = UNION {PacketsOf(s[n]) : n \in 1..d}
  BY DEF PacketsIn
<1> HIDE DEF s, d
<1> QED BY <1>1, <1>2, <1>3

LEMMA PacketsRanked ==
    ASSUME NEW b \in Builders, NEW e, IsBuilder(e), e.options \in OptionSet[b]
    PROVE  /\ IsFiniteSet(PacketsIn(e))
           /\ \A p, q \in PacketsIn(e) : Rank(p) \in Nat /\ (Rank(p) = Rank(q) => p = q)
<1> DEFINE L == Len(Sources(e.options))
<1> DEFINE P(n) == PacketsOf(Sources(e.options)[n])
<1>1. Sensible(e.options) /\ e.done \in 0..L
  BY DEF IsBuilder
<1>2. L \in Nat /\ DOMAIN Sources(e.options) = 1..L
  BY <1>1, SourcesAre
<1>3. 1..e.done \subseteq 1..L /\ e.done \in Nat
  BY <1>1, <1>2
<1>4. \A n \in 1..L : IsFiniteSet(P(n))
  BY <1>1, PacketsAreFinite
<1> DEFINE F == 1..e.done
<1> DEFINE T == {P(n) : n \in F}
<1> DEFINE g == [n \in F |-> P(n)]
<1>5. PacketsIn(e) = UNION T
  BY DEF PacketsIn
<1>6. \A x \in T : IsFiniteSet(x)
  BY <1>3, <1>4
<1>7. g \in [F -> T] /\ \A x \in T : \E n \in F : g[n] = x
  OBVIOUS
<1>8. IsFiniteSet(F)
  BY <1>3, FS_Interval
<1>9. IsFiniteSet(T)
  <2> HIDE DEF F, T, g
  <2>1. g \in Surjection(F, T)
    BY <1>7, Fun_IsSurj
  <2> QED BY <1>8, <2>1, FS_Surjection
<1>10. IsFiniteSet(UNION T)
  <2> HIDE DEF T
  <2> QED BY <1>6, <1>9, FS_UNION
<1>11. PacketsIn(e) \subseteq UNION {PacketsOf(source) : source \in Range(Sources(e.options))}
  BY <1>2, <1>3 DEF PacketsIn, Range
<1>12. \A p, q \in UNION {PacketsOf(source) : source \in Range(Sources(e.options))} :
          Rank(p) \in Nat /\ (Rank(p) = Rank(q) => p = q)
  BY DigestAssumption
<1> HIDE DEF P
<1> QED BY <1>5, <1>10, <1>11, <1>12

(***************************************************************************)
(* A step of a build that does not own the directory.                      *)
(***************************************************************************)
LEMMA OthersKeep ==
    ASSUME IInv, NEW b \in Builders, output.owner # b,
           NEW e, builders' = [builders EXCEPT ![b] = e],
           IsBuilder(e), Compiling(e), e.pc \in Before \cup {"failed"},
           e.pc \in Before => DOMAIN e.artifacts = {} /\ e.done = 0,
           e.pc = "reserve" => e.options \in OptionSet[b],
           output' = output, damage' = damage, runtime' = runtime, answer' = answer
    PROVE  IInv'
<1>1. /\ builders'[b] = e /\ \A c \in Builders \ {b} : builders'[c] = builders[c]
      /\ builders' = [c \in Builders |-> builders'[c]]
  BY Turns DEF IInv, TypeInv
<1>2. e.pc \notin Filling \cup After
  BY DEF Filling, After, Indexed, Before
<1>3. output.owner \in Builders => builders'[output.owner] = builders[output.owner]
  BY <1>1
<1>4. TypeInv'
  BY <1>1 DEF IInv, TypeInv
<1>5. OwnerInv'
  <2>1. /\ output'.owner \in Builders \cup {Nobody}
        /\ output'.owner = Nobody => DOMAIN output'.files = {} /\ output'.manifest = NoManifest
        /\ output'.owner \in Builders =>
              /\ DOMAIN output'.files = DOMAIN builders'[output'.owner].artifacts
              /\ builders'[output'.owner].options \in OptionSet[output'.owner]
    BY <1>3 DEF IInv, OwnerInv
  <2>2. ASSUME NEW c \in Builders
        PROVE  /\ builders'[c].pc \in Filling \cup After => output'.owner = c
               /\ builders'[c].pc \in Before =>
                     output'.owner # c /\ DOMAIN builders'[c].artifacts = {} /\ builders'[c].done = 0
               /\ builders'[c].pc = "reserve" => builders'[c].options \in OptionSet[c]
    <3>1. CASE c = b
      BY <1>1, <1>2, <3>1
    <3>2. CASE c # b
      BY <1>1, <3>2 DEF IInv, OwnerInv
    <3> QED BY <3>1, <3>2
  <2> QED BY <2>1, <2>2 DEF OwnerInv
<1>6. CompileInv'
  BY <1>1 DEF IInv, CompileInv
<1>7. ManifestInv'
  <2>1. ASSUME NEW c \in Builders, builders'[c].pc \in Filling PROVE output'.manifest \in {NoManifest, Damaged}
    <3>1. c # b
      BY <1>1, <1>2, <2>1
    <3> QED BY <1>1, <2>1, <3>1 DEF IInv, ManifestInv
  <2>2. output'.manifest \notin {NoManifest, Damaged} =>
            output'.owner \in Builders /\ Documents(output'.manifest, builders'[output'.owner])
    BY <1>3 DEF IInv, ManifestInv
  <2> QED BY <2>1, <2>2 DEF ManifestInv
<1>8. RuntimeInv'
  BY <1>3 DEF IInv, RuntimeInv
<1> QED BY <1>4, <1>5, <1>6, <1>7, <1>8 DEF IInv

LEMMA FreshIs ==
    ASSUME NEW pc \in Before \cup {"failed"}
    PROVE  /\ IsBuilder(Fresh(pc)) /\ Compiling(Fresh(pc))
           /\ Fresh(pc).pc = pc /\ DOMAIN Fresh(pc).artifacts = {} /\ Fresh(pc).done = 0
<1>1. /\ Fresh(pc).pc = pc /\ Fresh(pc).options = NoOptions /\ Fresh(pc).done = 0 /\ Fresh(pc).artifacts = <<>>
      /\ Fresh(pc) = [pc |-> Fresh(pc).pc, options |-> Fresh(pc).options, loaded |-> Fresh(pc).loaded,
                      done |-> Fresh(pc).done, artifacts |-> Fresh(pc).artifacts]
  BY DEF Fresh
<1>2. Sensible(NoOptions)
  <2>1. <<>> \in Seq(DOMAIN Acquisition) /\ DOMAIN <<>> = {}
    OBVIOUS
  <2> QED BY <2>1 DEF NoOptions, Sensible
<1>3. 0 \in 0..Len(Sources(NoOptions))
  BY <1>2, SourcesAre
<1>4. DOMAIN Fresh(pc).artifacts = {}
  BY <1>1
<1>5. PacketsIn(Fresh(pc)) = {}
  <2>1. 1..0 = {}
    OBVIOUS
  <2> QED BY <1>1, <2>1 DEF PacketsIn
<1>6. pc \notin Filling
  BY DEF Before, Filling, Indexed
<1>7. Compiling(Fresh(pc))
  BY <1>1, <1>5, <1>6 DEF Compiling, Filling, Indexed
<1>8. IsBuilder(Fresh(pc))
  BY <1>1, <1>2, <1>3 DEF IsBuilder
<1> QED BY <1>1, <1>4, <1>7, <1>8

LEMMA InitHolds == Init => IInv
<1> SUFFICES ASSUME Init PROVE IInv
  OBVIOUS
<1>1. /\ output.owner = Nobody /\ output.files = <<>> /\ output.manifest = NoManifest
      /\ output = [owner |-> output.owner, files |-> output.files, manifest |-> output.manifest]
  BY DEF Init, BuildInit, NoDirectory
<1>2. builders = [b \in Builders |-> builders[b]] /\ \A b \in Builders : builders[b] = Fresh("idle")
  BY DEF Init, BuildInit
<1>3. damage = 0 /\ runtime = NoRuntime /\ answer = NoAnswer
  BY DEF Init, BuildInit
<1>4. Nobody \notin Builders
  BY SourcesAssumption
<1>5. "idle" \in Before /\ "idle" \notin Filling \cup After
  BY DEF Before, Filling, After, Indexed
<1>6. \A b \in Builders : /\ IsBuilder(builders[b]) /\ Compiling(builders[b])
                          /\ builders[b].pc = "idle" /\ DOMAIN builders[b].artifacts = {} /\ builders[b].done = 0
  BY <1>2, <1>5, FreshIs
<1>7. TypeInv
  BY <1>1, <1>2, <1>3, <1>6 DEF TypeInv
<1>8. DOMAIN output.files = {}
  BY <1>1
<1>9. OwnerInv
  BY <1>1, <1>4, <1>5, <1>6, <1>8 DEF OwnerInv
<1>10. CompileInv
  BY <1>6 DEF CompileInv
<1>11. ManifestInv
  BY <1>1 DEF ManifestInv
<1>12. RuntimeInv
  BY <1>3 DEF RuntimeInv
<1> QED BY <1>7, <1>9, <1>10, <1>11, <1>12 DEF IInv

LEMMA BeginKeeps ==
    ASSUME IInv, NEW b \in Builders, Begin(b), UNCHANGED <<runtime, answer>>
    PROVE  IInv'
<1>1. PICK options \in OptionSet[b] :
          builders' = [builders EXCEPT ![b] =
                         IF OptionsValid(options) /\ output = NoDirectory
                         THEN [@ EXCEPT !.options = options, !.pc = "reserve"] ELSE Fresh("failed")]
  BY DEF Begin
<1>2. /\ builders[b].pc = "idle" /\ output' = output /\ damage' = damage
      /\ runtime' = runtime /\ answer' = answer
  BY DEF Begin
<1>3. /\ "idle" \in Before /\ "reserve" \in Before
  BY DEF Before
<1>4. /\ output.owner # b /\ DOMAIN builders[b].artifacts = {} /\ builders[b].done = 0
  BY <1>2, <1>3 DEF IInv, OwnerInv
<1>5. CASE OptionsValid(options) /\ output = NoDirectory
  <2> DEFINE o == builders[b]
  <2> DEFINE e == [[o EXCEPT !.options = options] EXCEPT !.pc = "reserve"]
  <2>1. builders' = [builders EXCEPT ![b] = [@ EXCEPT !.options = options, !.pc = "reserve"]]
    BY <1>1, <1>5
  <2>2. builders' = [builders EXCEPT ![b] = e]
    BY <2>1
  <2>3. IsBuilder(o) /\ Compiling(o)
    BY DEF IInv, TypeInv, CompileInv
  <2> DEFINE x == Builder(o.pc, options, o.loaded, o.done, o.artifacts)
  <2> DEFINE y == Builder("reserve", options, o.loaded, o.done, o.artifacts)
  <2>4. Sensible(options)
    <3>1. options \in [scale : Nat, acquisitions : Seq(DOMAIN Acquisition), createdAt : Nat]
      BY SourcesAssumption
    <3> QED BY <1>5, <3>1 DEF Sensible, OptionsValid
  <2>5. 0 \in 0..Len(Sources(options))
    BY <2>4, SourcesAre
  <2>6. /\ x.pc = o.pc /\ x.options = options /\ x.loaded = o.loaded /\ x.done = 0 /\ x.artifacts = o.artifacts
        /\ x = [pc |-> x.pc, options |-> x.options, loaded |-> x.loaded, done |-> x.done, artifacts |-> x.artifacts]
    BY <1>4, BuilderFields
  <2>7. /\ y.pc = "reserve" /\ y.options = options /\ y.loaded = o.loaded /\ y.done = 0 /\ y.artifacts = o.artifacts
        /\ y = [pc |-> y.pc, options |-> y.options, loaded |-> y.loaded, done |-> y.done, artifacts |-> y.artifacts]
    BY <1>4, BuilderFields
  <2>8. [o EXCEPT !.options = options] = x
    <3> HIDE DEF o
    <3> QED BY <2>3, BuilderExcept
  <2>9. IsBuilder(x)
    <3> HIDE DEF x, o
    <3> QED BY <2>3, <2>4, <2>5, <2>6 DEF IsBuilder
  <2>10. [x EXCEPT !.pc = "reserve"] = y
    <3>1. [x EXCEPT !.pc = "reserve"] = Builder("reserve", x.options, x.loaded, x.done, x.artifacts)
      <4> HIDE DEF x
      <4> QED BY <2>9, BuilderExcept
    <3> HIDE DEF x
    <3> QED BY <1>4, <2>6, <3>1
  <2>11. e = y
    BY <2>8, <2>10
  <2>12. IsBuilder(y)
    <3> HIDE DEF y
    <3> QED BY <1>3, <2>4, <2>5, <2>7 DEF IsBuilder
  <2>13. Compiling(y)
    <3> HIDE DEF y
    <3>1. PacketsIn(y) = {}
      <4>1. 1..0 = {}
        OBVIOUS
      <4> QED BY <2>7, <4>1 DEF PacketsIn
    <3> QED BY <2>7, <3>1 DEF Compiling, Indexed
  <2>14. builders' = [builders EXCEPT ![b] = y]
    BY <2>2, <2>11
  <2>15. DOMAIN y.artifacts = {}
    BY <1>4, <2>7
  <2> HIDE DEF y, e, x, o
  <2> QED BY <1>2, <1>3, <1>4, <2>7, <2>12, <2>13, <2>14, <2>15, OthersKeep
<1>6. CASE ~(OptionsValid(options) /\ output = NoDirectory)
  <2>1. builders' = [builders EXCEPT ![b] = Fresh("failed")]
    BY <1>1, <1>6
  <2>2. /\ IsBuilder(Fresh("failed")) /\ Compiling(Fresh("failed"))
        /\ Fresh("failed").pc = "failed"
    BY FreshIs
  <2>3. "failed" \notin Before
    BY DEF Before
  <2> QED BY <1>2, <1>4, <2>1, <2>2, <2>3, OthersKeep
<1> QED BY <1>5, <1>6

LEMMA ReserveKeeps ==
    ASSUME IInv, NEW b \in Builders, Reserve(b), UNCHANGED <<runtime, answer>>
    PROVE  IInv'
<1>1. /\ builders[b].pc = "reserve" /\ damage' = damage /\ runtime' = runtime /\ answer' = answer
  BY DEF Reserve
<1>2. "reserve" \in Before /\ "load" \notin Before /\ "failed" \notin Before
  BY DEF Before
<1>3. /\ output.owner # b /\ DOMAIN builders[b].artifacts = {} /\ builders[b].done = 0
      /\ builders[b].options \in OptionSet[b]
  BY <1>1, <1>2 DEF IInv, OwnerInv
<1>4. CASE output = NoDirectory
  <2> DEFINE o == builders[b]
  <2> DEFINE e == Builder("load", o.options, o.loaded, o.done, o.artifacts)
  <2>1. IsBuilder(o) /\ Compiling(o)
    BY DEF IInv, TypeInv, CompileInv
  <2>2. builders' = [builders EXCEPT ![b] = [o EXCEPT !.pc = "load"]]
    BY <1>4 DEF Reserve
  <2>3. [o EXCEPT !.pc = "load"] = e
    <3> HIDE DEF o
    <3> QED BY <2>1, BuilderExcept
  <2>4. /\ e.pc = "load" /\ e.options = o.options /\ e.loaded = o.loaded /\ e.done = 0 /\ e.artifacts = o.artifacts
        /\ e = [pc |-> e.pc, options |-> e.options, loaded |-> e.loaded, done |-> e.done, artifacts |-> e.artifacts]
    BY <1>3, BuilderFields
  <2>5. builders' = [builders EXCEPT ![b] = e]
    BY <2>2, <2>3
  <2>6. "load" \in Filling
    BY DEF Filling
  <2> HIDE DEF e
  <2>7. IsBuilder(e)
    BY <1>3, <2>1, <2>4, <2>6 DEF IsBuilder
  <2>8. Compiling(e)
    <3>1. PacketsIn(e) = PacketsIn(o)
      BY <1>3, <2>4 DEF PacketsIn
    <3>2. DOMAIN e.artifacts = {}
      BY <1>3, <2>4
    <3> QED BY <2>1, <2>4, <3>1, <3>2 DEF Compiling, Indexed
  <2>9. /\ builders'[b] = e /\ \A c \in Builders \ {b} : builders'[c] = builders[c]
        /\ builders' = [c \in Builders |-> builders'[c]]
    BY <2>5, Turns DEF IInv, TypeInv
  <2>10. /\ output.owner = Nobody /\ output.files = <<>> /\ output.manifest = NoManifest
         /\ output' = [output EXCEPT !.owner = b]
    BY <1>4 DEF Reserve, NoDirectory
  <2>11. output' = Output(b, output.files, output.manifest)
    BY <2>10, OutputExcept DEF IInv, TypeInv
  <2>12. /\ output'.owner = b /\ output'.files = <<>> /\ output'.manifest = NoManifest
         /\ output' = [owner |-> output'.owner, files |-> output'.files, manifest |-> output'.manifest]
    BY <2>10, <2>11, OutputFields
  <2>13. Nobody \notin Builders
    BY SourcesAssumption
  <2>14. \A c \in Builders : builders[c].pc \notin Filling \cup After
    BY <2>10, <2>13 DEF IInv, OwnerInv
  <2>15. TypeInv'
    BY <2>7, <2>9, <2>12, <1>1 DEF IInv, TypeInv
  <2>16. OwnerInv'
    <3>1. DOMAIN output'.files = {}
      BY <2>12
    <3>2. /\ output'.owner \in Builders \cup {Nobody} /\ output'.owner # Nobody
          /\ DOMAIN output'.files = DOMAIN builders'[output'.owner].artifacts
          /\ builders'[output'.owner].options \in OptionSet[output'.owner]
      BY <1>3, <2>4, <2>9, <2>12, <2>13, <3>1
    <3>3. ASSUME NEW c \in Builders \ {b}
          PROVE  /\ builders'[c].pc \notin Filling \cup After
                 /\ output'.owner # c
                 /\ builders'[c].pc \in Before => DOMAIN builders'[c].artifacts = {} /\ builders'[c].done = 0
                 /\ builders'[c].pc = "reserve" => builders'[c].options \in OptionSet[c]
      BY <2>9, <2>12, <2>14 DEF IInv, OwnerInv
    <3>4. builders'[b].pc = "load"
      BY <2>4, <2>9
    <3> QED BY <1>2, <2>12, <3>2, <3>3, <3>4 DEF OwnerInv
  <2>17. CompileInv'
    BY <2>8, <2>9 DEF IInv, CompileInv
  <2>18. ManifestInv'
    BY <2>12 DEF ManifestInv
  <2>19. RuntimeInv'
    BY <1>1, <2>10, <2>13 DEF IInv, RuntimeInv
  <2> QED BY <2>15, <2>16, <2>17, <2>18, <2>19 DEF IInv
<1>5. CASE output # NoDirectory
  <2>1. builders' = [builders EXCEPT ![b] = Fresh("failed")] /\ output' = output
    BY <1>5 DEF Reserve
  <2>2. /\ IsBuilder(Fresh("failed")) /\ Compiling(Fresh("failed"))
        /\ Fresh("failed").pc = "failed"
    BY FreshIs
  <2> QED BY <1>1, <1>2, <1>3, <2>1, <2>2, OthersKeep
<1> QED BY <1>4, <1>5

\* A step of the owner that leaves what it has compiled and written alone.
LEMMA OwnerMoves ==
    ASSUME IInv, NEW b \in Builders, builders[b].pc \in Filling \cup After, NEW pc, NEW loaded,
           LET o == builders[b] IN
             builders' = [builders EXCEPT ![b] = Builder(pc, o.options, loaded, o.done, o.artifacts)],
           pc \in Filling \cup After \cup {"failed"},
           builders[b].pc \in After => pc \in After \cup {"failed"},
           pc = "compile" => builders[b].pc = "compile",
           pc \in {"load", "catalog"} => builders[b].pc \in {"load", "catalog"},
           pc \in Indexed => builders[b].pc \in Indexed,
           NEW manifest, output' = Output(output.owner, output.files, manifest),
           pc \in Filling => manifest \in {NoManifest, Damaged},
           \/ manifest = output.manifest \/ manifest \in {NoManifest, Damaged}
           \/ LET o == builders[b] IN
                 pc \in After /\ Whole(o) /\ manifest.artifacts = o.artifacts /\ manifest.createdAt = o.options.createdAt,
           damage' = damage, runtime' = runtime, answer' = answer
    PROVE  IInv'
<1> DEFINE o == builders[b]
<1> DEFINE e == Builder(pc, o.options, loaded, o.done, o.artifacts)
<1>1. IsBuilder(o) /\ Compiling(o) /\ output.owner = b /\ DOMAIN output.files = DOMAIN o.artifacts
  BY DEF IInv, TypeInv, CompileInv, OwnerInv
<1>2. /\ e.pc = pc /\ e.options = o.options /\ e.loaded = loaded /\ e.done = o.done /\ e.artifacts = o.artifacts
      /\ e = [pc |-> e.pc, options |-> e.options, loaded |-> e.loaded, done |-> e.done, artifacts |-> e.artifacts]
  BY BuilderFields
<1>3. builders' = [builders EXCEPT ![b] = e]
  OBVIOUS
<1> HIDE DEF e
<1>4. PacketsIn(e) = PacketsIn(o)
  BY <1>2 DEF PacketsIn
<1>5. IsBuilder(e)
  BY <1>1, <1>2 DEF IsBuilder
<1>6. Whole(o) => Whole(e)
  BY <1>2, <1>4 DEF Whole
<1>7. Compiling(e)
  <2>1. e.pc \in {"load", "catalog"} => DOMAIN e.artifacts = {} /\ e.done = 0
    BY <1>1, <1>2 DEF Compiling
  <2>2. e.pc = "compile" =>
          \A path \in DOMAIN e.artifacts :
              \/ path = <<"catalog">>
              \/ \E n \in 1..e.done : path \in DOMAIN EvidenceOf(Sources(e.options)[n])
    <3> HIDE DEF o
    <3> QED BY <1>1, <1>2 DEF Compiling, o
  <2>3. e.pc \in Indexed => Whole(e)
    BY <1>1, <1>2, <1>6 DEF Compiling
  <2>4. \A p \in PacketsIn(e) : p.at <= e.options.createdAt
    BY <1>1, <1>2, <1>4 DEF Compiling
  <2> QED BY <2>1, <2>2, <2>3, <2>4 DEF Compiling
<1>8. manifest \notin {NoManifest, Damaged} => Documents(manifest, e)
  <2> SUFFICES ASSUME manifest \notin {NoManifest, Damaged} PROVE Documents(manifest, e)
    OBVIOUS
  <2>1. CASE manifest = output.manifest
    <3>1. Documents(manifest, o)
      BY <1>1, <2>1 DEF IInv, ManifestInv
    <3>2. o.pc \in After
      BY <3>1 DEF Documents, Filling, Indexed, After
    <3> QED BY <1>2, <1>6, <3>1, <3>2 DEF Documents
  <2>2. CASE /\ pc \in After /\ Whole(o) /\ manifest.artifacts = o.artifacts
             /\ manifest.createdAt = o.options.createdAt
    BY <1>2, <1>6, <2>2 DEF Documents
  <2> QED BY <2>1, <2>2
<1>9. DOMAIN output.files = DOMAIN e.artifacts /\ e.options = builders[b].options /\ e.pc \in Filling \cup After \cup {"failed"}
  BY <1>1, <1>2
<1>10. builders[b].pc \in After =>
          e.pc \in After \cup {"failed"} /\ e.done = builders[b].done /\ e.artifacts = builders[b].artifacts
  BY <1>2
<1>11. e.pc \in Filling => manifest \in {NoManifest, Damaged}
  BY <1>2
<1> HIDE DEF o
<1> QED BY <1>3, <1>5, <1>7, <1>8, <1>9, <1>10, <1>11, OwnerKeeps

LEMMA SelectedIs ==
    ASSUME IInv, NEW b \in Builders, LoadSelection(b)
    PROVE  LET o == builders[b] IN
             builders' = [builders EXCEPT ![b] = Builder("catalog", o.options, selection, o.done, o.artifacts)]
<1> DEFINE o == builders[b]
<1> DEFINE x == Builder(o.pc, o.options, selection, o.done, o.artifacts)
<1>1. builders' = [builders EXCEPT ![b] = [[o EXCEPT !.loaded = selection] EXCEPT !.pc = "catalog"]]
  BY DEF LoadSelection
<1>2. IsBuilder(o)
  BY DEF IInv, TypeInv
<1>3. [o EXCEPT !.loaded = selection] = x
  <2> HIDE DEF o
  <2> QED BY <1>2, BuilderExcept
<1>4. /\ x.pc = o.pc /\ x.options = o.options /\ x.loaded = selection /\ x.done = o.done /\ x.artifacts = o.artifacts
      /\ x = [pc |-> x.pc, options |-> x.options, loaded |-> x.loaded, done |-> x.done, artifacts |-> x.artifacts]
  BY BuilderFields
<1>5. [x EXCEPT !.pc = "catalog"] = Builder("catalog", o.options, selection, o.done, o.artifacts)
  <2> HIDE DEF x, o
  <2>1. IsBuilder(x)
    BY <1>2, <1>4 DEF IsBuilder
  <2>2. [x EXCEPT !.pc = "catalog"] = Builder("catalog", x.options, x.loaded, x.done, x.artifacts)
    BY <2>1, BuilderExcept
  <2> QED BY <1>4, <2>2
<1> QED BY <1>1, <1>3, <1>5

LEMMA LoadSelectionKeeps ==
    ASSUME IInv, NEW b \in Builders, LoadSelection(b), UNCHANGED <<runtime, answer>>
    PROVE  IInv'
<1> DEFINE o == builders[b]
<1>1. o.pc = "load" /\ damage' = damage /\ runtime' = runtime /\ answer' = answer /\ output' = output
  BY DEF LoadSelection
<1>2. output.manifest \in {NoManifest, Damaged} /\ "load" \in Filling /\ "catalog" \in Filling
  BY <1>1 DEF IInv, ManifestInv, Filling
<1>3. builders' = [builders EXCEPT ![b] = Builder("catalog", o.options, selection, o.done, o.artifacts)]
  BY SelectedIs
<1>4. output' = Output(output.owner, output.files, output.manifest)
  BY <1>1 DEF IInv, TypeInv, Output
<1>5. "catalog" \notin Indexed
  BY DEF Indexed
<1>6. "load" \notin After
  BY DEF After
<1> QED BY <1>1, <1>2, <1>3, <1>4, <1>5, <1>6, OwnerMoves

\* A step of the owner that changes its program counter and nothing else of it.
LEMMA OwnerTurns ==
    ASSUME IInv, NEW b \in Builders, builders[b].pc \in Filling \cup After, NEW pc,
           builders' = [builders EXCEPT ![b].pc = pc]
    PROVE  LET o == builders[b] IN
             builders' = [builders EXCEPT ![b] = Builder(pc, o.options, o.loaded, o.done, o.artifacts)]
<1> DEFINE o == builders[b]
<1>1. builders' = [builders EXCEPT ![b] = [o EXCEPT !.pc = pc]]
  OBVIOUS
<1>2. IsBuilder(o)
  BY DEF IInv, TypeInv
<1>3. [o EXCEPT !.pc = pc] = Builder(pc, o.options, o.loaded, o.done, o.artifacts)
  <2> HIDE DEF o
  <2> QED BY <1>2, BuilderExcept
<1> QED BY <1>1, <1>3

LEMMA StartManifestKeeps ==
    ASSUME IInv, NEW b \in Builders, StartManifest(b), UNCHANGED <<runtime, answer>>
    PROVE  IInv'
<1>1. /\ builders[b].pc = "manifest" /\ damage' = damage /\ runtime' = runtime /\ answer' = answer
      /\ output' = [output EXCEPT !.manifest = Damaged] /\ builders' = [builders EXCEPT ![b].pc = "writing"]
  BY DEF StartManifest
<1>2. "manifest" \in Indexed /\ "writing" \in Indexed /\ "manifest" \notin After
  BY DEF Indexed, After
<1>3. "manifest" \in Filling /\ "writing" \in Filling
  BY <1>2 DEF Filling
<1>4. output' = Output(output.owner, output.files, Damaged)
  BY <1>1, OutputExcept DEF IInv, TypeInv
<1>5. LET o == builders[b] IN
        builders' = [builders EXCEPT ![b] = Builder("writing", o.options, o.loaded, o.done, o.artifacts)]
  BY <1>1, <1>3, OwnerTurns
<1>6. "writing" \notin {"load", "catalog", "compile"}
  OBVIOUS
<1>7. Damaged \in {NoManifest, Damaged}
  OBVIOUS
<1>8. builders[b].pc = "manifest" /\ damage' = damage /\ runtime' = runtime /\ answer' = answer
  BY <1>1
<1> QED BY <1>2, <1>3, <1>4, <1>5, <1>6, <1>7, <1>8, OwnerMoves

LEMMA WriteManifestKeeps ==
    ASSUME IInv, NEW b \in Builders, WriteManifest(b), UNCHANGED <<runtime, answer>>
    PROVE  IInv'
<1>1. /\ builders[b].pc = "writing" /\ damage' = damage /\ runtime' = runtime /\ answer' = answer
      /\ output' = [output EXCEPT !.manifest = ManifestOf(b)] /\ builders' = [builders EXCEPT ![b].pc = "verify"]
  BY DEF WriteManifest
<1>2. "writing" \in Indexed /\ "verify" \in After /\ "writing" \notin After /\ "verify" \notin Indexed
  BY DEF Indexed, After
<1>3. "writing" \in Filling /\ "verify" \notin Filling
  BY <1>2 DEF Filling
<1>4. output' = Output(output.owner, output.files, ManifestOf(b))
  BY <1>1, OutputExcept DEF IInv, TypeInv
<1>5. LET o == builders[b] IN
        builders' = [builders EXCEPT ![b] = Builder("verify", o.options, o.loaded, o.done, o.artifacts)]
  BY <1>1, <1>3, OwnerTurns
<1>6. ManifestOf(b).artifacts = builders[b].artifacts /\ ManifestOf(b).createdAt = builders[b].options.createdAt
  BY DEF ManifestOf
<1>7. Whole(builders[b])
  BY <1>1, <1>2 DEF IInv, CompileInv, Compiling
<1> QED BY <1>1, <1>2, <1>3, <1>4, <1>5, <1>6, <1>7, OwnerMoves

LEMMA VerifyBuiltKeeps ==
    ASSUME IInv, NEW b \in Builders, VerifyBuilt(b), UNCHANGED <<runtime, answer>>
    PROVE  IInv'
<1> DEFINE pc == IF Verifies(output) /\ output.manifest = ManifestOf(b) THEN "built" ELSE "failed"
<1>1. /\ builders[b].pc = "verify" /\ damage' = damage /\ runtime' = runtime /\ answer' = answer
      /\ output' = output /\ builders' = [builders EXCEPT ![b].pc = pc]
  BY DEF VerifyBuilt
<1>2. pc \in {"built", "failed"}
  OBVIOUS
<1> HIDE DEF pc
<1>3. /\ pc \in After \cup {"failed"} /\ pc \notin Filling /\ pc \notin Indexed /\ "verify" \in After
      /\ pc \notin {"load", "catalog", "compile"}
  BY <1>2 DEF Filling, Indexed, After
<1>4. output' = Output(output.owner, output.files, output.manifest)
  BY <1>1 DEF IInv, TypeInv, Output
<1>5. LET o == builders[b] IN
        builders' = [builders EXCEPT ![b] = Builder(pc, o.options, o.loaded, o.done, o.artifacts)]
  BY <1>1, <1>3, OwnerTurns
<1> QED BY <1>1, <1>3, <1>4, <1>5, OwnerMoves

LEMMA FailKeeps ==
    ASSUME IInv, NEW b \in Builders, builders[b].pc \in Filling \cup After,
           builders' = [builders EXCEPT ![b].pc = "failed"], UNCHANGED <<output, damage, runtime, answer>>
    PROVE  IInv'
<1>1. "failed" \notin Filling /\ "failed" \notin Indexed
  BY DEF Filling, Indexed
<1>2. output' = Output(output.owner, output.files, output.manifest)
  BY DEF IInv, TypeInv, Output
<1>3. LET o == builders[b] IN
        builders' = [builders EXCEPT ![b] = Builder("failed", o.options, o.loaded, o.done, o.artifacts)]
  BY OwnerTurns
<1> QED BY <1>1, <1>2, <1>3, OwnerMoves

LEMMA StopKeeps ==
    ASSUME IInv, NEW b \in Builders, Stop(b), UNCHANGED <<runtime, answer>>
    PROVE  IInv'
<1>1. /\ builders[b].pc \notin {"idle", "built", "failed"} /\ UNCHANGED <<output, damage>>
      /\ builders' = [builders EXCEPT ![b].pc = "failed"]
  BY DEF Stop
<1>2. IsBuilder(builders[b])
  BY DEF IInv, TypeInv
<1>3. CASE builders[b].pc \in Filling \cup After
  BY <1>1, <1>3, FailKeeps
<1>4. CASE builders[b].pc \notin Filling \cup After
  <2> DEFINE o == builders[b]
  <2> DEFINE e == Builder("failed", o.options, o.loaded, o.done, o.artifacts)
  <2>1. builders[b].pc = "reserve"
    BY <1>1, <1>2, <1>4 DEF IsBuilder, Before
  <2>2. "reserve" \in Before /\ "failed" \notin Before
    BY DEF Before
  <2>3. output.owner # b /\ Compiling(o)
    BY <2>1, <2>2 DEF IInv, OwnerInv, CompileInv
  <2>4. builders' = [builders EXCEPT ![b] = [o EXCEPT !.pc = "failed"]]
    BY <1>1
  <2>5. [o EXCEPT !.pc = "failed"] = e
    <3> HIDE DEF o
    <3> QED BY <1>2, BuilderExcept DEF o
  <2>6. /\ e.pc = "failed" /\ e.options = o.options /\ e.loaded = o.loaded /\ e.done = o.done /\ e.artifacts = o.artifacts
        /\ e = [pc |-> e.pc, options |-> e.options, loaded |-> e.loaded, done |-> e.done, artifacts |-> e.artifacts]
    BY BuilderFields
  <2>7. builders' = [builders EXCEPT ![b] = e]
    BY <2>4, <2>5
  <2> HIDE DEF e
  <2>8. IsBuilder(e)
    BY <1>2, <2>6 DEF IsBuilder
  <2>9. Compiling(e)
    <3>1. PacketsIn(e) = PacketsIn(o)
      BY <2>6 DEF PacketsIn
    <3> QED BY <2>3, <2>6, <3>1 DEF Compiling, Indexed
  <2> QED BY <1>1, <2>2, <2>3, <2>6, <2>7, <2>8, <2>9, OthersKeep
<1> QED BY <1>3, <1>4

\* A step that writes artifacts.
LEMMA WrittenIs ==
    ASSUME IInv, NEW b \in Builders, NEW artifacts, NEW next, Write(b, artifacts, next)
    PROVE  LET o == builders[b] IN
           /\ builders' = [builders EXCEPT ![b] =
                             Builder(next, o.options, o.loaded, o.done, With(artifacts, o.artifacts))]
           /\ DOMAIN artifacts \cap DOMAIN o.artifacts = {}
<1> DEFINE o == builders[b]
<1> DEFINE more == With(artifacts, o.artifacts)
<1> DEFINE x == Builder(o.pc, o.options, o.loaded, o.done, more)
<1> DEFINE e == Builder(next, o.options, o.loaded, o.done, more)
<1>1. /\ builders' = [builders EXCEPT ![b].artifacts = With(artifacts, @), ![b].pc = next]
      /\ DOMAIN artifacts \cap DOMAIN o.artifacts = {}
  BY DEF Write
<1>2. IsBuilder(o)
  BY DEF IInv, TypeInv
<1>3. builders' = [builders EXCEPT ![b] = [[o EXCEPT !.artifacts = more] EXCEPT !.pc = next]]
  BY <1>1
<1>4. [o EXCEPT !.artifacts = more] = x
  <2> HIDE DEF o, more
  <2> QED BY <1>2, BuilderExcept
<1>5. /\ x.pc = o.pc /\ x.options = o.options /\ x.loaded = o.loaded /\ x.done = o.done /\ x.artifacts = more
      /\ x = [pc |-> x.pc, options |-> x.options, loaded |-> x.loaded, done |-> x.done, artifacts |-> x.artifacts]
  BY BuilderFields
<1>6. [x EXCEPT !.pc = next] = e
  <2> HIDE DEF x, o, more
  <2>1. IsBuilder(x)
    BY <1>2, <1>5 DEF IsBuilder
  <2>2. [x EXCEPT !.pc = next] = Builder(next, x.options, x.loaded, x.done, x.artifacts)
    BY <2>1, BuilderExcept
  <2> QED BY <1>5, <2>2
<1> QED BY <1>1, <1>3, <1>4, <1>6

LEMMA WriteKeeps ==
    ASSUME IInv, NEW b \in Builders, builders[b].pc \in Filling, NEW artifacts, NEW next \in Filling,
           Write(b, artifacts, next), UNCHANGED <<runtime, answer>>,
           LET o == builders[b] IN Compiling(Builder(next, o.options, o.loaded, o.done, With(artifacts, o.artifacts)))
    PROVE  IInv'
<1> DEFINE o == builders[b]
<1> DEFINE more == With(artifacts, o.artifacts)
<1> DEFINE e == Builder(next, o.options, o.loaded, o.done, more)
<1>1. output' = [output EXCEPT !.files = With(artifacts, @)]
  BY DEF Write
<1>2. damage' = damage /\ runtime' = runtime /\ answer' = answer
  BY DEF Write
<1>3. IsBuilder(o) /\ output.owner = b /\ DOMAIN output.files = DOMAIN o.artifacts /\ output.manifest \in {NoManifest, Damaged}
  BY DEF IInv, TypeInv, OwnerInv, ManifestInv
<1>4. /\ e.pc = next /\ e.options = o.options /\ e.loaded = o.loaded /\ e.done = o.done /\ e.artifacts = more
      /\ e = [pc |-> e.pc, options |-> e.options, loaded |-> e.loaded, done |-> e.done, artifacts |-> e.artifacts]
  BY BuilderFields
<1>5. builders' = [builders EXCEPT ![b] = e]
  BY WrittenIs
<1>6. output' = Output(output.owner, With(artifacts, output.files), output.manifest)
  <2>1. output' = [output EXCEPT !.files = With(artifacts, output.files)]
    BY <1>1
  <2> QED BY <2>1, OutputExcept DEF IInv, TypeInv
<1>7. DOMAIN With(artifacts, output.files) = DOMAIN e.artifacts
  <2>1. DOMAIN With(artifacts, output.files) = DOMAIN artifacts \cup DOMAIN output.files
    BY WithIs
  <2>2. DOMAIN more = DOMAIN artifacts \cup DOMAIN o.artifacts
    BY WithIs
  <2> HIDE DEF e, more, o
  <2> QED BY <1>3, <1>4, <2>1, <2>2
<1>8. Compiling(e)
  OBVIOUS
<1> HIDE DEF e
<1>9. IsBuilder(e)
  BY <1>3, <1>4 DEF IsBuilder
<1>10. /\ e.options = builders[b].options /\ e.pc \in Filling \cup After \cup {"failed"}
       /\ builders[b].pc \in Filling \cup After /\ builders[b].pc \notin After
  BY <1>4 DEF Filling, Indexed, After
<1> HIDE DEF o, more
<1> QED BY <1>2, <1>3, <1>5, <1>6, <1>7, <1>8, <1>9, <1>10, OwnerKeeps

LEMMA AddCatalogKeeps ==
    ASSUME IInv, NEW b \in Builders, AddCatalog(b), UNCHANGED <<runtime, answer>>
    PROVE  IInv'
<1> DEFINE o == builders[b]
<1> DEFINE new == At(<<"catalog">>, selection)
<1> DEFINE e == Builder("compile", o.options, o.loaded, o.done, With(new, o.artifacts))
<1>1. o.pc = "catalog" /\ Write(b, new, "compile")
  BY DEF AddCatalog
<1>2. "catalog" \in Filling /\ "compile" \in Filling /\ "compile" \notin Indexed
  BY DEF Filling, Indexed
<1>3. Compiling(o)
  BY DEF IInv, CompileInv
<1>4. /\ e.pc = "compile" /\ e.options = o.options /\ e.done = o.done /\ e.artifacts = With(new, o.artifacts)
  BY BuilderFields
<1>5. DOMAIN With(new, o.artifacts) = {<<"catalog">>}
  <2>1. DOMAIN o.artifacts = {} /\ DOMAIN new = {<<"catalog">>}
    BY <1>1, <1>3 DEF Compiling, At
  <2> HIDE DEF new, o
  <2>2. DOMAIN With(new, o.artifacts) = DOMAIN new \cup DOMAIN o.artifacts
    BY WithIs
  <2> QED BY <2>1, <2>2
<1> HIDE DEF e, new
<1>6. PacketsIn(e) = PacketsIn(o)
  BY <1>4 DEF PacketsIn
<1>7. Compiling(e)
  <2>1. \A path \in DOMAIN e.artifacts : path = <<"catalog">>
    BY <1>4, <1>5
  <2> HIDE DEF o
  <2> QED BY <1>2, <1>3, <1>4, <1>6, <2>1 DEF Compiling
<1> QED BY <1>1, <1>2, <1>7, WriteKeeps DEF e

\* Once the segments are there, what is added are other files.
LEMMA IndexKeeps ==
    ASSUME IInv, NEW b \in Builders, builders[b].pc \in Indexed, NEW artifacts, NEW next \in Indexed,
           \A path \in DOMAIN artifacts : path[1] # "packets",
           Write(b, artifacts, next), UNCHANGED <<runtime, answer>>
    PROVE  IInv'
<1> DEFINE o == builders[b]
<1> DEFINE e == Builder(next, o.options, o.loaded, o.done, With(artifacts, o.artifacts))
<1>1. Indexed \subseteq Filling /\ next \notin {"load", "catalog", "compile"}
  BY DEF Filling, Indexed
<1>2. Compiling(o) /\ Whole(o)
  BY DEF IInv, CompileInv, Compiling
<1>3. /\ e.pc = next /\ e.options = o.options /\ e.done = o.done /\ e.artifacts = With(artifacts, o.artifacts)
  BY BuilderFields
<1> HIDE DEF e
<1>4. PacketsIn(e) = PacketsIn(o)
  BY <1>3 DEF PacketsIn
<1>5. Cores("packets", e.artifacts) = Cores("packets", o.artifacts)
  <2> HIDE DEF o
  <2> QED BY <1>3, CoresKept
<1>6. Whole(e)
  BY <1>2, <1>3, <1>4, <1>5 DEF Whole
<1>7. Compiling(e)
  BY <1>1, <1>2, <1>3, <1>4, <1>6 DEF Compiling
<1> QED BY <1>1, <1>7, WriteKeeps DEF e

LEMMA CutRoles ==
    ASSUME NEW role, NEW s
    PROVE  \A path \in DOMAIN Cut(role, s) : path[1] = role
BY DEF Cut

LEMMA AtIs ==
    ASSUME NEW path, NEW contents
    PROVE  DOMAIN At(path, contents) = {path}
BY DEF At

LEMMA AddSegmentsKeeps ==
    ASSUME IInv, NEW b \in Builders, AddSegments(b), UNCHANGED <<runtime, answer>>
    PROVE  IInv'
<1> DEFINE o == builders[b]
<1> DEFINE packets == Cut("packets", Entries(Packets(b)))
<1> DEFINE deltas == Cut("deltas", Entries(Deltas(b)))
<1> DEFINE new == With(packets, deltas)
<1> DEFINE e == Builder("canon", o.options, o.loaded, o.done, With(new, o.artifacts))
<1>1. o.pc = "compile" /\ o.done = Len(Sources(o.options)) /\ Write(b, new, "canon")
  BY DEF AddSegments
<1>2. "compile" \in Filling /\ "canon" \in Filling
  BY DEF Filling, Indexed
<1>3. Compiling(o) /\ IsBuilder(o) /\ o.options \in OptionSet[b]
  BY <1>1, <1>2 DEF IInv, TypeInv, CompileInv, OwnerInv
<1>4. /\ e.pc = "canon" /\ e.options = o.options /\ e.done = o.done /\ e.artifacts = With(new, o.artifacts)
  BY BuilderFields
<1>5. Packets(b) = PacketsIn(o)
  BY PacketsAre
<1>6. Cores("packets", packets) = PacketsIn(o)
  <2>1. /\ IsFiniteSet(PacketsIn(o))
        /\ \A p, q \in PacketsIn(o) : Rank(p) \in Nat /\ (Rank(p) = Rank(q) => p = q)
    <3> HIDE DEF o
    <3> QED BY <1>3, PacketsRanked
  <2> HIDE DEF o
  <2>2. Cores("packets", Cut("packets", Entries(PacketsIn(o)))) = PacketsIn(o)
    BY <2>1, CoresOfCut
  <2> QED BY <1>5, <2>2
<1>7. Cores("packets", new) = PacketsIn(o)
  <2>1. \A path \in DOMAIN deltas : path[1] = "deltas"
    BY CutRoles
  <2>2. \A path \in DOMAIN deltas : path[1] # "packets"
    BY <2>1
  <2> HIDE DEF packets, deltas
  <2> QED BY <1>6, <2>2, CoresNew
<1>8. \A path \in DOMAIN o.artifacts : path[1] # "packets"
  <2> SUFFICES ASSUME NEW path \in DOMAIN o.artifacts PROVE path[1] # "packets"
    OBVIOUS
  <2>1. path = <<"catalog">> \/ \E n \in 1..o.done : path \in DOMAIN EvidenceOf(Sources(o.options)[n])
    <3> HIDE DEF o
    <3> QED BY <1>1, <1>3 DEF Compiling
  <2>2. ASSUME NEW n \in 1..o.done, path \in DOMAIN EvidenceOf(Sources(o.options)[n]) PROVE path[1] \in Evidence
    <3>1. Sensible(o.options) /\ n \in 1..Len(Sources(o.options))
      BY <1>1, <1>3 DEF IsBuilder
    <3> HIDE DEF o
    <3> QED BY <2>2, <3>1, EvidenceRoles
  <2> QED BY <2>1, <2>2 DEF Evidence
<1>9. Cores("packets", With(new, o.artifacts)) = PacketsIn(o)
  <2> HIDE DEF new, o
  <2> QED BY <1>7, <1>8, CoresNew
<1> HIDE DEF e, new, packets, deltas
<1>10. PacketsIn(e) = PacketsIn(o)
  BY <1>4 DEF PacketsIn
<1>11. Whole(e)
  BY <1>1, <1>4, <1>9, <1>10 DEF Whole
<1>12. Compiling(e)
  BY <1>3, <1>4, <1>10, <1>11 DEF Compiling
<1> QED BY <1>1, <1>2, <1>12, WriteKeeps DEF e

LEMMA AddCanonKeeps ==
    ASSUME IInv, NEW b \in Builders, AddCanon(b), UNCHANGED <<runtime, answer>>
    PROVE  IInv'
<1> DEFINE concepts == At(<<"concepts">>, Concepts(b))
<1> DEFINE mappings == At(<<"mappings">>, Mappings(b))
<1> DEFINE new == With(concepts, mappings)
<1>1. builders[b].pc = "canon" /\ Write(b, new, "proofs")
  BY DEF AddCanon
<1>2. "canon" \in Indexed /\ "proofs" \in Indexed
  BY DEF Indexed
<1>3. DOMAIN concepts = {<<"concepts">>} /\ DOMAIN mappings = {<<"mappings">>}
  BY AtIs
<1> HIDE DEF concepts, mappings
<1>4. DOMAIN new = {<<"concepts">>, <<"mappings">>}
  <2>1. DOMAIN new = DOMAIN concepts \cup DOMAIN mappings
    BY WithIs
  <2> QED BY <1>3, <2>1
<1>5. \A path \in DOMAIN new : path[1] # "packets"
  BY <1>4
<1> HIDE DEF new
<1> QED BY <1>1, <1>2, <1>5, IndexKeeps

LEMMA AddProofIndexesKeeps ==
    ASSUME IInv, NEW b \in Builders, AddProofIndexes(b), UNCHANGED <<runtime, answer>>
    PROVE  IInv'
<1> DEFINE order == Sorted(Packets(b))
<1> DEFINE proofs == [n \in DOMAIN order |-> CHOOSE proof \in Proofs(b) : proof.packet = order[n]]
<1> DEFINE new == Cut("index", proofs)
<1>1. builders[b].pc = "proofs" /\ Write(b, new, "views")
  BY DEF AddProofIndexes
<1>2. "proofs" \in Indexed /\ "views" \in Indexed
  BY DEF Indexed
<1> HIDE DEF proofs
<1>3. \A path \in DOMAIN new : path[1] = "index"
  BY CutRoles
<1>4. \A path \in DOMAIN new : path[1] # "packets"
  BY <1>3
<1> HIDE DEF new
<1> QED BY <1>1, <1>2, <1>4, IndexKeeps

LEMMA AddViewsKeeps ==
    ASSUME IInv, NEW b \in Builders, AddViews(b), UNCHANGED <<runtime, answer>>
    PROVE  IInv'
<1> DEFINE new == [path \in {<<"view", view.id>> : view \in Views(b)} |->
                      CHOOSE view \in Views(b) : view.id = path[2]]
<1>1. builders[b].pc = "views" /\ Write(b, new, "report")
  BY DEF AddViews
<1>2. "views" \in Indexed /\ "report" \in Indexed
  BY DEF Indexed
<1>3. \A path \in DOMAIN new : path[1] # "packets"
  OBVIOUS
<1> HIDE DEF new
<1> QED BY <1>1, <1>2, <1>3, IndexKeeps

LEMMA AddReportKeeps ==
    ASSUME IInv, NEW b \in Builders, AddReport(b), UNCHANGED <<runtime, answer>>
    PROVE  IInv'
<1> DEFINE new == At(<<"report">>, Report(b))
<1>1. builders[b].pc = "report" /\ Write(b, new, "manifest")
  BY DEF AddReport
<1>2. "report" \in Indexed /\ "manifest" \in Indexed
  BY DEF Indexed
<1>3. DOMAIN new = {<<"report">>}
  BY AtIs
<1>4. \A path \in DOMAIN new : path[1] # "packets"
  BY <1>3
<1> HIDE DEF new
<1> QED BY <1>1, <1>2, <1>4, IndexKeeps

\* A step that compiles the next source.
Passes(e) ==
    LET source == Sources(e.options)[e.done + 1] IN
    /\ InTime(source, e.options.createdAt)
    /\ source.kind = "scale" => source.of.fields <= MaxBody
    /\ PacketsOf(source) \cap PacketsIn(e) = {}

LEMMA CompiledIs ==
    ASSUME IInv, NEW b \in Builders, Compile(b), Passes(builders[b])
    PROVE  LET o == builders[b]
               new == EvidenceOf(Sources(o.options)[o.done + 1])
           IN  /\ builders' = [builders EXCEPT ![b] =
                                 Builder(o.pc, o.options, o.loaded, o.done + 1, With(new, o.artifacts))]
               /\ output' = Output(output.owner, With(new, output.files), output.manifest)
               /\ Len(Sources(o.options)) \in Nat /\ o.done \in Nat /\ o.done + 1 \in 1..Len(Sources(o.options))
               /\ 1..(o.done + 1) = (1..o.done) \cup {o.done + 1}
<1> DEFINE o == builders[b]
<1> DEFINE sources == Sources(o.options)
<1> DEFINE source == sources[o.done + 1]
<1> DEFINE new == EvidenceOf(source)
<1> DEFINE more == With(new, o.artifacts)
<1> DEFINE x == Builder(o.pc, o.options, o.loaded, o.done + 1, o.artifacts)
<1> DEFINE e == Builder(o.pc, o.options, o.loaded, o.done + 1, more)
<1>1. Packets(b) = PacketsIn(o)
  BY PacketsAre
<1>2. /\ builders' = [builders EXCEPT ![b].done = @ + 1, ![b].artifacts = With(new, @)]
      /\ output' = [output EXCEPT !.files = With(new, @)]
      /\ o.done < Len(sources)
  <2> HIDE DEF new
  <2> QED BY <1>1 DEF Compile, Passes, new
<1>3. IsBuilder(o)
  BY DEF IInv, TypeInv
<1>4. builders' = [builders EXCEPT ![b] = [[o EXCEPT !.done = o.done + 1] EXCEPT !.artifacts = more]]
  <2> HIDE DEF new
  <2> QED BY <1>2
<1>5. [o EXCEPT !.done = o.done + 1] = x
  <2> HIDE DEF o
  <2> QED BY <1>3, BuilderExcept
<1>6. /\ x.pc = o.pc /\ x.options = o.options /\ x.loaded = o.loaded /\ x.done = o.done + 1 /\ x.artifacts = o.artifacts
      /\ x = [pc |-> x.pc, options |-> x.options, loaded |-> x.loaded, done |-> x.done, artifacts |-> x.artifacts]
  BY BuilderFields
<1>7. /\ Len(sources) \in Nat /\ o.done \in Nat /\ o.done + 1 \in 1..Len(sources) /\ o.done + 1 \in 0..Len(sources)
      /\ 1..(o.done + 1) = (1..o.done) \cup {o.done + 1}
  <2>1. Len(sources) \in Nat /\ o.done \in 0..Len(sources)
    BY <1>3, SourcesAre DEF IsBuilder
  <2> HIDE DEF sources, o
  <2> QED BY <1>2, <2>1 DEF sources
<1>8. [x EXCEPT !.artifacts = more] = e
  <2> HIDE DEF x, o, more, sources
  <2>1. IsBuilder(x)
    BY <1>3, <1>6, <1>7 DEF IsBuilder, sources
  <2>2. [x EXCEPT !.artifacts = more] = Builder(x.pc, x.options, x.loaded, x.done, more)
    BY <2>1, BuilderExcept
  <2> QED BY <1>6, <2>2
<1>9. builders' = [builders EXCEPT ![b] = e]
  BY <1>4, <1>5, <1>8
<1> HIDE DEF new
<1>10. output' = Output(output.owner, With(new, output.files), output.manifest)
  <2>1. output' = [output EXCEPT !.files = With(new, output.files)]
    BY <1>2
  <2> QED BY <2>1, OutputExcept DEF IInv, TypeInv
<1> QED BY <1>7, <1>9, <1>10 DEF new

LEMMA CompileKeeps ==
    ASSUME IInv, NEW b \in Builders, Compile(b), UNCHANGED <<runtime, answer>>
    PROVE  IInv'
<1> DEFINE o == builders[b]
<1> DEFINE sources == Sources(o.options)
<1> DEFINE source == sources[o.done + 1]
<1> DEFINE passes == /\ InTime(source, o.options.createdAt)
                     /\ source.kind = "scale" => source.of.fields <= MaxBody
                     /\ PacketsOf(source) \cap Packets(b) = {}
<1> DEFINE new == EvidenceOf(source)
<1>1. o.pc = "compile" /\ o.done < Len(sources) /\ damage' = damage /\ runtime' = runtime /\ answer' = answer
  BY DEF Compile
<1>2. "compile" \in Filling /\ "compile" \notin After
  BY DEF Filling, After
<1>3. CASE passes
  <2> DEFINE more == With(new, o.artifacts)
  <2> DEFINE e == Builder(o.pc, o.options, o.loaded, o.done + 1, more)
  <2>1. Packets(b) = PacketsIn(o)
    BY PacketsAre
  <2>2. Compiling(o) /\ IsBuilder(o) /\ DOMAIN output.files = DOMAIN o.artifacts /\ output.manifest \in {NoManifest, Damaged}
    BY <1>1, <1>2 DEF IInv, TypeInv, CompileInv, OwnerInv, ManifestInv
  <2>3. Passes(o)
    BY <1>3, <2>1 DEF Passes
  <2>4. /\ e.pc = o.pc /\ e.options = o.options /\ e.loaded = o.loaded /\ e.done = o.done + 1 /\ e.artifacts = more
        /\ e = [pc |-> e.pc, options |-> e.options, loaded |-> e.loaded, done |-> e.done, artifacts |-> e.artifacts]
    <3> HIDE DEF more
    <3> QED BY BuilderFields
  <2>5. /\ Len(sources) \in Nat /\ o.done \in Nat /\ o.done + 1 \in 1..Len(sources)
        /\ 1..(o.done + 1) = (1..o.done) \cup {o.done + 1}
    BY <2>3, CompiledIs
  <2>6. o.done + 1 \in 0..Len(sources)
    <3> HIDE DEF sources, o
    <3> QED BY <2>5
  <2>7. builders' = [builders EXCEPT ![b] = e]
    BY <2>3, CompiledIs
  <2>8. output' = Output(output.owner, With(new, output.files), output.manifest)
    BY <2>3, CompiledIs
  <2> HIDE DEF new
  <2>9. DOMAIN With(new, output.files) = DOMAIN e.artifacts /\ DOMAIN e.artifacts = DOMAIN new \cup DOMAIN o.artifacts
    <3>1. DOMAIN With(new, output.files) = DOMAIN new \cup DOMAIN output.files
      BY WithIs
    <3>2. DOMAIN more = DOMAIN new \cup DOMAIN o.artifacts
      BY WithIs
    <3> HIDE DEF e, more, o
    <3> QED BY <2>2, <2>4, <3>1, <3>2
  <2> HIDE DEF e, more
  <2>10. IsBuilder(e)
    BY <2>2, <2>4, <2>6 DEF IsBuilder
  <2>11. PacketsIn(e) = PacketsIn(o) \cup PacketsOf(source)
    <3>1. PacketsIn(e) = UNION {PacketsOf(sources[n]) : n \in 1..(o.done + 1)}
      BY <2>4 DEF PacketsIn
    <3>2. PacketsIn(o) = UNION {PacketsOf(sources[n]) : n \in 1..o.done}
      BY DEF PacketsIn
    <3> HIDE DEF sources, o
    <3> QED BY <2>5, <3>1, <3>2
  <2>12. \A p \in PacketsIn(e) : p.at <= e.options.createdAt
    <3>1. \A p \in PacketsIn(o) : p.at <= o.options.createdAt
      BY <2>2 DEF Compiling
    <3>2. \A p \in PacketsOf(source) : p.at <= o.options.createdAt
      BY <1>3 DEF InTime
    <3> HIDE DEF source, o
    <3> QED BY <2>4, <2>11, <3>1, <3>2
  <2>13. \A path \in DOMAIN e.artifacts :
            \/ path = <<"catalog">>
            \/ \E n \in 1..e.done : path \in DOMAIN EvidenceOf(Sources(e.options)[n])
    <3> SUFFICES ASSUME NEW path \in DOMAIN e.artifacts
                 PROVE  path = <<"catalog">> \/ \E n \in 1..e.done : path \in DOMAIN EvidenceOf(Sources(e.options)[n])
      OBVIOUS
    <3>1. CASE path \in DOMAIN new
      <4>1. path \in DOMAIN EvidenceOf(Sources(e.options)[e.done]) /\ e.done \in 1..e.done
        BY <2>4, <2>5, <3>1 DEF new
      <4> QED BY <4>1
    <3>2. CASE path \in DOMAIN o.artifacts
      <4>1. path = <<"catalog">> \/ \E n \in 1..o.done : path \in DOMAIN EvidenceOf(Sources(o.options)[n])
        <5> HIDE DEF o
        <5> QED BY <1>1, <2>2, <3>2 DEF Compiling
      <4>2. 1..o.done \subseteq 1..e.done
        BY <2>4, <2>5
      <4> HIDE DEF o
      <4> QED BY <2>4, <4>1, <4>2
    <3> QED BY <2>9, <3>1, <3>2
  <2>14. Compiling(e)
    <3>1. "compile" \notin {"load", "catalog"} /\ "compile" \notin Indexed
      BY DEF Indexed
    <3> QED BY <1>1, <2>4, <2>12, <2>13, <3>1 DEF Compiling
  <2>15. /\ e.options = builders[b].options /\ e.pc \in Filling \cup After \cup {"failed"}
         /\ builders[b].pc \in Filling \cup After /\ builders[b].pc \notin After
    BY <1>1, <1>2, <2>4
  <2> HIDE DEF o, sources
  <2> QED BY <1>1, <2>2, <2>7, <2>8, <2>9, <2>10, <2>14, <2>15, OwnerKeeps
<1>4. CASE ~passes
  <2>1. builders' = [builders EXCEPT ![b].pc = "failed"] /\ output' = output
    BY <1>4 DEF Compile
  <2> HIDE DEF passes, sources, source, new
  <2> QED BY <1>1, <1>2, <2>1, FailKeeps
<1> QED BY <1>3, <1>4

\* A step of a build.
LEMMA BuildKeeps ==
    ASSUME IInv, NEW b \in Builders, BuildStep(b), UNCHANGED <<runtime, answer>>
    PROVE  IInv'
<1>1. CASE Begin(b)            BY <1>1, BeginKeeps
<1>2. CASE Reserve(b)          BY <1>2, ReserveKeeps
<1>3. CASE LoadSelection(b)    BY <1>3, LoadSelectionKeeps
<1>4. CASE AddCatalog(b)       BY <1>4, AddCatalogKeeps
<1>5. CASE Compile(b)          BY <1>5, CompileKeeps
<1>6. CASE AddSegments(b)      BY <1>6, AddSegmentsKeeps
<1>7. CASE AddCanon(b)         BY <1>7, AddCanonKeeps
<1>8. CASE AddProofIndexes(b)  BY <1>8, AddProofIndexesKeeps
<1>9. CASE AddViews(b)         BY <1>9, AddViewsKeeps
<1>10. CASE AddReport(b)       BY <1>10, AddReportKeeps
<1>11. CASE StartManifest(b)   BY <1>11, StartManifestKeeps
<1>12. CASE WriteManifest(b)   BY <1>12, WriteManifestKeeps
<1>13. CASE VerifyBuilt(b)     BY <1>13, VerifyBuiltKeeps
<1>14. CASE Stop(b)            BY <1>14, StopKeeps
<1> QED
  BY <1>1, <1>2, <1>3, <1>4, <1>5, <1>6, <1>7, <1>8, <1>9, <1>10, <1>11, <1>12, <1>13, <1>14 DEF BuildStep

(***************************************************************************)
(* The steps around the builds, and those of the runtime.                  *)
(***************************************************************************)
\* Damage changes bytes and the set of the files not.
LEMMA BesideKeeps ==
    ASSUME IInv, builders' = builders, runtime' = runtime, answer' = answer, damage' \in Nat,
           NEW files, NEW manifest, output' = Output(output.owner, files, manifest),
           DOMAIN files = DOMAIN output.files,
           manifest = output.manifest \/ (output.manifest # NoManifest /\ manifest = Damaged)
    PROVE  IInv'
<1>1. /\ output'.owner = output.owner /\ DOMAIN output'.files = DOMAIN output.files /\ output'.manifest = manifest
      /\ output' = [owner |-> output'.owner, files |-> output'.files, manifest |-> output'.manifest]
  BY OutputFields
<1>2. TypeInv'
  BY <1>1 DEF IInv, TypeInv
<1>3. OwnerInv'
  BY <1>1 DEF IInv, OwnerInv
<1>4. CompileInv'
  BY DEF IInv, CompileInv
<1>5. ManifestInv'
  <2>1. CASE manifest = output.manifest
    BY <1>1, <2>1 DEF IInv, ManifestInv
  <2>2. CASE manifest = Damaged
    BY <1>1, <2>2 DEF IInv, ManifestInv
  <2> QED BY <2>1, <2>2
<1>6. RuntimeInv'
  BY <1>1 DEF IInv, RuntimeInv
<1> QED BY <1>2, <1>3, <1>4, <1>5, <1>6 DEF IInv

LEMMA DamageKeeps ==
    ASSUME IInv, Damage, UNCHANGED <<runtime, answer>>
    PROVE  IInv'
<1>1. builders' = builders /\ runtime' = runtime /\ answer' = answer /\ damage' \in Nat
  BY DEF Damage, IInv, TypeInv
<1>2. ASSUME NEW path \in DOMAIN output.files, output' = [output EXCEPT !.files[path] = Damaged] PROVE IInv'
  <2> DEFINE files == [output.files EXCEPT ![path] = Damaged]
  <2>1. output' = [output EXCEPT !.files = files]
    BY <1>2
  <2>2. DOMAIN files = DOMAIN output.files
    OBVIOUS
  <2> HIDE DEF files
  <2>3. output' = Output(output.owner, files, output.manifest)
    BY <2>1, OutputExcept DEF IInv, TypeInv
  <2> QED BY <1>1, <2>2, <2>3, BesideKeeps
<1>3. ASSUME output.manifest # NoManifest, output' = [output EXCEPT !.manifest = Damaged] PROVE IInv'
  <2>1. output' = Output(output.owner, output.files, Damaged)
    BY <1>3, OutputExcept DEF IInv, TypeInv
  <2>2. output.manifest # NoManifest
    BY <1>3
  <2> QED BY <1>1, <2>1, <2>2, BesideKeeps
<1> QED BY <1>2, <1>3 DEF Damage

LEMMA EditKeeps ==
    ASSUME IInv, EditSelection, UNCHANGED <<runtime, answer>>
    PROVE  IInv'
<1>1. builders' = builders /\ runtime' = runtime /\ answer' = answer /\ damage' \in Nat /\ output' = output
  BY DEF EditSelection, IInv, TypeInv
<1>2. output' = Output(output.owner, output.files, output.manifest)
  BY <1>1 DEF IInv, TypeInv, Output
<1> QED BY <1>1, <1>2, BesideKeeps

\* A step of the runtime leaves the directory and the builds alone.
LEMMA RuntimeKeeps ==
    ASSUME IInv, UNCHANGED buildVars, RuntimeInv',
           runtime' # NoRuntime => runtime' = [stage |-> runtime'.stage, fixtures |-> runtime'.fixtures,
                                               manifest |-> runtime'.manifest, packets |-> runtime'.packets]
    PROVE  IInv'
<1>1. builders' = builders /\ output' = output /\ damage' = damage
  BY DEF buildVars
<1> QED BY <1>1 DEF IInv, TypeInv, OwnerInv, CompileInv, ManifestInv

LEMMA VerifyOpeningKeeps ==
    ASSUME IInv, VerifyOpening
    PROVE  IInv'
<1>1. PICK fixtures \in BOOLEAN :
          runtime' = [stage |-> "verified", fixtures |-> fixtures, manifest |-> output.manifest, packets |-> <<>>]
  BY DEF VerifyOpening
<1>2. /\ UNCHANGED buildVars /\ builders' = builders /\ output' = output /\ answer' = answer
      /\ runtime = NoRuntime /\ Verifies(output)
  BY DEF VerifyOpening, buildVars
<1>3. output.manifest \notin {NoManifest, Damaged}
  BY <1>2 DEF Verifies
<1>4. output.owner \in Builders /\ Documents(output.manifest, builders[output.owner])
  BY <1>3 DEF IInv, ManifestInv
<1>5. /\ runtime'.stage = "verified" /\ runtime'.manifest = output.manifest
      /\ runtime' = [stage |-> runtime'.stage, fixtures |-> runtime'.fixtures,
                     manifest |-> runtime'.manifest, packets |-> runtime'.packets]
  BY <1>1
<1>6. answer' = NoAnswer
  BY <1>2 DEF IInv, RuntimeInv
<1>7. RuntimeInv'
  BY <1>2, <1>4, <1>5, <1>6 DEF RuntimeInv
<1> QED BY <1>2, <1>5, <1>7, RuntimeKeeps

\* What the files hold when each is the one the manifest names.
LEMMA LoadedIs ==
    ASSUME IInv, runtime # NoRuntime, Unchanged(runtime.manifest, output.files)
    PROVE  Cores("packets", output.files) = PacketsIn(builders[output.owner])
<1> DEFINE e == builders[output.owner]
<1>1. output.owner \in Builders /\ Documents(runtime.manifest, e)
  BY DEF IInv, RuntimeInv
<1>2. Whole(e) /\ runtime.manifest.artifacts = e.artifacts
  BY <1>1 DEF Documents
<1>3. DOMAIN output.files = DOMAIN e.artifacts
  BY <1>1 DEF IInv, OwnerInv
<1>4. \A path \in DOMAIN e.artifacts : output.files[path] = e.artifacts[path]
  BY <1>2 DEF Unchanged
<1> HIDE DEF e
<1>5. Having("packets", output.files) = Having("packets", e.artifacts)
  BY <1>3 DEF Having
<1>6. \A path \in Having("packets", e.artifacts) : output.files[path] = e.artifacts[path]
  BY <1>4 DEF Having
<1>7. EntriesIn("packets", output.files) = EntriesIn("packets", e.artifacts)
  BY <1>5, <1>6 DEF EntriesIn
<1>8. Cores("packets", output.files) = Cores("packets", e.artifacts)
  BY <1>7 DEF Cores
<1> QED BY <1>2, <1>8 DEF Whole, e

LEMMA LoadKeeps ==
    ASSUME IInv, Load
    PROVE  IInv'
<1> DEFINE loads == Unchanged(runtime.manifest, output.files) /\ Loads(runtime.manifest, output.files)
<1> DEFINE s == runtime.stage
<1> DEFINE f == runtime.fixtures
<1> DEFINE m == runtime.manifest
<1> DEFINE p == runtime.packets
<1>1. /\ UNCHANGED buildVars /\ builders' = builders /\ output' = output /\ answer' = answer
      /\ runtime # NoRuntime /\ runtime.stage = "verified"
  BY DEF Load, buildVars
<1>2. runtime = [stage |-> s, fixtures |-> f, manifest |-> m, packets |-> p]
  BY <1>1 DEF IInv, TypeInv
<1>3. answer' = NoAnswer
  BY <1>1 DEF IInv, RuntimeInv
<1>4. output.owner \in Builders /\ Documents(m, builders[output.owner])
  BY <1>1 DEF IInv, RuntimeInv
<1>5. CASE loads
  <2> DEFINE q == Sorted(Cores("packets", output.files))
  <2>1. runtime' = [runtime EXCEPT !.stage = "open", !.packets = q]
    BY <1>5 DEF Load
  <2>2. Cores("packets", output.files) = PacketsIn(builders[output.owner])
    BY <1>1, <1>5, LoadedIs
  <2>3. q = Sorted(PacketsIn(builders[output.owner]))
    BY <2>2
  <2> HIDE DEF s, f, m, p, q, loads
  <2>4. runtime' = [stage |-> "open", fixtures |-> f, manifest |-> m, packets |-> q]
    BY <1>2, <2>1
  <2>5. /\ runtime'.manifest = m /\ runtime'.packets = q
        /\ runtime' = [stage |-> runtime'.stage, fixtures |-> runtime'.fixtures,
                       manifest |-> runtime'.manifest, packets |-> runtime'.packets]
    BY <2>4
  <2>6. RuntimeInv'
    BY <1>1, <1>3, <1>4, <2>3, <2>5 DEF RuntimeInv
  <2> QED BY <1>1, <2>5, <2>6, RuntimeKeeps
<1>6. CASE ~loads
  <2>1. runtime' = [runtime EXCEPT !.stage = "refused"]
    BY <1>6 DEF Load
  <2> HIDE DEF s, f, m, p, loads
  <2>2. runtime' = [stage |-> "refused", fixtures |-> f, manifest |-> m, packets |-> p]
    BY <1>2, <2>1
  <2>3. /\ runtime'.manifest = m /\ runtime'.stage # "open"
        /\ runtime' = [stage |-> runtime'.stage, fixtures |-> runtime'.fixtures,
                       manifest |-> runtime'.manifest, packets |-> runtime'.packets]
    BY <2>2
  <2>4. RuntimeInv'
    BY <1>1, <1>3, <1>4, <2>3 DEF RuntimeInv
  <2> QED BY <1>1, <2>3, <2>4, RuntimeKeeps
<1> QED BY <1>5, <1>6

LEMMA AnsweringKeeps ==
    ASSUME IInv, Ask \/ Fetch
    PROVE  IInv'
<1>1. /\ UNCHANGED buildVars /\ builders' = builders /\ output' = output /\ runtime' = runtime
      /\ runtime # NoRuntime /\ runtime.stage = "open"
  BY DEF Ask, Fetch, Answering, buildVars
<1>2. RuntimeInv'
  BY <1>1 DEF IInv, RuntimeInv
<1>3. runtime' = [stage |-> runtime'.stage, fixtures |-> runtime'.fixtures,
                  manifest |-> runtime'.manifest, packets |-> runtime'.packets]
  BY <1>1 DEF IInv, TypeInv
<1> QED BY <1>1, <1>2, <1>3, RuntimeKeeps

LEMMA StepKeeps == IInv /\ [Next]_vars => IInv'
<1> SUFFICES ASSUME IInv, [Next]_vars PROVE IInv'
  OBVIOUS
<1>1. CASE BuildNext /\ UNCHANGED <<runtime, answer>>
  <2>1. ASSUME NEW b \in Builders, BuildStep(b) PROVE IInv'
    BY <1>1, <2>1, BuildKeeps
  <2>2. CASE EditSelection
    BY <1>1, <2>2, EditKeeps
  <2>3. CASE Damage
    BY <1>1, <2>3, DamageKeeps
  <2> QED BY <1>1, <2>1, <2>2, <2>3 DEF BuildNext
<1>2. CASE RuntimeNext
  BY <1>2, VerifyOpeningKeeps, LoadKeeps, AnsweringKeeps DEF RuntimeNext
<1>3. CASE UNCHANGED vars
  BY <1>3 DEF vars, IInv, TypeInv, OwnerInv, CompileInv, ManifestInv, RuntimeInv
<1> QED BY <1>1, <1>2, <1>3 DEF Next

(***************************************************************************)
(* The theorems.                                                           *)
(***************************************************************************)
\* The invariant holds in every state, whichever step of a build fails, whatever
\* is edited or damaged (Build, Open).
THEOREM Invariant == Spec => []IInv
<1>1. Init => IInv
  BY InitHolds
<1>2. IInv /\ [Next]_vars => IInv'
  BY StepKeeps
<1> QED BY <1>1, <1>2, PTL DEF Spec

\* What Open has loaded is what Build compiled in full, the packets and nothing
\* else: the manifest documents the owner of the directory, and the artifacts
\* that were read are the ones this manifest names.
THEOREM OpenedIsWhole == Spec => []OpenedInFull
<1>1. IInv => OpenedInFull
  <2> SUFFICES ASSUME IInv, runtime # NoRuntime, runtime.stage = "open"
               PROVE  /\ output.owner \in Builders
                      /\ builders[output.owner].done = Len(Sources(builders[output.owner].options))
                      /\ Range(runtime.packets) = Packets(output.owner)
                      /\ \A p \in Range(runtime.packets) : p.at <= runtime.manifest.createdAt
    BY DEF OpenedInFull
  <2> DEFINE e == builders[output.owner]
  <2>1. /\ output.owner \in Builders /\ Documents(runtime.manifest, e)
        /\ runtime.packets = Sorted(PacketsIn(e))
    BY DEF IInv, RuntimeInv
  <2>2. e.done = Len(Sources(e.options)) /\ runtime.manifest.createdAt = e.options.createdAt
    BY <2>1 DEF Documents, Whole
  <2>3. IsBuilder(e) /\ e.options \in OptionSet[output.owner] /\ Compiling(e)
    BY <2>1 DEF IInv, TypeInv, OwnerInv, CompileInv
  <2>4. Packets(output.owner) = PacketsIn(e)
    BY <2>1, PacketsAre
  <2> HIDE DEF e
  <2>5. /\ IsFiniteSet(PacketsIn(e))
        /\ \A p, q \in PacketsIn(e) : Rank(p) \in Nat /\ (Rank(p) = Rank(q) => p = q)
    BY <2>1, <2>3, PacketsRanked
  <2>6. Range(runtime.packets) = PacketsIn(e)
    BY <2>1, <2>5, SortedIs
  <2>7. \A p \in PacketsIn(e) : p.at <= e.options.createdAt
    BY <2>3 DEF Compiling
  <2> QED BY <2>1, <2>2, <2>4, <2>6, <2>7 DEF e
<1> QED BY <1>1, Invariant, PTL

\* A delta of compileArchiveAcquisition joins neighbours in time, whatever the
\* order in which the captures were acquired.
THEOREM HistoryIsOrdered == Spec => []DeltasFollowCaptures
<1>1. IInv => DeltasFollowCaptures
  <2> SUFFICES ASSUME IInv, NEW b \in Builders, NEW d \in Deltas(b)
               PROVE  /\ d.before.at <= d.after.at
                      /\ \A i \in DOMAIN Acquisition[d.batch].captures :
                            LET t == Acquisition[d.batch].captures[i].at IN
                            ~(d.before.at < t /\ t < d.after.at)
    BY DEF DeltasFollowCaptures
  <2> DEFINE o == builders[b]
  <2>1. PICK n \in 1..o.done : Sources(o.options)[n].kind = "archive" /\ d \in DeltasOf(Sources(o.options)[n].of)
    <3>1. PICK source \in Compiled(b) : source.kind = "archive" /\ d \in DeltasOf(source.of)
      BY DEF Deltas
    <3>2. PICK n \in 1..o.done : source = Sources(o.options)[n]
      BY <3>1 DEF Compiled
    <3> QED BY <3>1, <3>2
  <2>2. Sensible(o.options) /\ n \in 1..Len(Sources(o.options))
    <3>1. Sensible(o.options) /\ o.done \in 0..Len(Sources(o.options))
      BY DEF IInv, TypeInv, IsBuilder
    <3>2. Len(Sources(o.options)) \in Nat
      BY <3>1, SourcesAre
    <3> HIDE DEF o
    <3> QED BY <3>1, <3>2
  <2>3. PICK m \in DOMAIN o.options.acquisitions : Archiving(o.options, n, m)
    <3>1. ~Replaying(o.options, n) /\ ~Scaling(o.options, n)
      BY <2>1 DEF Replaying, Scaling
    <3> HIDE DEF o
    <3> QED BY <2>2, <3>1, SourceIs
  <2> DEFINE a == o.options.acquisitions[m]
  <2> DEFINE captures == Acquisition[a].captures
  <2>4. a \in DOMAIN Acquisition /\ Sources(o.options)[n].of = Acquisition[a]
    BY <2>3 DEF Archiving
  <2> HIDE DEF a, o
  <2>5. /\ Acquisition[a].id = a /\ captures \in Seq(Range(captures))
        /\ \A i \in DOMAIN captures : captures[i].at \in Nat
        /\ Len(captures) \in Nat /\ DOMAIN captures = 1..Len(captures)
    BY <2>4, CapturesAre
  <2>6. d \in DeltasOf(Acquisition[a])
    BY <2>1, <2>4
  <2>7. PICK k \in 1..(Len(captures) - 1) :
            d = [before |-> ArchivePacket(Acquisition[a], ByTime(captures)[k]),
                 after |-> ArchivePacket(Acquisition[a], ByTime(captures)[k + 1]), batch |-> Acquisition[a].id]
    BY <2>6 DEF DeltasOf
  <2>8. /\ d.batch = a /\ d.before.at = captures[ByTime(captures)[k]].at
        /\ d.after.at = captures[ByTime(captures)[k + 1]].at
    BY <2>5, <2>7 DEF ArchivePacket
  <2>9. k \in DOMAIN captures /\ k + 1 \in DOMAIN captures
    BY <2>5
  <2>11. Acquisition[d.batch].captures = captures
    BY <2>8
  <2> HIDE DEF captures
  <2>10. /\ captures[ByTime(captures)[k]].at <= captures[ByTime(captures)[k + 1]].at
         /\ \A i \in DOMAIN captures :
               ~(captures[ByTime(captures)[k]].at < captures[i].at
                   /\ captures[i].at < captures[ByTime(captures)[k + 1]].at)
    BY <2>5, <2>9, ByTimeIs
  <2> QED BY <2>8, <2>10, <2>11
<1> QED BY <1>1, Invariant, PTL

(***************************************************************************)
(* Answers.  One that has been given stays, and with it the runtime it was *)
(* given by, so what holds of an answer when it is given holds for ever.   *)
(***************************************************************************)
Asked(query) == {p \in Range(runtime.packets) : Visible(p) /\ Matches(query, p)}
Wide(S, query) == Cardinality(Origins(S)) >= query.minimum
Honest(a) ==
    /\ a.status = "resolved" =>
          a.rows = Asked(a.query) /\ Asked(a.query) # {} /\ Wide(Asked(a.query), a.query)
    /\ a.status = "partial" =>
          a.rows # {} /\ a.rows \subseteq Asked(a.query) /\ a.rows # Asked(a.query) /\ Wide(a.rows, a.query)
    /\ a.status = "unresolved" =>
          a.rows = {} /\ (Asked(a.query) = {} \/ ~Wide(Asked(a.query), a.query) \/ a.truncated)
    /\ a.proofs = a.rows

LEMMA AnswerIs ==
    ASSUME IInv, Answering, NEW q
    PROVE  Honest(Answer(q))
<1> DEFINE packets == runtime.packets
<1> DEFINE e == builders[output.owner]
<1> DEFINE matched == {n \in DOMAIN packets : Visible(packets[n]) /\ Matches(q, packets[n])}
<1> DEFINE kept == {n \in matched : Cardinality({m \in matched : m <= n}) <= q.results}
<1> DEFINE Bytes(S) == Cardinality(UNION {{<<n, k>> : k \in 1..Size(packets[n])} : n \in S})
<1> DEFINE returned == {n \in kept : ManifestSize + Bytes({m \in kept : m <= n}) <= q.proofBytes}
<1> DEFINE rows == {packets[n] : n \in returned}
<1> DEFINE enough == rows # {} /\ Cardinality(Origins(rows)) >= q.minimum
<1> DEFINE status == IF ~enough THEN "unresolved" ELSE IF returned # matched THEN "partial" ELSE "resolved"
<1> DEFINE given == IF enough THEN rows ELSE {}
<1>1. Answer(q) = [kind |-> "rows", query |-> q, rows |-> given, proofs |-> given,
                   status |-> status, truncated |-> returned # matched]
  BY DEF Answer
<1>2. \A m, n \in DOMAIN packets : packets[m] = packets[n] => m = n
  <2>1. output.owner \in Builders /\ packets = Sorted(PacketsIn(e))
    BY DEF Answering, IInv, RuntimeInv
  <2>2. IsBuilder(e) /\ e.options \in OptionSet[output.owner]
    BY <2>1 DEF IInv, TypeInv, OwnerInv
  <2> HIDE DEF e, packets
  <2>3. /\ IsFiniteSet(PacketsIn(e))
        /\ \A p, r \in PacketsIn(e) : Rank(p) \in Nat /\ (Rank(p) = Rank(r) => p = r)
    BY <2>1, <2>2, PacketsRanked
  <2>4. /\ DOMAIN Sorted(PacketsIn(e)) = 1..Cardinality(PacketsIn(e))
        /\ \A m, n \in 1..Cardinality(PacketsIn(e)) : Sorted(PacketsIn(e))[m] = Sorted(PacketsIn(e))[n] => m = n
    BY <2>3, SortedIs
  <2> QED BY <2>1, <2>4
<1>3. Asked(q) = {packets[n] : n \in matched}
  <2> HIDE DEF packets
  <2> QED BY DEF Asked, Range, packets
<1>4. returned \subseteq kept /\ kept \subseteq matched /\ matched \subseteq DOMAIN packets
  <2>1. matched \subseteq DOMAIN packets
    OBVIOUS
  <2>2. kept \subseteq matched
    OBVIOUS
  <2> HIDE DEF kept, matched, packets
  <2>3. returned \subseteq kept
    OBVIOUS
  <2> QED BY <2>1, <2>2, <2>3
<1> HIDE DEF kept, matched, returned, packets
<1>5. rows \subseteq Asked(q)
  BY <1>3, <1>4
<1>6. returned = matched => rows = Asked(q)
  BY <1>3
<1>7. returned # matched => rows # Asked(q)
  <2> SUFFICES ASSUME returned # matched, rows = Asked(q) PROVE FALSE
    OBVIOUS
  <2>1. PICK n \in matched : n \notin returned
    BY <1>4
  <2>2. packets[n] \in rows
    BY <1>3, <2>1
  <2>3. PICK m \in returned : packets[m] = packets[n]
    BY <2>2
  <2> QED BY <1>2, <1>4, <2>1, <2>3
<1>8. enough <=> rows # {} /\ Wide(rows, q)
  BY DEF Wide
<1> HIDE DEF rows, enough
<1>9. /\ Answer(q).query = q /\ Answer(q).rows = given /\ Answer(q).proofs = given
      /\ Answer(q).status = status /\ Answer(q).truncated = (returned # matched)
  BY <1>1
<1>10. CASE ~enough
  <2>1. given = {} /\ status = "unresolved"
    BY <1>10
  <2>2. Asked(q) = {} \/ ~Wide(Asked(q), q) \/ returned # matched
    BY <1>6, <1>8, <1>10
  <2> HIDE DEF given, status
  <2> QED BY <1>9, <2>1, <2>2 DEF Honest
<1>11. CASE enough /\ returned # matched
  <2>1. given = rows /\ status = "partial"
    BY <1>11
  <2>2. rows # {} /\ Wide(rows, q) /\ rows # Asked(q)
    BY <1>7, <1>8, <1>11
  <2> HIDE DEF given, status
  <2> QED BY <1>5, <1>9, <2>1, <2>2 DEF Honest
<1>12. CASE enough /\ returned = matched
  <2>1. given = rows /\ status = "resolved"
    BY <1>12
  <2>2. rows = Asked(q) /\ Asked(q) # {} /\ Wide(Asked(q), q)
    BY <1>6, <1>8, <1>12
  <2> HIDE DEF given, status
  <2> QED BY <1>9, <2>1, <2>2 DEF Honest
<1> QED BY <1>10, <1>11, <1>12

HonestInv == answer # NoAnswer /\ answer.kind = "rows" => Honest(answer)

\* Once there is an answer, neither it nor the runtime changes.
LEMMA AnswerStays ==
    ASSUME IInv, [Next]_vars, ~Ask, ~Fetch
    PROVE  answer' = answer /\ (answer # NoAnswer => runtime' = runtime)
<1>1. CASE BuildNext /\ UNCHANGED <<runtime, answer>>
  BY <1>1
<1>2. CASE VerifyOpening
  BY <1>2 DEF VerifyOpening, IInv, RuntimeInv
<1>3. CASE Load
  <2>1. runtime.stage = "verified" /\ answer' = answer
    BY <1>3 DEF Load
  <2> QED BY <2>1 DEF IInv, RuntimeInv
<1>4. CASE UNCHANGED vars
  BY <1>4 DEF vars
<1> QED BY <1>1, <1>2, <1>3, <1>4 DEF Next, RuntimeNext

LEMMA AnswerLasts ==
    ASSUME IInv, HonestInv, [Next]_vars
    PROVE  HonestInv'
<1>0. ASSUME runtime' = runtime, Honest(answer') PROVE Honest(answer)'
  <2>1. Asked(answer.query)' = Asked(answer'.query)
    BY <1>0 DEF Asked, Visible, Matches
  <2> QED BY <1>0, <2>1 DEF Honest, Wide
<1>1. CASE Ask
  <2>1. PICK q \in Queries : answer' = Answer(q)
    BY <1>1 DEF Ask
  <2>2. runtime' = runtime /\ Answering
    BY <1>1 DEF Ask
  <2>3. Honest(answer')
    BY <2>1, <2>2, AnswerIs
  <2> QED BY <1>0, <2>2, <2>3 DEF HonestInv
<1>2. CASE Fetch
  <2>1. PICK path, contents : answer' = [kind |-> "artifact", path |-> path, contents |-> contents]
    BY <1>2 DEF Fetch
  <2>2. answer'.kind = "artifact"
    BY <2>1
  <2> QED BY <2>2 DEF HonestInv
<1>3. CASE ~Ask /\ ~Fetch
  <2>1. answer' = answer /\ (answer # NoAnswer => runtime' = runtime)
    BY <1>3, AnswerStays
  <2> QED BY <1>0, <2>1 DEF HonestInv
<1> QED BY <1>1, <1>2, <1>3

\* QueryContext says "resolved" when it returns all that match, "partial" when
\* some, "unresolved" when none: the packets are in one order in which none
\* stands twice, so a place left out is a packet left out.
THEOREM AnswersAreHonest == Spec => []AnswerIsHonest
<1>1. Init => IInv /\ HonestInv
  <2>1. Init => HonestInv
    BY DEF Init, HonestInv
  <2> QED BY <2>1, InitHolds
<1>2. (IInv /\ HonestInv) /\ [Next]_vars => (IInv /\ HonestInv)'
  BY StepKeeps, AnswerLasts
<1>3. HonestInv => AnswerIsHonest
  BY DEF HonestInv, Honest, AnswerIsHonest, Asked, Wide
<1> QED BY <1>1, <1>2, <1>3, PTL DEF Spec

\* An artifact ProofArtifact hands out was admitted when the snapshot was opened,
\* whatever has become of the file, and a packet the runtime shows rests on it.
THEOREM FetchedIsAdmitted == Spec => []FetchedAsAdmitted
<1>1. Init => IInv /\ FetchedAsAdmitted
  <2>1. Init => FetchedAsAdmitted
    BY DEF Init, FetchedAsAdmitted
  <2> QED BY <2>1, InitHolds
<1>2. (IInv /\ FetchedAsAdmitted) /\ [Next]_vars => (IInv /\ FetchedAsAdmitted)'
  <2> SUFFICES ASSUME IInv, FetchedAsAdmitted, [Next]_vars PROVE FetchedAsAdmitted'
    BY StepKeeps
  <2>1. CASE Ask
    <3>1. PICK q \in Queries : answer' = Answer(q)
      BY <2>1 DEF Ask
    <3>2. Answer(q).kind = "rows"
      BY DEF Answer
    <3> QED BY <3>1, <3>2 DEF FetchedAsAdmitted
  <2>2. CASE Fetch
    <3>1. PICK p \in Range(runtime.packets) :
              /\ Visible(p)
              /\ \E path \in ProofOf(p, "").artifacts :
                    /\ output.files[path] = runtime.manifest.artifacts[path]
                    /\ answer' = [kind |-> "artifact", path |-> path, contents |-> output.files[path]]
      BY <2>2 DEF Fetch
    <3>2. PICK path \in ProofOf(p, "").artifacts :
              /\ output.files[path] = runtime.manifest.artifacts[path]
              /\ answer' = [kind |-> "artifact", path |-> path, contents |-> output.files[path]]
      BY <3>1
    <3>3. answer'.path = path /\ answer'.contents = runtime.manifest.artifacts[path]
      BY <3>2
    <3>4. runtime.fixtures \/ p \in Public(Range(runtime.packets))
      BY <3>1 DEF Visible, Public
    <3>5. runtime' = runtime
      BY <2>2 DEF Fetch
    <3>6. runtime.fixtures \/ \E r \in Public(Range(runtime.packets)) : answer'.path \in ProofOf(r, "").artifacts
      BY <3>2, <3>3, <3>4
    <3> QED BY <3>3, <3>5, <3>6 DEF FetchedAsAdmitted
  <2>3. CASE ~Ask /\ ~Fetch
    <3>1. answer' = answer /\ (answer # NoAnswer => runtime' = runtime)
      BY <2>3, AnswerStays
    <3> QED BY <3>1 DEF FetchedAsAdmitted
  <2> QED BY <2>1, <2>2, <2>3
<1> QED BY <1>1, <1>2, PTL DEF Spec

(***************************************************************************)
(* Files.                                                                  *)
(***************************************************************************)
Keeps == /\ output.owner # Nobody => output'.owner = output.owner
         /\ \A path \in DOMAIN output.files :
               path \in DOMAIN output'.files /\ output'.files[path] = output.files[path]
         /\ output.manifest \notin {NoManifest, Damaged} => output'.manifest = output.manifest

LEMMA AddingKeeps ==
    ASSUME IInv, NEW new, DOMAIN new \cap DOMAIN output.files = {},
           output' = [output EXCEPT !.files = With(new, @)]
    PROVE  Keeps
<1> DEFINE more == With(new, output.files)
<1>1. output' = [output EXCEPT !.files = more]
  OBVIOUS
<1>2. DOMAIN more = DOMAIN new \cup DOMAIN output.files
  BY WithIs
<1>3. \A path \in DOMAIN output.files \ DOMAIN new : more[path] = output.files[path]
  BY WithIs
<1> HIDE DEF more
<1>4. output' = Output(output.owner, more, output.manifest)
  BY <1>1, OutputExcept DEF IInv, TypeInv
<1>5. output'.owner = output.owner /\ output'.files = more /\ output'.manifest = output.manifest
  BY <1>4, OutputFields
<1> QED BY <1>2, <1>3, <1>5 DEF Keeps

LEMMA WritingKeeps ==
    ASSUME IInv, NEW b \in Builders, builders[b].pc \in Filling, NEW artifacts, NEW next, Write(b, artifacts, next)
    PROVE  Keeps
<1>1. DOMAIN output.files = DOMAIN builders[b].artifacts
  BY DEF IInv, OwnerInv
<1>2. /\ DOMAIN artifacts \cap DOMAIN builders[b].artifacts = {}
      /\ output' = [output EXCEPT !.files = With(artifacts, @)]
  BY DEF Write
<1>3. DOMAIN artifacts \cap DOMAIN output.files = {}
  BY <1>1, <1>2
<1> QED BY <1>2, <1>3, AddingKeeps

\* The evidence of the next source is in files of its own.
LEMMA EvidenceIsNew ==
    ASSUME IInv, NEW b \in Builders, builders[b].pc = "compile",
           builders[b].done + 1 \in 1..Len(Sources(builders[b].options)),
           Len(Sources(builders[b].options)) \in Nat, builders[b].done \in Nat
    PROVE  LET o == builders[b] IN
           DOMAIN EvidenceOf(Sources(o.options)[o.done + 1]) \cap DOMAIN o.artifacts = {}
<1> DEFINE o == builders[b]
<1> DEFINE L == Len(Sources(o.options))
<1> DEFINE d == o.done
<1> DEFINE new == EvidenceOf(Sources(o.options)[d + 1])
<1>1. Compiling(o) /\ Sensible(o.options) /\ o.pc = "compile" /\ d + 1 \in 1..L /\ L \in Nat /\ d \in Nat
  BY DEF IInv, TypeInv, CompileInv, IsBuilder
<1>2. \A n \in 1..d : n \in 1..L /\ n # d + 1
  <2> HIDE DEF L, d
  <2> QED BY <1>1
<1>3. ASSUME NEW path \in DOMAIN o.artifacts, path \in DOMAIN new PROVE FALSE
  <2>1. path = <<"catalog">> \/ \E n \in 1..o.done : path \in DOMAIN EvidenceOf(Sources(o.options)[n])
    <3> HIDE DEF o
    <3> QED BY <1>1, <1>3 DEF Compiling
  <2>2. path[1] \in Evidence
    <3> HIDE DEF o
    <3> QED BY <1>1, <1>3, EvidenceRoles
  <2>3. path # <<"catalog">>
    BY <2>2 DEF Evidence
  <2>4. PICK n \in 1..d : path \in DOMAIN EvidenceOf(Sources(o.options)[n])
    BY <2>1, <2>3
  <2>5. DOMAIN EvidenceOf(Sources(o.options)[n]) \cap DOMAIN EvidenceOf(Sources(o.options)[d + 1]) = {}
    <3> HIDE DEF o, d
    <3> QED BY <1>1, <1>2, EvidenceApart
  <2> QED BY <1>3, <2>4, <2>5
<1>4. \A path \in DOMAIN o.artifacts : path \notin DOMAIN new
  BY <1>3
<1> HIDE DEF o, new
<1>5. DOMAIN new \cap DOMAIN o.artifacts = {}
  BY <1>4
<1> QED BY <1>5 DEF new, o

LEMMA CompilingKeeps ==
    ASSUME IInv, NEW b \in Builders, Compile(b)
    PROVE  Keeps
<1> DEFINE o == builders[b]
<1> DEFINE source == Sources(o.options)[o.done + 1]
<1> DEFINE new == EvidenceOf(source)
<1>1. o.pc = "compile" /\ o.done < Len(Sources(o.options))
  BY DEF Compile
<1>2. "compile" \in Filling
  BY DEF Filling
<1>3. Compiling(o) /\ IsBuilder(o) /\ DOMAIN output.files = DOMAIN o.artifacts
  BY <1>1, <1>2 DEF IInv, TypeInv, CompileInv, OwnerInv
<1>4. Sensible(o.options) /\ o.done \in 0..Len(Sources(o.options)) /\ Len(Sources(o.options)) \in Nat
  BY <1>3, SourcesAre DEF IsBuilder
<1>5. o.done + 1 \in 1..Len(Sources(o.options)) /\ o.done \in Nat
  <2> DEFINE L == Len(Sources(o.options))
  <2> DEFINE d == o.done
  <2>1. d < L /\ d \in 0..L /\ L \in Nat
    BY <1>1, <1>4
  <2> HIDE DEF L, d
  <2>2. d + 1 \in 1..L /\ d \in Nat
    BY <2>1
  <2> QED BY <2>2 DEF L, d
<1>6. DOMAIN new \cap DOMAIN o.artifacts = {}
  BY <1>1, <1>4, <1>5, EvidenceIsNew
<1>7. DOMAIN new \cap DOMAIN output.files = {}
  <2> HIDE DEF new, o
  <2> QED BY <1>3, <1>6
<1>8. \/ output' = [output EXCEPT !.files = With(new, @)]
      \/ output' = output
  <2> HIDE DEF new
  <2> QED BY DEF Compile, new
<1>9. CASE output' = output
  BY <1>9 DEF Keeps
<1>10. CASE output' = [output EXCEPT !.files = With(new, @)]
  <2> HIDE DEF new
  <2> QED BY <1>7, <1>10, AddingKeeps
<1> QED BY <1>8, <1>9, <1>10

LEMMA DocumentingKeeps ==
    ASSUME IInv, NEW b \in Builders, builders[b].pc \in Filling, NEW m, output' = [output EXCEPT !.manifest = m]
    PROVE  Keeps
<1>1. output.manifest \in {NoManifest, Damaged}
  BY DEF IInv, ManifestInv
<1>2. output' = Output(output.owner, output.files, m)
  BY OutputExcept DEF IInv, TypeInv
<1>3. output'.owner = output.owner /\ output'.files = output.files
  BY <1>2, OutputFields
<1> QED BY <1>1, <1>3 DEF Keeps

LEMMA BuildingKeeps ==
    ASSUME IInv, NEW b \in Builders, BuildStep(b)
    PROVE  Keeps
<1>1. CASE output' = output
  BY <1>1 DEF Keeps
<1>2. CASE Begin(b) \/ LoadSelection(b) \/ VerifyBuilt(b) \/ Stop(b)
  BY <1>1, <1>2 DEF Begin, LoadSelection, VerifyBuilt, Stop
<1>3. CASE Reserve(b)
  <2>1. CASE output = NoDirectory
    <3>1. output.owner = Nobody /\ output.files = <<>> /\ output.manifest = NoManifest
      BY <2>1 DEF NoDirectory
    <3>2. DOMAIN output.files = {}
      BY <3>1
    <3> QED BY <3>1, <3>2 DEF Keeps
  <2>2. CASE output # NoDirectory
    BY <1>1, <1>3, <2>2 DEF Reserve
  <2> QED BY <2>1, <2>2
<1>4. {"catalog", "compile", "canon", "proofs", "views", "report", "manifest", "writing"} \subseteq Filling
  BY DEF Filling, Indexed
<1>5. CASE AddCatalog(b)
  BY <1>4, <1>5, WritingKeeps DEF AddCatalog
<1>6. CASE Compile(b)
  BY <1>6, CompilingKeeps
<1>7. CASE AddSegments(b)
  BY <1>4, <1>7, WritingKeeps DEF AddSegments
<1>8. CASE AddCanon(b)
  BY <1>4, <1>8, WritingKeeps DEF AddCanon
<1>9. CASE AddProofIndexes(b)
  BY <1>4, <1>9, WritingKeeps DEF AddProofIndexes
<1>10. CASE AddViews(b)
  BY <1>4, <1>10, WritingKeeps DEF AddViews
<1>11. CASE AddReport(b)
  BY <1>4, <1>11, WritingKeeps DEF AddReport
<1>12. CASE StartManifest(b)
  BY <1>4, <1>12, DocumentingKeeps DEF StartManifest
<1>13. CASE WriteManifest(b)
  BY <1>4, <1>13, DocumentingKeeps DEF WriteManifest
<1> QED
  BY <1>2, <1>3, <1>5, <1>6, <1>7, <1>8, <1>9, <1>10, <1>11, <1>12, <1>13 DEF BuildStep

\* A directory belongs to the build whose Mkdir created it, and addArtifact writes
\* no file of it twice: the paths of the evidence of two sources are apart.
THEOREM FilesAreKept == Spec => NeverOverwritten
<1>1. IInv /\ [Next]_vars => [damage' = damage => Keeps]_vars
  <2> SUFFICES ASSUME IInv, [Next]_vars, damage' = damage, ~UNCHANGED vars PROVE Keeps
    OBVIOUS
  <2>1. CASE output' = output
    BY <2>1 DEF Keeps
  <2>2. ASSUME NEW b \in Builders, BuildStep(b) PROVE Keeps
    BY <2>2, BuildingKeeps
  <2>3. CASE EditSelection
    BY <2>1, <2>3 DEF EditSelection
  <2>4. CASE Damage
    BY <2>4 DEF Damage, IInv, TypeInv
  <2>5. CASE RuntimeNext
    BY <2>1, <2>5 DEF RuntimeNext, VerifyOpening, Load, Ask, Fetch, buildVars
  <2> QED BY <2>2, <2>3, <2>4, <2>5 DEF Next, BuildNext
<1> QED BY <1>1, Invariant, PTL DEF Spec, NeverOverwritten, Keeps

(***************************************************************************)
(* Counting.                                                               *)
(***************************************************************************)
LEMMA SameSize ==
    ASSUME NEW S, IsFiniteSet(S), NEW T, NEW f \in [S -> T], \A x, y \in S : f[x] = f[y] => x = y,
           \A t \in T : \E x \in S : f[x] = t
    PROVE  IsFiniteSet(T) /\ Cardinality(T) = Cardinality(S)
<1>1. f \in Injection(S, T) /\ f \in Surjection(S, T)
  BY Fun_IsInj, Fun_IsSurj
<1>2. IsFiniteSet(T)
  BY <1>1, FS_Surjection
<1> QED BY <1>1, <1>2, FS_Injection

LEMMA UpTo ==
    ASSUME NEW n \in Nat
    PROVE  IsFiniteSet(1..n) /\ Cardinality(1..n) = n
<1>1. IsFiniteSet(1..n) /\ Cardinality(1..n) = IF 1 > n THEN 0 ELSE n - 1 + 1
  BY FS_Interval
<1> QED BY <1>1

\* A function from the numbers up to n has a finite range, of n elements if no two
\* of its values are the same.
LEMMA RangeSize ==
    ASSUME NEW n \in Nat, NEW s, DOMAIN s = 1..n
    PROVE  /\ IsFiniteSet(Range(s))
           /\ (\A i, j \in 1..n : s[i] = s[j] => i = j) => Cardinality(Range(s)) = n
<1> DEFINE g == [i \in 1..n |-> s[i]]
<1> DEFINE D == 1..n
<1> DEFINE T == Range(s)
<1>1. g \in [D -> T] /\ (\A t \in T : \E i \in D : g[i] = t) /\ \A i \in D : g[i] = s[i]
  BY DEF Range
<1>2. IsFiniteSet(D) /\ Cardinality(D) = n
  BY UpTo
<1> HIDE DEF g, D, T
<1>3. IsFiniteSet(T)
  <2>1. g \in Surjection(D, T)
    BY <1>1, Fun_IsSurj
  <2> QED BY <1>2, <2>1, FS_Surjection
<1>4. ASSUME \A i, j \in D : s[i] = s[j] => i = j PROVE Cardinality(T) = n
  <2>1. \A i, j \in D : g[i] = g[j] => i = j
    BY <1>1, <1>4
  <2> QED BY <1>1, <1>2, <2>1, SameSize
<1> QED BY <1>3, <1>4 DEF D, T

(***************************************************************************)
(* What the files hold.                                                    *)
(***************************************************************************)
\* The files hold the artifacts of a part, and of a role nothing else.
Carries(files, part) == \A path \in DOMAIN part : path \in DOMAIN files /\ files[path] = part[path]
Holds(role, files, part) == Having(role, files) = DOMAIN part /\ Carries(files, part)

\* The entries of a sequence that was cut are the ones of the segments.
LEMMA EntriesHeld ==
    ASSUME NEW role, NEW files, NEW s, s \in Seq(Range(s)), Holds(role, files, Cut(role, s))
    PROVE  /\ EntriesIn(role, files) = Range(s)
           /\ \A path \in Having(role, files) : Part(files[path], s)
<1> DEFINE cut == Cut(role, s)
<1>1. /\ \A path \in DOMAIN cut : path[1] = role /\ Part(cut[path], s)
      /\ UNION {Range(cut[path]) : path \in DOMAIN cut} = Range(s)
  BY CutCovers
<1>2. Having(role, files) = DOMAIN cut /\ \A path \in DOMAIN cut : files[path] = cut[path]
  BY DEF Holds, Carries
<1> HIDE DEF cut
<1> QED BY <1>1, <1>2 DEF EntriesIn

LEMMA SequenceHeld ==
    ASSUME NEW role, NEW files, NEW S, IsFiniteSet(S), \A p, q \in S : Rank(p) \in Nat /\ (Rank(p) = Rank(q) => p = q),
           Holds(role, files, Cut(role, Entries(S)))
    PROVE  Cores(role, files) = S /\ SequenceReconciles(role, files, Cardinality(S))
<1> DEFINE s == Entries(S)
<1> DEFINE N == Cardinality(S)
<1>1. /\ N \in Nat /\ DOMAIN Sorted(S) = 1..N /\ Range(Sorted(S)) = S
      /\ \A m, n \in 1..N : m < n => Rank(Sorted(S)[m]) < Rank(Sorted(S)[n])
  BY SortedIs
<1>2. s = [n \in 1..N |-> [sequence |-> n, core |-> Sorted(S)[n]]]
  BY <1>1 DEF Entries
<1>3. /\ s = [n \in 1..N |-> s[n]] /\ DOMAIN s = 1..N
      /\ \A n \in 1..N : s[n].core = Sorted(S)[n] /\ s[n].sequence = n
  BY <1>2
<1> HIDE DEF s, N
<1>4. s \in Seq(Range(s)) /\ Len(s) = N
  <2>1. s \in Seq(Range(s))
    BY <1>1, <1>3, SeqOfFunction
  <2> QED BY <1>1, <1>3, <2>1, LenProperties
<1>5. EntriesIn(role, files) = Range(s) /\ \A path \in Having(role, files) : Part(files[path], s)
  BY <1>4, EntriesHeld DEF s
<1>6. Cores(role, files) = S
  <2>1. {e.core : e \in Range(s)} = Range(Sorted(S))
    BY <1>1, <1>3 DEF Range
  <2> QED BY <1>1, <1>5, <2>1 DEF Cores
<1>7. Cardinality(Range(s)) = N
  <2>1. \A i, j \in 1..N : s[i] = s[j] => i = j
    BY <1>3
  <2> QED BY <1>1, <1>3, <2>1, RangeSize
<1>8. {e.sequence : e \in Range(s)} = 1..N
  BY <1>3 DEF Range
<1>9. ASSUME NEW segment, Part(segment, s) PROVE SegmentValid(segment)
  <2> SUFFICES ASSUME NEW i \in 1..(Len(segment) - 1)
               PROVE  /\ segment[i + 1].sequence = segment[i].sequence + 1
                      /\ Rank(segment[i].core) < Rank(segment[i + 1].core)
    BY DEF SegmentValid
  <2>1. PICK a \in Nat : \A k \in 1..Len(segment) : a + k \in 1..N /\ segment[k] = s[a + k]
    BY <1>4, <1>9 DEF Part
  <2>2. Len(segment) \in Nat /\ i \in 1..Len(segment) /\ i + 1 \in 1..Len(segment)
    BY <1>9 DEF Part
  <2>3. /\ a + i \in 1..N /\ a + (i + 1) \in 1..N /\ a + (i + 1) = (a + i) + 1 /\ a + i < a + (i + 1)
        /\ segment[i] = s[a + i] /\ segment[i + 1] = s[a + (i + 1)]
    BY <2>1, <2>2
  <2> DEFINE u == a + i
  <2> DEFINE v == a + (i + 1)
  <2> HIDE DEF u, v
  <2>4. /\ u \in 1..N /\ v \in 1..N /\ v = u + 1 /\ u < v
        /\ segment[i] = s[u] /\ segment[i + 1] = s[v]
    BY <2>3 DEF u, v
  <2> QED BY <1>1, <1>3, <2>4
<1>10. \A path \in Having(role, files) : SegmentValid(files[path])
  BY <1>5, <1>9
<1>11. Cardinality(S) = N
  BY DEF N
<1> QED BY <1>5, <1>6, <1>7, <1>8, <1>10, <1>11 DEF SequenceReconciles

(***************************************************************************)
(* A packet, its evidence and its proof.                                   *)
(***************************************************************************)
ReplayPacket(options, n, p) == Replaying(options, n) /\ \E f \in Replays[n].fields : p = E2Packet(Replays[n], f)
FixturePacket(options, n, p) == Scaling(options, n) /\ \E i \in 1..options.scale : p = ScalePacket(i, options.createdAt)
CapturePacket(options, n, m, p) ==
    /\ Archiving(options, n, m)
    /\ \E i \in DOMAIN Acquisition[options.acquisitions[m]].captures :
          p = ArchivePacket(Acquisition[options.acquisitions[m]], i)

LEMMA PacketIs ==
    ASSUME NEW options, Sensible(options), NEW n \in 1..Len(Sources(options)), NEW p \in PacketsOf(Sources(options)[n])
    PROVE  \/ ReplayPacket(options, n, p)
           \/ FixturePacket(options, n, p)
           \/ \E m \in DOMAIN options.acquisitions : CapturePacket(options, n, m, p)
<1>1. CASE Replaying(options, n)
  <2>1. PacketsOf(Sources(options)[n]) = {E2Packet(Replays[n], f) : f \in Replays[n].fields}
    BY <1>1 DEF Replaying, PacketsOf
  <2> QED BY <1>1, <2>1 DEF ReplayPacket
<1>2. CASE Scaling(options, n)
  <2>1. PacketsOf(Sources(options)[n]) = {ScalePacket(i, options.createdAt) : i \in 1..options.scale}
    BY <1>2 DEF Scaling, PacketsOf
  <2> QED BY <1>2, <2>1 DEF FixturePacket
<1>3. ASSUME NEW m \in DOMAIN options.acquisitions, Archiving(options, n, m) PROVE CapturePacket(options, n, m, p)
  <2> DEFINE a == Acquisition[options.acquisitions[m]]
  <2>1. PacketsOf(Sources(options)[n]) = {ArchivePacket(a, i) : i \in DOMAIN a.captures}
    BY <1>3 DEF Archiving, PacketsOf
  <2> QED BY <1>3, <2>1 DEF CapturePacket
<1> QED BY <1>1, <1>2, <1>3, SourceIs

\* The evidence of a source among the files.
LEMMA BundleCarried ==
    ASSUME NEW options, NEW n, Replaying(options, n), NEW files, Carries(files, EvidenceOf(Sources(options)[n]))
    PROVE  <<"bundle", Replays[n].id>> \in DOMAIN files /\ files[<<"bundle", Replays[n].id>>] = Replays[n]
<1>1. EvidenceOf(Sources(options)[n]) = At(<<"bundle", Replays[n].id>>, Replays[n])
  BY DEF Replaying, EvidenceOf
<1> QED BY <1>1 DEF At, Carries

LEMMA FixtureCarried ==
    ASSUME NEW options, NEW n, Scaling(options, n), NEW files, Carries(files, EvidenceOf(Sources(options)[n]))
    PROVE  <<"scale">> \in DOMAIN files /\ files[<<"scale">>].fields = options.scale /\ files[<<"scale">>].at = options.createdAt
<1> DEFINE x == [fields |-> options.scale, at |-> options.createdAt, operation |-> "fixture.scaleCorpus"]
<1>1. EvidenceOf(Sources(options)[n]) = At(<<"scale">>, x)
  BY DEF Scaling, EvidenceOf
<1>2. x.fields = options.scale /\ x.at = options.createdAt
  OBVIOUS
<1> HIDE DEF x
<1> QED BY <1>1, <1>2 DEF At, Carries

LEMMA CapturesCarried ==
    ASSUME NEW options, NEW n, NEW m, Archiving(options, n, m), NEW files, Carries(files, EvidenceOf(Sources(options)[n]))
    PROVE  LET a == options.acquisitions[m] IN
           /\ <<"acquisition", a>> \in DOMAIN files /\ files[<<"acquisition", a>>] = Acquisition[a]
           /\ \A i \in DOMAIN Acquisition[a].captures :
                 <<"capture", a, i>> \in DOMAIN files /\ files[<<"capture", a, i>>] = Acquisition[a].captures[i]
<1> DEFINE a == options.acquisitions[m]
<1> DEFINE source == Sources(options)[n]
<1> DEFINE x == At(<<"acquisition", a>>, Acquisition[a])
<1> DEFINE y == [p \in {<<"capture", a, i>> : i \in DOMAIN Acquisition[a].captures} |-> Acquisition[a].captures[p[3]]]
<1>1. source.kind = "archive" /\ source.of = Acquisition[a] /\ Acquisition[a].id = a
  BY CapturesAre DEF Archiving
<1>2. EvidenceOf(source) = With(x, y)
  BY <1>1 DEF EvidenceOf
<1>3. /\ DOMAIN x = {<<"acquisition", a>>} /\ x[<<"acquisition", a>>] = Acquisition[a]
      /\ \A i \in DOMAIN Acquisition[a].captures :
            /\ <<"capture", a, i>> \in DOMAIN y /\ <<"capture", a, i>> \notin DOMAIN x
            /\ y[<<"capture", a, i>>] = Acquisition[a].captures[i]
  BY DEF At
<1>4. \A p \in DOMAIN With(x, y) : p \in DOMAIN files /\ files[p] = With(x, y)[p]
  BY <1>2 DEF Carries
<1> HIDE DEF a, x, y
<1>5. /\ DOMAIN With(x, y) = DOMAIN x \cup DOMAIN y
      /\ \A p \in DOMAIN x : With(x, y)[p] = x[p]
      /\ \A p \in DOMAIN y \ DOMAIN x : With(x, y)[p] = y[p]
  BY WithIs
<1> QED BY <1>3, <1>4, <1>5 DEF a

\* A packet of a source is derived once more from the evidence of the source.
LEMMA ProofStands ==
    ASSUME NEW options, Sensible(options), NEW n \in 1..Len(Sources(options)), NEW p \in PacketsOf(Sources(options)[n]),
           NEW files, Carries(files, EvidenceOf(Sources(options)[n])), NEW operation
    PROVE  /\ ProofOf(p, operation).artifacts \subseteq DOMAIN files
           /\ Derived(ProofOf(p, operation), files)
<1> DEFINE entry == ProofOf(p, operation)
<1>1. /\ entry.packet = p /\ entry.field = p.field
      /\ entry.artifacts = IF p.class = "archive_observation"
                           THEN {p.source, <<"acquisition", p.source[2]>>} ELSE {p.source}
  BY DEF ProofOf
<1> HIDE DEF entry
<1>2. CASE ReplayPacket(options, n, p)
  <2>1. PICK f \in Replays[n].fields : p = E2Packet(Replays[n], f)
    BY <1>2 DEF ReplayPacket
  <2>2. <<"bundle", Replays[n].id>> \in DOMAIN files /\ files[<<"bundle", Replays[n].id>>] = Replays[n]
    BY <1>2, BundleCarried DEF ReplayPacket
  <2>3. p.source = <<"bundle", Replays[n].id>> /\ p.class # "archive_observation" /\ p.field = f.id
    BY <2>1 DEF E2Packet
  <2>4. DerivedFromBundle(entry, files)
    BY <1>1, <2>1, <2>2, <2>3 DEF DerivedFromBundle
  <2>5. p.source[1] = "bundle"
    BY <2>3
  <2> QED BY <1>1, <2>2, <2>3, <2>4, <2>5 DEF Derived, entry
<1>3. CASE FixturePacket(options, n, p)
  <2>1. PICK i \in 1..options.scale : p = ScalePacket(i, options.createdAt)
    BY <1>3 DEF FixturePacket
  <2>2. <<"scale">> \in DOMAIN files /\ files[<<"scale">>].fields = options.scale /\ files[<<"scale">>].at = options.createdAt
    BY <1>3, FixtureCarried DEF FixturePacket
  <2>3. p.source = <<"scale">> /\ p.class # "archive_observation" /\ p.field = ScaleFields[i]
    BY <2>1 DEF ScalePacket
  <2>4. DerivedFromFixture(entry, files)
    BY <1>1, <2>1, <2>2, <2>3 DEF DerivedFromFixture
  <2>5. p.source[1] = "scale"
    BY <2>3
  <2> QED BY <1>1, <2>2, <2>3, <2>4, <2>5 DEF Derived, entry
<1>4. ASSUME NEW m \in DOMAIN options.acquisitions, CapturePacket(options, n, m, p)
      PROVE  entry.artifacts \subseteq DOMAIN files /\ Derived(entry, files)
  <2> DEFINE a == options.acquisitions[m]
  <2>1. PICK i \in DOMAIN Acquisition[a].captures : p = ArchivePacket(Acquisition[a], i)
    BY <1>4 DEF CapturePacket
  <2>2. /\ <<"acquisition", a>> \in DOMAIN files
        /\ files[<<"acquisition", a>>] = Acquisition[a]
        /\ <<"capture", a, i>> \in DOMAIN files /\ files[<<"capture", a, i>>] = Acquisition[a].captures[i]
    <3>1. Archiving(options, n, m)
      BY <1>4 DEF CapturePacket
    <3>2. /\ <<"acquisition", a>> \in DOMAIN files /\ files[<<"acquisition", a>>] = Acquisition[a]
          /\ \A j \in DOMAIN Acquisition[a].captures :
                <<"capture", a, j>> \in DOMAIN files /\ files[<<"capture", a, j>>] = Acquisition[a].captures[j]
      BY <3>1, CapturesCarried
    <3> QED BY <3>2
  <2>3. Acquisition[a].id = a
    BY <1>4, CapturesAre DEF CapturePacket, Archiving
  <2> HIDE DEF a
  <2>4. p.source = <<"capture", a, i>> /\ p.class = "archive_observation"
    BY <2>1, <2>3 DEF ArchivePacket
  <2>5. p.source[1] = "capture" /\ p.source[2] = a /\ p.source[3] = i
    BY <2>4
  <2>6. DerivedFromCapture(entry, files)
    BY <1>1, <2>1, <2>2, <2>4, <2>5 DEF DerivedFromCapture
  <2> QED BY <1>1, <2>2, <2>4, <2>5, <2>6 DEF Derived
<1> QED BY <1>2, <1>3, <1>4, PacketIs DEF entry

\* Its class and its lane tell what a packet comes from.
LEMMA ClassIs ==
    ASSUME NEW options, Sensible(options), NEW n \in 1..Len(Sources(options)), NEW p \in PacketsOf(Sources(options)[n])
    PROVE  /\ p.class = "archive_observation" <=> Sources(options)[n].kind = "archive"
           /\ p.source[1] = "scale" <=> Sources(options)[n].kind = "scale"
           /\ Sources(options)[n].kind = "archive" => p.origin = Sources(options)[n].of.origin
           /\ p.lane = "attested_semantic" =>
                 /\ Replaying(options, n)
                 /\ \E f \in Replays[n].fields :
                       p.concept = Replays[n].resource /\ p.semantic = f.semantic /\ p.field = f.id
<1>1. CASE ReplayPacket(options, n, p)
  <2>1. PICK f \in Replays[n].fields : p = E2Packet(Replays[n], f)
    BY <1>1 DEF ReplayPacket
  <2>2. /\ p.class # "archive_observation" /\ p.source = <<"bundle", Replays[n].id>>
        /\ p.concept = Replays[n].resource /\ p.semantic = f.semantic /\ p.field = f.id
    BY <2>1 DEF E2Packet
  <2>3. Replaying(options, n) /\ Sources(options)[n].kind = "replay" /\ p.source[1] = "bundle"
    BY <1>1, <2>2 DEF ReplayPacket, Replaying
  <2> QED BY <2>2, <2>3
<1>2. CASE FixturePacket(options, n, p)
  <2>1. PICK i \in 1..options.scale : p = ScalePacket(i, options.createdAt)
    BY <1>2 DEF FixturePacket
  <2>2. p.class # "archive_observation" /\ p.source = <<"scale">> /\ p.lane # "attested_semantic"
    BY <2>1 DEF ScalePacket
  <2>3. Sources(options)[n].kind = "scale" /\ p.source[1] = "scale"
    BY <1>2, <2>2 DEF FixturePacket, Scaling
  <2> QED BY <2>2, <2>3
<1>3. ASSUME NEW m \in DOMAIN options.acquisitions, CapturePacket(options, n, m, p)
      PROVE  /\ p.class = "archive_observation" /\ Sources(options)[n].kind = "archive" /\ p.source[1] = "capture"
             /\ p.origin = Sources(options)[n].of.origin /\ p.lane # "attested_semantic"
  <2> DEFINE a == Acquisition[options.acquisitions[m]]
  <2>1. PICK i \in DOMAIN a.captures : p = ArchivePacket(a, i)
    BY <1>3 DEF CapturePacket
  <2>2. Sources(options)[n].kind = "archive" /\ Sources(options)[n].of = a
    BY <1>3 DEF CapturePacket, Archiving
  <2> HIDE DEF a
  <2>3. /\ p.class = "archive_observation" /\ p.source = <<"capture", a.id, i>> /\ p.origin = a.origin
        /\ p.lane # "attested_semantic"
    BY <2>1 DEF ArchivePacket
  <2>4. p.source[1] = "capture"
    BY <2>3
  <2> QED BY <2>2, <2>3, <2>4
<1> QED BY <1>1, <1>2, <1>3, PacketIs

\* Every source has a packet.
LEMMA EachHasPackets ==
    ASSUME NEW options, Sensible(options), NEW n \in 1..Len(Sources(options))
    PROVE  PacketsOf(Sources(options)[n]) # {}
<1>1. CASE Replaying(options, n)
  <2>1. PacketsOf(Sources(options)[n]) = {E2Packet(Replays[n], f) : f \in Replays[n].fields}
    BY <1>1 DEF Replaying, PacketsOf
  <2>2. n \in DOMAIN Replays
    BY <1>1, SourcesAssumption, LenProperties DEF Replaying
  <2>3. Replays[n].fields # {}
    BY <2>2, SourcesAssumption
  <2> QED BY <2>1, <2>3
<1>2. CASE Scaling(options, n)
  <2>1. PacketsOf(Sources(options)[n]) = {ScalePacket(i, options.createdAt) : i \in 1..options.scale}
    BY <1>2 DEF Scaling, PacketsOf
  <2>2. options.scale \in Nat /\ options.scale # 0
    <3>1. options.scale \in Nat /\ Scales(options) \in {0, 1} /\ Len(Replays) \in Nat
      BY SourcesAre DEF Sensible, Scales
    <3>2. ASSUME options.scale = 0 PROVE FALSE
      <4>1. Scales(options) = 0
        BY <3>2 DEF Scales
      <4>2. Len(Sources(options)) = Len(Replays) + Scales(options) + Len(options.acquisitions) /\ Len(options.acquisitions) \in Nat
        BY SourcesAre
      <4>3. 1 \in 1..Len(options.acquisitions) /\ Len(Replays) + 0 + 1 = n
        BY <1>2, <3>1, <4>1, <4>2 DEF Scaling
      <4>4. Sources(options)[Len(Replays) + Scales(options) + 1] =
                [kind |-> "archive", of |-> Acquisition[options.acquisitions[1]]]
        BY <4>3, SourcesAre
      <4>6. Sources(options)[n].kind = "archive"
        BY <4>1, <4>3, <4>4
      <4> QED BY <1>2, <4>6 DEF Scaling
    <3> QED BY <3>1, <3>2
  <2>3. 1 \in 1..options.scale
    BY <2>2
  <2> QED BY <2>1, <2>3
<1>3. ASSUME NEW m \in DOMAIN options.acquisitions, Archiving(options, n, m)
      PROVE  PacketsOf(Sources(options)[n]) # {}
  <2> DEFINE a == Acquisition[options.acquisitions[m]]
  <2>1. PacketsOf(Sources(options)[n]) = {ArchivePacket(a, i) : i \in DOMAIN a.captures}
    BY <1>3 DEF Archiving, PacketsOf
  <2>2. Len(a.captures) \in Nat \ {0} /\ DOMAIN a.captures = 1..Len(a.captures)
    BY <1>3, CapturesAre DEF Archiving
  <2>3. 1 \in DOMAIN a.captures
    BY <2>2
  <2> QED BY <2>1, <2>3
<1> QED BY <1>1, <1>2, <1>3, SourceIs

(***************************************************************************)
(* What a build has written.  The artifacts of a build are those that its  *)
(* options and the sources it has compiled call for, at each stage.        *)
(***************************************************************************)
CompiledIn(e) == {Sources(e.options)[n] : n \in 1..e.done}
ArchivesIn(e) == {s \in CompiledIn(e) : s.kind = "archive"}
DeltasIn(e)   == UNION {DeltasOf(source.of) : source \in ArchivesIn(e)}
ProofsIn(e)   == UNION {{ProofOf(p, source.of.operation) : p \in PacketsOf(source)} : source \in CompiledIn(e)}
ReplayedIn(e) == {source.of : source \in {s \in CompiledIn(e) : s.kind = "replay"}}
ConceptsIn(e) == UNION {{op.resource} \cup {f.semantic : f \in op.fields} : op \in ReplayedIn(e)}
MappingsIn(e) == UNION {{<<f.id, f.semantic>> : f \in op.fields} : op \in ReplayedIn(e)}
ViewsIn(e) ==
    {[id |-> "public-source-statements", rows |-> Public(PacketsIn(e))],
     [id |-> "public-measurements", rows |-> {p \in Resolved(Public(PacketsIn(e))) : p.measured}]}
IndexIn(e) ==
    LET order == Sorted(PacketsIn(e))
    IN  [n \in DOMAIN order |-> CHOOSE proof \in ProofsIn(e) : proof.packet = order[n]]
ViewFiles(e) == [path \in {<<"view", view.id>> : view \in ViewsIn(e)} |->
                    CHOOSE view \in ViewsIn(e) : view.id = path[2]]
ReportIn(e) ==
    [mode              |-> ModeOf(e.options.acquisitions # <<>>, e.options.scale > 0),
     identities        |-> Cardinality(e.loaded),
     archiveProfiles   |-> Cardinality(ArchivesIn(e)),
     publicOrigins     |-> Cardinality(Origins(Public(PacketsIn(e)))),
     fixtureOrigins    |-> Cardinality(Origins(PacketsIn(e) \ Public(PacketsIn(e)))),
     operations        |-> Len(Replays) + Cardinality(ArchivesIn(e)) + (IF e.options.scale > 0 THEN 1 ELSE 0),
     packets           |-> Cardinality(PacketsIn(e)),
     publicPackets     |-> Cardinality(Public(PacketsIn(e))),
     resolvedPackets   |-> Cardinality(Resolved(PacketsIn(e))),
     deltas            |-> Cardinality(DeltasIn(e)),
     views             |-> Cardinality(ViewsIn(e)),
     proofArtifacts    |-> Cardinality(ProofArtifacts(e.artifacts))]
ManifestIn(e) ==
    LET report == e.artifacts[<<"report">>] IN
    [selection |-> e.loaded, createdAt |-> e.options.createdAt,
     mode |-> report.mode.archive, artifacts |-> e.artifacts,
     views |-> {[id |-> view.id, artifact |-> view, rows |-> Cardinality(view.rows)] : view \in ViewsIn(e)},
     counts |-> [origins |-> Cardinality(e.loaded), concepts |-> Cardinality(ConceptsIn(e)),
                 mappings |-> Cardinality(MappingsIn(e)), packets |-> report.packets,
                 deltas |-> report.deltas, views |-> report.views,
                 proofArtifacts |-> report.proofArtifacts]]

(***************************************************************************)
(* The sources, counted.                                                   *)
(***************************************************************************)
LEMMA AcquisitionsDiffer ==
    ASSUME NEW options, Sensible(options)
    PROVE  /\ DOMAIN options.acquisitions = 1..Len(options.acquisitions)
           /\ \A m, n \in DOMAIN options.acquisitions :
                 Acquisition[options.acquisitions[m]] = Acquisition[options.acquisitions[n]] => m = n
           /\ \A m \in DOMAIN options.acquisitions : options.acquisitions[m] \in DOMAIN Acquisition
<1>1. /\ options.acquisitions \in Seq(DOMAIN Acquisition) /\ Len(options.acquisitions) \in Nat
      /\ DOMAIN options.acquisitions = 1..Len(options.acquisitions)
  BY LenProperties DEF Sensible
<1>2. \A m \in DOMAIN options.acquisitions : options.acquisitions[m] \in DOMAIN Acquisition
  BY <1>1, ElementOfSeq
<1>3. ASSUME NEW m \in DOMAIN options.acquisitions, NEW n \in DOMAIN options.acquisitions,
             Acquisition[options.acquisitions[m]] = Acquisition[options.acquisitions[n]]
      PROVE  m = n
  <2>1. /\ Acquisition[options.acquisitions[m]].id = options.acquisitions[m] /\ options.acquisitions[m] \in Nat
        /\ Acquisition[options.acquisitions[n]].id = options.acquisitions[n] /\ options.acquisitions[n] \in Nat
    BY <1>2, CapturesAre
  <2>2. options.acquisitions[m] = options.acquisitions[n]
    BY <1>3, <2>1
  <2>3. m \in Nat /\ n \in Nat
    BY <1>1
  <2>4. ~(m < n) /\ ~(n < m)
    BY <2>1, <2>2 DEF Sensible
  <2> QED BY <2>3, <2>4
<1> QED BY <1>1, <1>2, <1>3

LEMMA KindIs ==
    ASSUME NEW options, Sensible(options), NEW n \in 1..Len(Sources(options))
    PROVE  /\ Sources(options)[n].kind = "replay" => Replaying(options, n)
           /\ Sources(options)[n].kind = "scale" => Scaling(options, n)
           /\ Sources(options)[n].kind = "archive" => \E m \in DOMAIN options.acquisitions : Archiving(options, n, m)
<1>1. Replaying(options, n) => Sources(options)[n].kind = "replay"
  BY DEF Replaying
<1>2. Scaling(options, n) => Sources(options)[n].kind = "scale"
  BY DEF Scaling
<1>3. \A m \in DOMAIN options.acquisitions : Archiving(options, n, m) => Sources(options)[n].kind = "archive"
  BY DEF Archiving
<1>4. Replaying(options, n) \/ Scaling(options, n) \/ \E m \in DOMAIN options.acquisitions : Archiving(options, n, m)
  BY SourceIs
<1> QED BY <1>1, <1>2, <1>3, <1>4

LEMMA SourcesDiffer ==
    ASSUME NEW options, Sensible(options), NEW m \in 1..Len(Sources(options)), NEW n \in 1..Len(Sources(options)),
           Sources(options)[m] = Sources(options)[n]
    PROVE  m = n
<1>1. CASE Replaying(options, m)
  <2>1. Sources(options)[m].kind = "replay" /\ Sources(options)[m].of = Replays[m] /\ m \in 1..Len(Replays)
    BY <1>1 DEF Replaying
  <2>2. Replaying(options, n)
    BY <2>1, KindIs
  <2>3. Sources(options)[n].of = Replays[n] /\ n \in 1..Len(Replays)
    BY <2>2 DEF Replaying
  <2>4. m \in DOMAIN Replays /\ n \in DOMAIN Replays
    BY <2>1, <2>3, SourcesAssumption, LenProperties
  <2>5. Replays[m].id = Replays[n].id
    BY <2>1, <2>3
  <2> QED BY <2>4, <2>5, SourcesAssumption
<1>2. CASE Scaling(options, m)
  <2>1. Sources(options)[m].kind = "scale"
    BY <1>2 DEF Scaling
  <2>2. Scaling(options, n)
    BY <2>1, KindIs
  <2> QED BY <1>2, <2>2 DEF Scaling
<1>3. ASSUME NEW k \in DOMAIN options.acquisitions, Archiving(options, m, k) PROVE m = n
  <2>1. Sources(options)[m].kind = "archive" /\ Sources(options)[m].of = Acquisition[options.acquisitions[k]]
    BY <1>3 DEF Archiving
  <2>2. PICK l \in DOMAIN options.acquisitions : Archiving(options, n, l)
    BY <2>1, KindIs
  <2>3. Sources(options)[n].of = Acquisition[options.acquisitions[l]]
    BY <2>2 DEF Archiving
  <2>4. k = l
    BY <2>1, <2>3, AcquisitionsDiffer
  <2> QED BY <1>3, <2>2, <2>4 DEF Archiving
<1> QED BY <1>1, <1>2, <1>3, SourceIs

Archived(e) == {s.of : s \in ArchivesIn(e)}

\* The report counts what was compiled.
LEMMA CompiledCount ==
    ASSUME NEW e, IsBuilder(e), e.done = Len(Sources(e.options))
    PROVE  LET Q == Len(e.options.acquisitions) IN
           /\ Cardinality(CompiledIn(e)) = Len(Replays) + Q + (IF e.options.scale > 0 THEN 1 ELSE 0)
           /\ Cardinality(ArchivesIn(e)) = Q /\ Cardinality(Archived(e)) = Q
           /\ e.options.acquisitions # <<>> <=> ArchivesIn(e) # {}
           /\ e.options.scale > 0 <=> \E s \in CompiledIn(e) : s.kind = "scale"
<1> DEFINE o == e.options
<1> DEFINE L == Len(Sources(o))
<1> DEFINE R == Len(Replays)
<1> DEFINE K == Scales(o)
<1> DEFINE Q == Len(o.acquisitions)
<1>1. /\ Sensible(o) /\ L \in Nat /\ R \in Nat /\ Q \in Nat /\ L = R + K + Q /\ DOMAIN Sources(o) = 1..L
      /\ DOMAIN o.acquisitions = 1..Q /\ o.scale \in Nat
  BY SourcesAre, AcquisitionsDiffer DEF IsBuilder, Sensible
<1>2. K = IF o.scale > 0 THEN 1 ELSE 0
  BY <1>1 DEF Scales
<1>3. CompiledIn(e) = {Sources(o)[n] : n \in 1..L} /\ CompiledIn(e) = Range(Sources(o))
  BY <1>1 DEF CompiledIn, Range
<1>4. Cardinality(CompiledIn(e)) = L
  <2>1. \A i, j \in 1..L : Sources(o)[i] = Sources(o)[j] => i = j
    BY <1>1, SourcesDiffer
  <2> HIDE DEF L, o
  <2> QED BY <1>1, <1>3, <2>1, RangeSize
<1> DEFINE f == [m \in 1..Q |-> [kind |-> "archive", of |-> Acquisition[o.acquisitions[m]]]]
<1> DEFINE g == [m \in 1..Q |-> Acquisition[o.acquisitions[m]]]
<1>5. ASSUME NEW m \in 1..Q PROVE f[m] \in ArchivesIn(e)
  <2> DEFINE n == R + K + m
  <2>1. n \in 1..L
    <3>1. K \in {0, 1}
      BY DEF Scales
    <3> HIDE DEF K, R, Q, L, o
    <3> QED BY <1>1, <3>1
  <2>2. Sources(o)[R + K + m] = f[m]
    BY <1>1, SourcesAre
  <2> HIDE DEF n
  <2>3. f[m] \in CompiledIn(e)
    <3>1. Sources(o)[n] = f[m]
      BY <2>2 DEF n
    <3> HIDE DEF f, L, o
    <3> QED BY <1>3, <2>1, <3>1
  <2>4. f[m].kind = "archive"
    OBVIOUS
  <2> QED BY <2>3, <2>4 DEF ArchivesIn
<1>6. ASSUME NEW s \in ArchivesIn(e) PROVE \E m \in 1..Q : f[m] = s
  <2>1. PICK n \in 1..L : s = Sources(o)[n]
    BY <1>3 DEF ArchivesIn
  <2>2. Sources(o)[n].kind = "archive"
    BY <2>1 DEF ArchivesIn
  <2>3. PICK m \in DOMAIN o.acquisitions : Archiving(o, n, m)
    BY <1>1, <2>2, KindIs
  <2> QED BY <1>1, <2>1, <2>3 DEF Archiving
<1>7. \A i, j \in 1..Q : g[i] = g[j] => i = j
  <2>1. \A i, j \in 1..Q : Acquisition[o.acquisitions[i]] = Acquisition[o.acquisitions[j]] => i = j
    BY <1>1, AcquisitionsDiffer
  <2> QED BY <2>1
<1>8. \A m \in 1..Q : f[m].of = g[m]
  OBVIOUS
<1>9. IsFiniteSet(1..Q) /\ Cardinality(1..Q) = Q
  BY <1>1, UpTo
<1>10. f \in [1..Q -> ArchivesIn(e)]
  BY <1>5
<1>11. DOMAIN g = 1..Q
  OBVIOUS
<1> HIDE DEF f, g, o, Q, L, R, K
<1>12. Cardinality(ArchivesIn(e)) = Q
  <2>1. \A i, j \in 1..Q : f[i] = f[j] => i = j
    BY <1>7, <1>8
  <2> QED BY <1>6, <1>9, <1>10, <2>1, SameSize
<1>13. Cardinality(Archived(e)) = Q
  <2>1. Archived(e) = Range(g)
    BY <1>5, <1>6, <1>8, <1>11 DEF Archived, Range
  <2> QED BY <1>1, <1>7, <1>11, <2>1, RangeSize
<1>14. o.acquisitions # <<>> <=> ArchivesIn(e) # {}
  <2>1. o.acquisitions = <<>> <=> Q = 0
    BY <1>1, EmptySeq DEF Sensible, Q
  <2>2. Q # 0 <=> 1 \in 1..Q
    BY <1>1
  <2>3. Q = 0 => 1..Q = {}
    BY <1>1
  <2> QED BY <1>5, <1>6, <2>1, <2>2, <2>3
<1>15. o.scale > 0 <=> \E s \in CompiledIn(e) : s.kind = "scale"
  <2>1. ASSUME o.scale > 0 PROVE \E s \in CompiledIn(e) : s.kind = "scale"
    <3>1. K = 1
      BY <1>2, <2>1
    <3>2. R + 1 \in 1..L
      BY <1>1, <3>1
    <3>3. Sources(o)[R + 1].kind = "scale"
      <4>1. Sources(o)[Len(Replays) + 1] =
                [kind |-> "scale", of |-> [fields |-> o.scale, at |-> o.createdAt, operation |-> "fixture.scaleCorpus"]]
        BY <1>1, <3>1, SourcesAre DEF K
      <4> QED BY <4>1 DEF R
    <3> QED BY <1>3, <3>2, <3>3
  <2>2. ASSUME NEW s \in CompiledIn(e), s.kind = "scale" PROVE o.scale > 0
    <3>1. PICK n \in 1..L : s = Sources(o)[n]
      BY <1>3
    <3>2. Scaling(o, n)
      BY <1>1, <2>2, <3>1, KindIs DEF L
    <3>3. PacketsOf(Sources(o)[n]) # {}
      BY <1>1, EachHasPackets DEF L
    <3>4. PacketsOf(Sources(o)[n]) = {ScalePacket(i, o.createdAt) : i \in 1..o.scale}
      BY <3>2 DEF Scaling, PacketsOf
    <3>5. 1..o.scale # {}
      BY <3>3, <3>4
    <3> QED BY <1>1, <3>5
  <2> QED BY <2>1, <2>2
<1>16. Cardinality(CompiledIn(e)) = R + Q + (IF o.scale > 0 THEN 1 ELSE 0)
  BY <1>1, <1>2, <1>4
<1> QED BY <1>12, <1>13, <1>14, <1>15, <1>16 DEF Q, R, o

(***************************************************************************)
(* The deltas, the proofs and the index over them.                         *)
(***************************************************************************)
CompareCaptures(a, d) ==
    \E i, j \in DOMAIN a.captures :
        d = [before |-> ArchivePacket(a, i), after |-> ArchivePacket(a, j), batch |-> a.id]

LEMMA DeltasOfAre ==
    ASSUME NEW k \in DOMAIN Acquisition
    PROVE  /\ IsFiniteSet(DeltasOf(Acquisition[k]))
           /\ \A d \in DeltasOf(Acquisition[k]) : CompareCaptures(Acquisition[k], d) /\ d.before.lexical # d.after.lexical
<1> DEFINE a == Acquisition[k]
<1> DEFINE captures == a.captures
<1> DEFINE P(n) == ArchivePacket(a, ByTime(captures)[n])
<1> DEFINE T == {m \in 1..(Len(captures) - 1) : P(m).lexical # P(m + 1).lexical}
<1> DEFINE D(n) == [before |-> P(n), after |-> P(n + 1), batch |-> a.id]
<1>1. DeltasOf(a) = {D(n) : n \in T}
  BY DEF DeltasOf
<1>2. /\ captures \in Seq(Range(captures)) /\ \A i \in DOMAIN captures : captures[i].at \in Nat
      /\ Len(captures) \in Nat /\ DOMAIN captures = 1..Len(captures)
  BY CapturesAre
<1>3. T \in SUBSET (1..Len(captures))
  BY <1>2
<1>4. IsFiniteSet(T)
  <2>1. IsFiniteSet(1..Len(captures))
    BY <1>2, UpTo
  <2> HIDE DEF T, captures
  <2> QED BY <1>3, <2>1, FS_Subset
<1>5. IsFiniteSet(DeltasOf(a))
  <2> DEFINE g == [n \in T |-> D(n)]
  <2> DEFINE U == DeltasOf(a)
  <2> HIDE DEF T, D
  <2>1. g \in [T -> U] /\ \A d \in U : \E n \in T : g[n] = d
    BY <1>1
  <2> HIDE DEF g, U
  <2>2. g \in Surjection(T, U)
    BY <2>1, Fun_IsSurj
  <2>3. IsFiniteSet(U)
    BY <1>4, <2>2, FS_Surjection
  <2> QED BY <2>3 DEF U
<1>6. ASSUME NEW d \in DeltasOf(a) PROVE CompareCaptures(a, d) /\ d.before.lexical # d.after.lexical
  <2>1. PICK n \in T : d = D(n)
    BY <1>1
  <2>2. n \in DOMAIN captures /\ n + 1 \in DOMAIN captures
    BY <1>2
  <2>3. ByTime(captures)[n] \in DOMAIN captures /\ ByTime(captures)[n + 1] \in DOMAIN captures
    <3> HIDE DEF captures
    <3> QED BY <1>2, <2>2, ByTimeIs
  <2>4. d.before.lexical # d.after.lexical
    <3>1. P(n).lexical # P(n + 1).lexical
      OBVIOUS
    <3> HIDE DEF P
    <3> QED BY <2>1, <3>1
  <2> QED BY <2>1, <2>3, <2>4 DEF CompareCaptures
<1> QED BY <1>5, <1>6

LEMMA CompiledIsFinite ==
    ASSUME NEW e, IsBuilder(e)
    PROVE  /\ IsFiniteSet(CompiledIn(e)) /\ 1..e.done \subseteq 1..Len(Sources(e.options)) /\ e.done \in Nat
           /\ CompiledIn(e) \subseteq Range(Sources(e.options))
<1>1. Sensible(e.options) /\ e.done \in 0..Len(Sources(e.options))
  BY DEF IsBuilder
<1>2. Len(Sources(e.options)) \in Nat /\ DOMAIN Sources(e.options) = 1..Len(Sources(e.options))
  BY <1>1, SourcesAre
<1>3. IsFiniteSet(Range(Sources(e.options)))
  BY <1>2, RangeSize
<1>4. CompiledIn(e) \in SUBSET Range(Sources(e.options)) /\ 1..e.done \subseteq 1..Len(Sources(e.options))
  BY <1>1, <1>2 DEF CompiledIn, Range
<1>5. IsFiniteSet(CompiledIn(e))
  BY <1>3, <1>4, FS_Subset
<1> QED BY <1>1, <1>4, <1>5

\* An acquisition that was compiled.
LEMMA ArchiveIs ==
    ASSUME NEW e, IsBuilder(e), NEW s \in ArchivesIn(e)
    PROVE  \E n \in 1..e.done : \E m \in DOMAIN e.options.acquisitions :
              /\ s = Sources(e.options)[n] /\ Archiving(e.options, n, m)
              /\ s.of = Acquisition[e.options.acquisitions[m]]
<1>1. PICK n \in 1..e.done : s = Sources(e.options)[n]
  BY DEF ArchivesIn, CompiledIn
<1>2. s.kind = "archive" /\ n \in 1..Len(Sources(e.options)) /\ Sensible(e.options)
  BY CompiledIsFinite DEF ArchivesIn, IsBuilder
<1>3. PICK m \in DOMAIN e.options.acquisitions : Archiving(e.options, n, m)
  BY <1>1, <1>2, KindIs
<1>4. s.of = Acquisition[e.options.acquisitions[m]]
  BY <1>1, <1>3 DEF Archiving
<1> QED BY <1>1, <1>3, <1>4

LEMMA DeltasRanked ==
    ASSUME NEW b \in Builders, NEW e, IsBuilder(e), e.options \in OptionSet[b]
    PROVE  /\ IsFiniteSet(DeltasIn(e))
           /\ \A p, q \in DeltasIn(e) : Rank(p) \in Nat /\ (Rank(p) = Rank(q) => p = q)
<1> DEFINE F == ArchivesIn(e)
<1> DEFINE T == {DeltasOf(source.of) : source \in F}
<1> DEFINE g == [source \in F |-> DeltasOf(source.of)]
<1>1. DeltasIn(e) = UNION T
  BY DEF DeltasIn
<1>2. \A x \in T : IsFiniteSet(x)
  <2> SUFFICES ASSUME NEW s \in ArchivesIn(e) PROVE IsFiniteSet(DeltasOf(s.of))
    OBVIOUS
  <2>1. PICK n \in 1..e.done : \E m \in DOMAIN e.options.acquisitions :
              Archiving(e.options, n, m) /\ s.of = Acquisition[e.options.acquisitions[m]]
    BY ArchiveIs
  <2>2. PICK m \in DOMAIN e.options.acquisitions :
              Archiving(e.options, n, m) /\ s.of = Acquisition[e.options.acquisitions[m]]
    BY <2>1
  <2>3. e.options.acquisitions[m] \in DOMAIN Acquisition
    BY <2>2 DEF Archiving
  <2> QED BY <2>2, <2>3, DeltasOfAre
<1>3. g \in [F -> T] /\ \A x \in T : \E s \in F : g[s] = x
  OBVIOUS
<1>4. IsFiniteSet(F)
  <2>1. F \in SUBSET CompiledIn(e)
    BY DEF ArchivesIn
  <2>2. IsFiniteSet(CompiledIn(e))
    BY CompiledIsFinite
  <2> QED BY <2>1, <2>2, FS_Subset
<1>5. IsFiniteSet(T)
  <2> HIDE DEF F, T, g
  <2>1. g \in Surjection(F, T)
    BY <1>3, Fun_IsSurj
  <2> QED BY <1>4, <2>1, FS_Surjection
<1>6. IsFiniteSet(UNION T)
  <2> HIDE DEF T
  <2> QED BY <1>2, <1>5, FS_UNION
<1> DEFINE sources == Range(Sources(e.options))
<1>7. F \subseteq {s \in sources : s.kind = "archive"}
  BY CompiledIsFinite DEF ArchivesIn
<1>8. UNION T \subseteq UNION {DeltasOf(source.of) : source \in {s \in sources : s.kind = "archive"}}
  <2> HIDE DEF F, sources
  <2> QED BY <1>7
<1>9. \A p, q \in UNION {DeltasOf(source.of) : source \in {s \in sources : s.kind = "archive"}} :
          Rank(p) \in Nat /\ (Rank(p) = Rank(q) => p = q)
  BY DigestAssumption
<1> HIDE DEF F, T, g, sources
<1> QED BY <1>1, <1>6, <1>8, <1>9

\* Two sources have no packet in common.
Disjoint(e) ==
    \A m, n \in 1..e.done : m # n => PacketsOf(Sources(e.options)[m]) \cap PacketsOf(Sources(e.options)[n]) = {}

\* The index has a proof of every packet, in the order of the packets.
LEMMA IndexIs ==
    ASSUME NEW e, IsFiniteSet(PacketsIn(e)), \A p, q \in PacketsIn(e) : Rank(p) \in Nat /\ (Rank(p) = Rank(q) => p = q)
    PROVE  LET s == IndexIn(e)
               N == Cardinality(PacketsIn(e))
               order == Sorted(PacketsIn(e))
           IN  /\ N \in Nat /\ s = [n \in 1..N |-> s[n]] /\ DOMAIN s = 1..N
               /\ \A n \in 1..N : s[n] \in ProofsIn(e) /\ s[n].packet = order[n]
               /\ Range(order) = PacketsIn(e) /\ DOMAIN order = 1..N
               /\ \A m, n \in 1..N : m < n => Rank(order[m]) < Rank(order[n])
               /\ \A m, n \in 1..N : order[m] = order[n] => m = n
<1> DEFINE N == Cardinality(PacketsIn(e))
<1> DEFINE order == Sorted(PacketsIn(e))
<1>1. /\ N \in Nat /\ DOMAIN order = 1..N /\ Range(order) = PacketsIn(e)
      /\ \A m, n \in 1..N : m < n => Rank(order[m]) < Rank(order[n])
      /\ \A m, n \in 1..N : order[m] = order[n] => m = n
  BY SortedIs
<1>2. \A p \in PacketsIn(e) : \E proof \in ProofsIn(e) : proof.packet = p
  <2> SUFFICES ASSUME NEW p \in PacketsIn(e) PROVE \E proof \in ProofsIn(e) : proof.packet = p
    OBVIOUS
  <2>1. PICK n \in 1..e.done : p \in PacketsOf(Sources(e.options)[n])
    BY DEF PacketsIn
  <2>2. ProofOf(p, Sources(e.options)[n].of.operation) \in ProofsIn(e)
    BY <2>1 DEF ProofsIn, CompiledIn
  <2>3. ProofOf(p, Sources(e.options)[n].of.operation).packet = p
    BY DEF ProofOf
  <2> QED BY <2>2, <2>3
<1>3. IndexIn(e) = [n \in 1..N |-> CHOOSE proof \in ProofsIn(e) : proof.packet = order[n]]
  BY <1>1 DEF IndexIn
<1> DEFINE s == IndexIn(e)
<1>4. s = [n \in 1..N |-> s[n]] /\ DOMAIN s = 1..N
  BY <1>3
<1>5. ASSUME NEW n \in 1..N PROVE s[n] \in ProofsIn(e) /\ s[n].packet = order[n]
  <2>1. order[n] \in PacketsIn(e)
    BY <1>1 DEF Range
  <2>2. s[n] = CHOOSE proof \in ProofsIn(e) : proof.packet = order[n]
    BY <1>3
  <2> HIDE DEF s, order, N
  <2> QED BY <1>2, <2>1, <2>2
<1> HIDE DEF s, order, N
<1> QED BY <1>1, <1>4, <1>5 DEF s, order, N

\* A proof is one of a packet of a source.
LEMMA ProofIs ==
    ASSUME NEW e, NEW proof \in ProofsIn(e)
    PROVE  \E n \in 1..e.done :
              /\ proof.packet \in PacketsOf(Sources(e.options)[n])
              /\ proof = ProofOf(proof.packet, Sources(e.options)[n].of.operation)
              /\ proof.operation = Sources(e.options)[n].of.operation
              /\ proof.class = proof.packet.class
<1>1. PICK n \in 1..e.done : \E p \in PacketsOf(Sources(e.options)[n]) : proof = ProofOf(p, Sources(e.options)[n].of.operation)
  BY DEF ProofsIn, CompiledIn
<1>2. PICK p \in PacketsOf(Sources(e.options)[n]) : proof = ProofOf(p, Sources(e.options)[n].of.operation)
  BY <1>1
<1>3. proof.packet = p /\ proof.operation = Sources(e.options)[n].of.operation /\ proof.class = p.class
  BY <1>2 DEF ProofOf
<1> QED BY <1>2, <1>3

\* The operations of the proofs are those of the sources.
LEMMA OperationsAre ==
    ASSUME NEW e, IsBuilder(e), Disjoint(e), NEW entries, entries \subseteq ProofsIn(e),
           {entry.packet : entry \in entries} = PacketsIn(e)
    PROVE  {entry.operation : entry \in entries} = {s.of.operation : s \in CompiledIn(e)}
<1>1. ASSUME NEW entry \in entries PROVE \E s \in CompiledIn(e) : s.of.operation = entry.operation
  BY ProofIs DEF CompiledIn
<1>2. ASSUME NEW s \in CompiledIn(e) PROVE \E entry \in entries : s.of.operation = entry.operation
  <2>1. PICK n \in 1..e.done : s = Sources(e.options)[n]
    BY DEF CompiledIn
  <2>2. PacketsOf(Sources(e.options)[n]) # {}
    <3>1. Sensible(e.options) /\ n \in 1..Len(Sources(e.options))
      BY CompiledIsFinite DEF IsBuilder
    <3> QED BY <3>1, EachHasPackets
  <2>3. PICK p \in PacketsOf(Sources(e.options)[n]) : TRUE
    BY <2>2
  <2>4. p \in PacketsIn(e)
    BY <2>3 DEF PacketsIn
  <2>5. PICK entry \in entries : entry.packet = p
    BY <2>4
  <2>6. PICK m \in 1..e.done :
           p \in PacketsOf(Sources(e.options)[m]) /\ entry.operation = Sources(e.options)[m].of.operation
    BY <2>5, ProofIs
  <2>7. m = n
    BY <2>3, <2>6 DEF Disjoint
  <2> QED BY <2>1, <2>6, <2>7
<1> QED BY <1>1, <1>2

(***************************************************************************)
(* What the files of a build hold at each stage.                           *)
(***************************************************************************)
Segmented == Indexed \cup After
Canonized == Segmented \ {"canon"}
Proved    == Canonized \ {"proofs"}
Viewed    == Proved \ {"views"}
Reported  == Viewed \ {"report"}

Semantics(e) == With(At(<<"concepts">>, ConceptsIn(e)), At(<<"mappings">>, MappingsIn(e)))

Contents(e, files) ==
    /\ e.pc \in {"compile"} \cup Segmented => <<"catalog">> \in DOMAIN files
    /\ \A n \in 1..e.done : Carries(files, EvidenceOf(Sources(e.options)[n]))
    /\ e.pc \in Segmented =>
          /\ Holds("packets", files, Cut("packets", Entries(PacketsIn(e))))
          /\ Holds("deltas", files, Cut("deltas", Entries(DeltasIn(e))))
    /\ e.pc \in {"canon", "proofs"} => Having("index", files) = {}
    /\ e.pc \in Canonized => Carries(files, Semantics(e))
    /\ e.pc \in Proved => Holds("index", files, Cut("index", IndexIn(e)))
    /\ e.pc \in Viewed => Carries(files, ViewFiles(e))
    /\ e.pc \in Reported => Carries(files, At(<<"report">>, ReportIn(e)))

\* The checks that every source has passed.
Checked(e) ==
    /\ Disjoint(e)
    /\ \A n \in 1..e.done : Sources(e.options)[n].kind = "scale" => Sources(e.options)[n].of.fields <= MaxBody

(***************************************************************************)
(* What a runtime finds in the directory of a build that has succeeded.    *)
(***************************************************************************)
Standing(b, e, files) ==
    /\ b \in Builders /\ IsBuilder(e) /\ e.options \in OptionSet[b] /\ e.done = Len(Sources(e.options))
    /\ Checked(e) /\ e.pc = "built" /\ Contents(e, files) /\ Contents(e, e.artifacts) /\ DOMAIN files = DOMAIN e.artifacts

LEMMA StandingIs ==
    ASSUME NEW b, NEW e, NEW files, Standing(b, e, files)
    PROVE  /\ b \in Builders /\ IsBuilder(e) /\ Sensible(e.options) /\ e.options \in OptionSet[b]
           /\ e.done = Len(Sources(e.options)) /\ Disjoint(e) /\ DOMAIN files = DOMAIN e.artifacts
           /\ <<"catalog">> \in DOMAIN files
           /\ \A n \in 1..e.done : Carries(files, EvidenceOf(Sources(e.options)[n]))
           /\ Holds("packets", files, Cut("packets", Entries(PacketsIn(e))))
           /\ Holds("deltas", files, Cut("deltas", Entries(DeltasIn(e))))
           /\ Carries(files, Semantics(e))
           /\ Holds("index", files, Cut("index", IndexIn(e)))
           /\ Carries(files, ViewFiles(e))
           /\ files[<<"report">>] = ReportIn(e) /\ e.artifacts[<<"report">>] = ReportIn(e)
<1>1. "built" \in Segmented /\ "built" \in Canonized /\ "built" \in Proved /\ "built" \in Viewed /\ "built" \in Reported
  BY DEF Segmented, Canonized, Proved, Viewed, Reported, After
<1>2. e.pc = "built" /\ Contents(e, files) /\ Contents(e, e.artifacts)
  BY DEF Standing
<1>3. /\ Carries(files, At(<<"report">>, ReportIn(e))) /\ Carries(e.artifacts, At(<<"report">>, ReportIn(e)))
  BY <1>1, <1>2 DEF Contents
<1>4. files[<<"report">>] = ReportIn(e) /\ e.artifacts[<<"report">>] = ReportIn(e)
  BY <1>3 DEF Carries, At
<1>5. /\ <<"catalog">> \in DOMAIN files
      /\ \A n \in 1..e.done : Carries(files, EvidenceOf(Sources(e.options)[n]))
      /\ Holds("packets", files, Cut("packets", Entries(PacketsIn(e))))
      /\ Holds("deltas", files, Cut("deltas", Entries(DeltasIn(e))))
  BY <1>1, <1>2 DEF Contents
<1>6. /\ Carries(files, Semantics(e))
      /\ Holds("index", files, Cut("index", IndexIn(e)))
      /\ Carries(files, ViewFiles(e))
  BY <1>1, <1>2 DEF Contents
<1> QED BY <1>4, <1>5, <1>6 DEF Standing, IsBuilder, Checked

LEMMA CountsAre ==
    ASSUME NEW b, NEW e, NEW files, Standing(b, e, files)
    PROVE  LET m == ManifestIn(e) IN
           /\ m.counts.packets = Cardinality(PacketsIn(e)) /\ m.counts.deltas = Cardinality(DeltasIn(e))
           /\ m.counts.concepts = Cardinality(ConceptsIn(e)) /\ m.counts.mappings = Cardinality(MappingsIn(e))
           /\ m.counts.origins = Cardinality(e.loaded) /\ m.counts.views = Cardinality(ViewsIn(e))
           /\ m.counts.proofArtifacts = Cardinality(ProofArtifacts(e.artifacts))
           /\ m.selection = e.loaded /\ m.artifacts = e.artifacts
           /\ m.mode = (e.options.acquisitions # <<>>)
           /\ m.views = {[id |-> view.id, artifact |-> view, rows |-> Cardinality(view.rows)] : view \in ViewsIn(e)}
<1> DEFINE report == e.artifacts[<<"report">>]
<1>1. report = ReportIn(e)
  BY StandingIs
<1>2. /\ report.packets = Cardinality(PacketsIn(e)) /\ report.deltas = Cardinality(DeltasIn(e))
      /\ report.views = Cardinality(ViewsIn(e)) /\ report.proofArtifacts = Cardinality(ProofArtifacts(e.artifacts))
      /\ report.mode = ModeOf(e.options.acquisitions # <<>>, e.options.scale > 0)
  BY <1>1 DEF ReportIn
<1>3. report.mode.archive = (e.options.acquisitions # <<>>)
  BY <1>2 DEF ModeOf
<1>4. ManifestIn(e) =
        [selection |-> e.loaded, createdAt |-> e.options.createdAt,
         mode |-> report.mode.archive, artifacts |-> e.artifacts,
         views |-> {[id |-> view.id, artifact |-> view, rows |-> Cardinality(view.rows)] : view \in ViewsIn(e)},
         counts |-> [origins |-> Cardinality(e.loaded), concepts |-> Cardinality(ConceptsIn(e)),
                     mappings |-> Cardinality(MappingsIn(e)), packets |-> report.packets,
                     deltas |-> report.deltas, views |-> report.views,
                     proofArtifacts |-> report.proofArtifacts]]
  BY DEF ManifestIn
<1> HIDE DEF report
<1> QED BY <1>2, <1>3, <1>4

\* Packets and deltas are numbered without a gap.
LEMMA SequencesReconcile ==
    ASSUME NEW b, NEW e, NEW files, Standing(b, e, files)
    PROVE  /\ Cores("packets", files) = PacketsIn(e) /\ Cores("deltas", files) = DeltasIn(e)
           /\ SequenceReconciles("packets", files, ManifestIn(e).counts.packets)
           /\ SequenceReconciles("deltas", files, ManifestIn(e).counts.deltas)
<1>1. b \in Builders /\ IsBuilder(e) /\ e.options \in OptionSet[b]
  BY DEF Standing
<1>2. /\ IsFiniteSet(PacketsIn(e)) /\ \A p, q \in PacketsIn(e) : Rank(p) \in Nat /\ (Rank(p) = Rank(q) => p = q)
      /\ IsFiniteSet(DeltasIn(e)) /\ \A p, q \in DeltasIn(e) : Rank(p) \in Nat /\ (Rank(p) = Rank(q) => p = q)
  BY <1>1, PacketsRanked, DeltasRanked
<1>3. Holds("packets", files, Cut("packets", Entries(PacketsIn(e)))) /\ Holds("deltas", files, Cut("deltas", Entries(DeltasIn(e))))
  BY StandingIs
<1>4. Cores("packets", files) = PacketsIn(e) /\ SequenceReconciles("packets", files, Cardinality(PacketsIn(e)))
  BY <1>2, <1>3, SequenceHeld
<1>5. Cores("deltas", files) = DeltasIn(e) /\ SequenceReconciles("deltas", files, Cardinality(DeltasIn(e)))
  BY <1>2, <1>3, SequenceHeld
<1>6. ManifestIn(e).counts.packets = Cardinality(PacketsIn(e)) /\ ManifestIn(e).counts.deltas = Cardinality(DeltasIn(e))
  BY CountsAre
<1> QED BY <1>4, <1>5, <1>6

LEMMA SemanticsCarried ==
    ASSUME NEW e, NEW files, Carries(files, Semantics(e))
    PROVE  files[<<"concepts">>] = ConceptsIn(e) /\ files[<<"mappings">>] = MappingsIn(e)
<1> DEFINE x == At(<<"concepts">>, ConceptsIn(e))
<1> DEFINE y == At(<<"mappings">>, MappingsIn(e))
<1>1. /\ DOMAIN x = {<<"concepts">>} /\ x[<<"concepts">>] = ConceptsIn(e)
      /\ DOMAIN y = {<<"mappings">>} /\ y[<<"mappings">>] = MappingsIn(e) /\ <<"concepts">> # <<"mappings">>
  BY DEF At
<1>2. Semantics(e) = With(x, y)
  BY DEF Semantics
<1> HIDE DEF x, y
<1>3. /\ DOMAIN With(x, y) = DOMAIN x \cup DOMAIN y
      /\ \A p \in DOMAIN x : With(x, y)[p] = x[p]
      /\ \A p \in DOMAIN y \ DOMAIN x : With(x, y)[p] = y[p]
  BY WithIs
<1> QED BY <1>1, <1>2, <1>3 DEF Carries

\* The catalog that was carried along is the selection, if the two reads agree.
LEMMA CatalogAgrees ==
    ASSUME NEW b, NEW e, NEW files, Standing(b, e, files)
    PROVE  CatalogReconciles(ManifestIn(e), files) <=> files[<<"catalog">>] = e.loaded
<1>1. files[<<"concepts">>] = ConceptsIn(e) /\ files[<<"mappings">>] = MappingsIn(e)
  BY StandingIs, SemanticsCarried
<1>2. LET m == ManifestIn(e) IN
      /\ m.counts.concepts = Cardinality(ConceptsIn(e)) /\ m.counts.mappings = Cardinality(MappingsIn(e))
      /\ m.counts.origins = Cardinality(e.loaded) /\ m.selection = e.loaded
  BY CountsAre
<1> QED BY <1>1, <1>2 DEF CatalogReconciles

\* A semantic packet is of a replayed operation, whose concepts are carried along.
LEMMA SemanticsAgree ==
    ASSUME NEW b, NEW e, NEW files, Standing(b, e, files)
    PROVE  SemanticsReconcile(files)
<1>1. /\ Cores("packets", files) = PacketsIn(e) /\ Sensible(e.options) /\ IsBuilder(e)
      /\ files[<<"concepts">>] = ConceptsIn(e) /\ files[<<"mappings">>] = MappingsIn(e)
  BY SequencesReconcile, StandingIs, SemanticsCarried
<1> SUFFICES ASSUME NEW p \in PacketsIn(e), p.lane = "attested_semantic"
             PROVE  {p.concept, p.semantic} \subseteq ConceptsIn(e) /\ <<p.field, p.semantic>> \in MappingsIn(e)
  BY <1>1 DEF SemanticsReconcile
<1>2. PICK n \in 1..e.done : p \in PacketsOf(Sources(e.options)[n])
  BY DEF PacketsIn
<1>3. n \in 1..Len(Sources(e.options))
  BY <1>1, CompiledIsFinite
<1>4. /\ Replaying(e.options, n)
      /\ \E f \in Replays[n].fields : p.concept = Replays[n].resource /\ p.semantic = f.semantic /\ p.field = f.id
  BY <1>1, <1>2, <1>3, ClassIs
<1>5. Replays[n] \in ReplayedIn(e)
  <2>1. Sources(e.options)[n] \in CompiledIn(e) /\ Sources(e.options)[n].kind = "replay" /\ Sources(e.options)[n].of = Replays[n]
    BY <1>4 DEF CompiledIn, Replaying
  <2> QED BY <2>1 DEF ReplayedIn
<1> QED BY <1>4, <1>5 DEF ConceptsIn, MappingsIn

\* A delta is of two captures of one acquisition, and both of its packets are there.
LEMMA DeltasAgree ==
    ASSUME NEW b, NEW e, NEW files, Standing(b, e, files)
    PROVE  DeltasReconcile(files)
<1>1. /\ Cores("packets", files) = PacketsIn(e) /\ Cores("deltas", files) = DeltasIn(e)
      /\ IsBuilder(e) /\ \A n \in 1..e.done : Carries(files, EvidenceOf(Sources(e.options)[n]))
  BY SequencesReconcile, StandingIs
<1> SUFFICES ASSUME NEW d \in DeltasIn(e)
             PROVE  /\ {d.before, d.after} \subseteq PacketsIn(e)
                    /\ d.before.class = "archive_observation" /\ d.after.class = "archive_observation"
                    /\ d.before.origin = d.after.origin /\ d.before.subject = d.after.subject
                    /\ d.before.field = d.after.field /\ d.before.lexical # d.after.lexical
                    /\ <<"acquisition", d.batch>> \in DOMAIN files
  BY <1>1 DEF DeltasReconcile
<1>2. PICK s \in ArchivesIn(e) : d \in DeltasOf(s.of)
  BY DEF DeltasIn
<1>3. PICK n \in 1..e.done, m \in DOMAIN e.options.acquisitions :
         /\ s = Sources(e.options)[n] /\ Archiving(e.options, n, m)
         /\ s.of = Acquisition[e.options.acquisitions[m]]
  BY <1>1, ArchiveIs
<1> DEFINE a == e.options.acquisitions[m]
<1>4. a \in DOMAIN Acquisition
  BY <1>3 DEF Archiving
<1>5. CompareCaptures(Acquisition[a], d) /\ d.before.lexical # d.after.lexical
  BY <1>2, <1>3, <1>4, DeltasOfAre
<1>6. PICK i, j \in DOMAIN Acquisition[a].captures :
         d = [before |-> ArchivePacket(Acquisition[a], i), after |-> ArchivePacket(Acquisition[a], j),
              batch |-> Acquisition[a].id]
  BY <1>5 DEF CompareCaptures
<1>7. /\ d.before = ArchivePacket(Acquisition[a], i) /\ d.after = ArchivePacket(Acquisition[a], j) /\ d.batch = a
  BY <1>4, <1>6, CapturesAre
<1>8. PacketsOf(Sources(e.options)[n]) = {ArchivePacket(Acquisition[a], k) : k \in DOMAIN Acquisition[a].captures}
  BY <1>3 DEF PacketsOf, Archiving
<1>9. d.before \in PacketsIn(e) /\ d.after \in PacketsIn(e)
  BY <1>7, <1>8 DEF PacketsIn
<1>10. <<"acquisition", a>> \in DOMAIN files
  BY <1>1, <1>3, CapturesCarried
<1> HIDE DEF a
<1>11. \A k : LET p == ArchivePacket(Acquisition[a], k) IN
              /\ p.class = "archive_observation" /\ p.origin = Acquisition[a].origin
              /\ p.subject = Acquisition[a].subject /\ p.field = "title"
  BY DEF ArchivePacket
<1> QED BY <1>5, <1>7, <1>9, <1>10, <1>11

\* The rows of a view are public packets.
LEMMA ViewsAgree ==
    ASSUME NEW b, NEW e, NEW files, Standing(b, e, files)
    PROVE  ViewsReconcile(ManifestIn(e), files)
<1>1. /\ Cores("packets", files) = PacketsIn(e) /\ Carries(files, ViewFiles(e))
      /\ ManifestIn(e).views =
            {[id |-> view.id, artifact |-> view, rows |-> Cardinality(view.rows)] : view \in ViewsIn(e)}
  BY SequencesReconcile, StandingIs, CountsAre
<1>2. \A u, v \in ViewsIn(e) : u.id = v.id => u = v
  BY DEF ViewsIn
<1>3. \A view \in ViewsIn(e) : view.rows \subseteq Public(PacketsIn(e))
  BY DEF ViewsIn, Resolved
<1>4. ASSUME NEW view \in ViewsIn(e) PROVE files[<<"view", view.id>>] = view
  <2> DEFINE path == <<"view", view.id>>
  <2>1. path \in DOMAIN ViewFiles(e) /\ ViewFiles(e)[path] = CHOOSE v \in ViewsIn(e) : v.id = view.id
    BY DEF ViewFiles
  <2>2. ViewFiles(e)[path] = view
    BY <1>2, <2>1
  <2> QED BY <1>1, <2>1, <2>2 DEF Carries
<1> HIDE DEF ViewsIn
<1>5. \A x \in ManifestIn(e).views :
         LET rows == files[<<"view", x.id>>].rows IN Cardinality(rows) = x.rows /\ rows \subseteq Public(PacketsIn(e))
  <2> SUFFICES ASSUME NEW view \in ViewsIn(e), NEW x,
                      x = [id |-> view.id, artifact |-> view, rows |-> Cardinality(view.rows)]
               PROVE  LET rows == files[<<"view", x.id>>].rows IN Cardinality(rows) = x.rows /\ rows \subseteq Public(PacketsIn(e))
    BY <1>1
  <2>1. x.id = view.id /\ x.rows = Cardinality(view.rows)
    OBVIOUS
  <2> QED BY <1>3, <1>4, <2>1
<1> QED BY <1>1, <1>5 DEF ViewsReconcile

\* The proofs stand for the packets, one for one and in their order, and all that
\* may fail is that a public packet has an origin that was not selected.
LEMMA IndexHeld ==
    ASSUME NEW b, NEW e, NEW files, Standing(b, e, files)
    PROVE  /\ {entry.packet : entry \in ProofEntries(files)} = PacketsIn(e)
           /\ Cardinality(ProofEntries(files)) = Cardinality(PacketsIn(e))
           /\ ProofEntries(files) \subseteq ProofsIn(e)
           /\ InDigestOrder(files)
<1> DEFINE s == IndexIn(e)
<1> DEFINE N == Cardinality(PacketsIn(e))
<1> DEFINE order == Sorted(PacketsIn(e))
<1>1. /\ IsFiniteSet(PacketsIn(e)) /\ \A p, q \in PacketsIn(e) : Rank(p) \in Nat /\ (Rank(p) = Rank(q) => p = q)
  BY PacketsRanked DEF Standing
<1>2. /\ N \in Nat /\ s = [n \in 1..N |-> s[n]] /\ DOMAIN s = 1..N
      /\ \A n \in 1..N : s[n] \in ProofsIn(e) /\ s[n].packet = order[n]
      /\ Range(order) = PacketsIn(e) /\ DOMAIN order = 1..N
      /\ \A m, n \in 1..N : m < n => Rank(order[m]) < Rank(order[n])
      /\ \A m, n \in 1..N : order[m] = order[n] => m = n
  BY <1>1, IndexIs
<1>3. Holds("index", files, Cut("index", s))
  BY StandingIs
<1>4. Cardinality(PacketsIn(e)) = N
  OBVIOUS
<1> HIDE DEF s, N, order
<1>5. s \in Seq(Range(s)) /\ Len(s) = N
  <2>1. s \in Seq(Range(s))
    BY <1>2, SeqOfFunction
  <2> QED BY <1>2, <2>1, LenProperties
<1>6. ProofEntries(files) = Range(s) /\ \A path \in Having("index", files) : Part(files[path], s)
  BY <1>3, <1>5, EntriesHeld DEF ProofEntries
<1>7. {entry.packet : entry \in Range(s)} = PacketsIn(e)
  BY <1>2 DEF Range
<1>8. Cardinality(Range(s)) = N
  <2>1. \A i, j \in 1..N : s[i] = s[j] => i = j
    BY <1>2
  <2> QED BY <1>2, <2>1, RangeSize
<1>9. Range(s) \subseteq ProofsIn(e)
  BY <1>2 DEF Range
<1>10. DOMAIN Cut("index", s) = Having("index", files) /\ \A path \in DOMAIN Cut("index", s) : files[path] = Cut("index", s)[path]
  BY <1>3 DEF Holds, Carries
<1>11. InDigestOrder(files)
  <2> SUFFICES ASSUME NEW p \in Having("index", files), NEW q \in Having("index", files),
                      NEW n \in DOMAIN files[p], NEW k \in DOMAIN files[q],
                      p[2] < q[2] \/ (p = q /\ n < k)
               PROVE  Rank(files[p][n].packet) < Rank(files[q][k].packet)
    BY DEF InDigestOrder
  <2>1. PICK u, v \in 1..Len(s) : u < v /\ files[p][n] = s[u] /\ files[q][k] = s[v]
    BY <1>5, <1>10, CutRunsOn
  <2> QED BY <1>2, <1>5, <2>1
<1> QED BY <1>4, <1>6, <1>7, <1>8, <1>9, <1>11

LEMMA EvidenceCounts ==
    ASSUME NEW b, NEW e, NEW files, Standing(b, e, files)
    PROVE  ProofArtifacts(files) = ProofArtifacts(e.artifacts)
<1>1. DOMAIN files = DOMAIN e.artifacts
  BY StandingIs
<1>2. \A role : Having(role, files) = Having(role, e.artifacts)
  BY <1>1 DEF Having
<1> QED BY <1>2 DEF ProofArtifacts

LEMMA ProofsAgree ==
    ASSUME NEW b, NEW e, NEW files, Standing(b, e, files), Having("index", files) # {}
    PROVE  ProofsReconcile(ManifestIn(e), files) <=> Origins(Public(PacketsIn(e))) \subseteq files[<<"catalog">>]
<1>1. /\ {entry.packet : entry \in ProofEntries(files)} = PacketsIn(e)
      /\ Cardinality(ProofEntries(files)) = Cardinality(PacketsIn(e))
      /\ ProofEntries(files) \subseteq ProofsIn(e)
      /\ InDigestOrder(files)
  BY IndexHeld
<1>2. /\ Cores("packets", files) = PacketsIn(e) /\ IsBuilder(e) /\ Sensible(e.options)
      /\ \A n \in 1..e.done : Carries(files, EvidenceOf(Sources(e.options)[n]))
  BY SequencesReconcile, StandingIs
<1>3. LET m == ManifestIn(e) IN
      m.counts.packets = Cardinality(PacketsIn(e)) /\ m.counts.proofArtifacts = Cardinality(ProofArtifacts(e.artifacts))
  BY CountsAre
<1>4. ProofArtifacts(files) = ProofArtifacts(e.artifacts)
  BY EvidenceCounts
<1>5. ASSUME NEW entry \in ProofEntries(files)
      PROVE  entry.artifacts \subseteq DOMAIN files /\ Derived(entry, files) /\ entry.class = entry.packet.class
  <2>1. PICK n \in 1..e.done :
           /\ entry.packet \in PacketsOf(Sources(e.options)[n])
           /\ entry = ProofOf(entry.packet, Sources(e.options)[n].of.operation)
           /\ entry.class = entry.packet.class
    BY <1>1, ProofIs
  <2>2. n \in 1..Len(Sources(e.options))
    BY <1>2, CompiledIsFinite
  <2> DEFINE p == entry.packet
  <2> DEFINE operation == Sources(e.options)[n].of.operation
  <2>3. p \in PacketsOf(Sources(e.options)[n]) /\ Carries(files, EvidenceOf(Sources(e.options)[n]))
    BY <1>2, <2>1
  <2>4. entry = ProofOf(p, operation)
    BY <2>1
  <2> HIDE DEF p, operation
  <2>5. ProofOf(p, operation).artifacts \subseteq DOMAIN files /\ Derived(ProofOf(p, operation), files)
    BY <1>2, <2>2, <2>3, ProofStands
  <2> QED BY <2>1, <2>4, <2>5
<1>6. (\A entry \in ProofEntries(files) : entry.class # "test_fixture" => entry.packet.origin \in files[<<"catalog">>])
          <=> Origins(Public(PacketsIn(e))) \subseteq files[<<"catalog">>]
  <2> DEFINE C == files[<<"catalog">>]
  <2> HIDE DEF C
  <2>1. \A entry \in ProofEntries(files) : entry.class = entry.packet.class
    BY <1>5
  <2>2. ASSUME \A entry \in ProofEntries(files) : entry.class # "test_fixture" => entry.packet.origin \in C,
               NEW p \in PacketsIn(e), p.class # "test_fixture"
        PROVE  p.origin \in C
    <3>1. PICK entry \in ProofEntries(files) : entry.packet = p
      BY <1>1
    <3> QED BY <2>1, <2>2, <3>1
  <2>3. ASSUME \A p \in PacketsIn(e) : p.class # "test_fixture" => p.origin \in C,
               NEW entry \in ProofEntries(files), entry.class # "test_fixture"
        PROVE  entry.packet.origin \in C
    <3>1. entry.packet \in PacketsIn(e)
      BY <1>1
    <3> QED BY <2>1, <2>3, <3>1
  <2>4. Origins(Public(PacketsIn(e))) \subseteq C <=> \A p \in PacketsIn(e) : p.class # "test_fixture" => p.origin \in C
    BY DEF Origins, Public
  <2> QED BY <2>2, <2>3, <2>4 DEF C
<1>7. Having("index", files) # {}
  OBVIOUS
<1> QED BY <1>1, <1>2, <1>3, <1>4, <1>5, <1>6, <1>7 DEF ProofsReconcile

\* The archived packets have the origins of the acquisitions.
LEMMA ArchivedIs ==
    ASSUME NEW e, IsBuilder(e)
    PROVE  LET archived == {p \in PacketsIn(e) : p.class = "archive_observation"} IN
           /\ Origins(archived) = Origins(Archived(e))
           /\ archived # {} <=> ArchivesIn(e) # {}
           /\ (\E p \in PacketsIn(e) : p.source[1] = "scale") <=> \E s \in CompiledIn(e) : s.kind = "scale"
<1> DEFINE S(n) == Sources(e.options)[n]
<1> DEFINE archived == {p \in PacketsIn(e) : p.class = "archive_observation"}
<1>1. \A n \in 1..e.done : n \in 1..Len(Sources(e.options))
  BY CompiledIsFinite
<1>2. Sensible(e.options)
  BY DEF IsBuilder
<1>3. \A n \in 1..e.done : /\ PacketsOf(S(n)) # {}
                           /\ \A p \in PacketsOf(S(n)) :
                                 /\ p.class = "archive_observation" <=> S(n).kind = "archive"
                                 /\ p.source[1] = "scale" <=> S(n).kind = "scale"
                                 /\ S(n).kind = "archive" => p.origin = S(n).of.origin
  BY <1>1, <1>2, EachHasPackets, ClassIs
<1>4. /\ CompiledIn(e) = {S(n) : n \in 1..e.done} /\ PacketsIn(e) = UNION {PacketsOf(S(n)) : n \in 1..e.done}
      /\ ArchivesIn(e) = {s \in CompiledIn(e) : s.kind = "archive"}
  BY DEF CompiledIn, PacketsIn, ArchivesIn
<1> HIDE DEF S
<1>5. ASSUME NEW p \in archived PROVE \E s \in ArchivesIn(e) : p.origin = s.of.origin
  BY <1>3, <1>4
<1>6. ASSUME NEW s \in ArchivesIn(e) PROVE \E p \in archived : p.origin = s.of.origin
  <2>1. PICK n \in 1..e.done : s = S(n)
    BY <1>4
  <2>2. PICK p \in PacketsOf(S(n)) : TRUE
    BY <1>3
  <2>3. s.kind = "archive"
    BY <1>4
  <2>4. p \in PacketsIn(e)
    BY <1>4
  <2> QED BY <1>3, <2>1, <2>2, <2>3, <2>4
<1>7. (\E p \in PacketsIn(e) : p.source[1] = "scale") <=> \E s \in CompiledIn(e) : s.kind = "scale"
  <2>1. ASSUME NEW p \in PacketsIn(e), p.source[1] = "scale" PROVE \E s \in CompiledIn(e) : s.kind = "scale"
    BY <1>3, <1>4, <2>1
  <2>2. ASSUME NEW n \in 1..e.done, S(n).kind = "scale" PROVE \E p \in PacketsIn(e) : p.source[1] = "scale"
    <3>1. PICK p \in PacketsOf(S(n)) : TRUE
      BY <1>3
    <3>2. p \in PacketsIn(e)
      BY <1>4
    <3> QED BY <1>3, <2>2, <3>1, <3>2
  <2> QED BY <1>4, <2>1, <2>2
<1>8. Origins(archived) = {s.of.origin : s \in ArchivesIn(e)}
  <2> HIDE DEF archived
  <2> QED BY <1>5, <1>6 DEF Origins
<1>9. Origins(Archived(e)) = {s.of.origin : s \in ArchivesIn(e)}
  BY DEF Origins, Archived
<1>10. archived # {} <=> ArchivesIn(e) # {}
  <2> HIDE DEF archived
  <2> QED BY <1>5, <1>6
<1> QED BY <1>7, <1>8, <1>9, <1>10

\* Each acquisition has an origin of its own, and each source an operation.
OneEach(e) ==
    /\ Cardinality(Origins(Archived(e))) = Cardinality(Archived(e))
    /\ Cardinality({s.of.operation : s \in CompiledIn(e)}) = Cardinality(CompiledIn(e))

LEMMA ReportAgrees ==
    ASSUME NEW b, NEW e, NEW files, Standing(b, e, files)
    PROVE  ReportReconciles(ManifestIn(e), files) <=> OneEach(e)
<1> DEFINE m == ManifestIn(e)
<1> DEFINE P == PacketsIn(e)
<1> DEFINE archived == {p \in P : p.class = "archive_observation"}
<1> DEFINE operations == {entry.operation : entry \in ProofEntries(files)}
<1> DEFINE Q == Len(e.options.acquisitions)
<1>1. IsBuilder(e) /\ e.done = Len(Sources(e.options)) /\ Disjoint(e) /\ files[<<"report">>] = ReportIn(e)
  BY StandingIs
<1>2. Cores("packets", files) = P
  BY SequencesReconcile
<1>3. /\ m.counts.packets = Cardinality(P) /\ m.counts.deltas = Cardinality(DeltasIn(e))
      /\ m.counts.origins = Cardinality(e.loaded) /\ m.counts.views = Cardinality(ViewsIn(e))
      /\ m.counts.proofArtifacts = Cardinality(ProofArtifacts(e.artifacts))
      /\ m.mode = (e.options.acquisitions # <<>>)
  BY CountsAre
<1>4. /\ Origins(archived) = Origins(Archived(e)) /\ (archived # {} <=> ArchivesIn(e) # {})
      /\ (\E p \in P : p.source[1] = "scale") <=> \E s \in CompiledIn(e) : s.kind = "scale"
  BY <1>1, ArchivedIs
<1>5. operations = {s.of.operation : s \in CompiledIn(e)}
  <2>1. ProofEntries(files) \subseteq ProofsIn(e) /\ {entry.packet : entry \in ProofEntries(files)} = PacketsIn(e)
    BY IndexHeld
  <2> QED BY <1>1, <2>1, OperationsAre
<1>6. /\ Cardinality(CompiledIn(e)) = Len(Replays) + Q + (IF e.options.scale > 0 THEN 1 ELSE 0)
      /\ Cardinality(ArchivesIn(e)) = Q /\ Cardinality(Archived(e)) = Q
      /\ e.options.acquisitions # <<>> <=> ArchivesIn(e) # {}
      /\ e.options.scale > 0 <=> \E s \in CompiledIn(e) : s.kind = "scale"
  BY <1>1, CompiledCount
<1>7. /\ (archived # {}) = (e.options.acquisitions # <<>>)
      /\ (\E p \in P : p.source[1] = "scale") = (e.options.scale > 0)
  <2> DEFINE A == archived # {}
  <2> DEFINE B == \E p \in P : p.source[1] = "scale"
  <2> DEFINE C == e.options.acquisitions # <<>>
  <2> DEFINE D == e.options.scale > 0
  <2>1. (A <=> C) /\ (B <=> D)
    <3> HIDE DEF archived, P
    <3>1. A <=> C
      BY <1>4, <1>6
    <3>2. B <=> D
      BY <1>4, <1>6
    <3> QED BY <3>1, <3>2
  <2>2. A = C
    BY <2>1
  <2>3. B \in BOOLEAN /\ D \in BOOLEAN
    OBVIOUS
  <2>4. B = D
    <3> HIDE DEF B, D
    <3> QED BY <2>1, <2>3
  <2> QED BY <2>2, <2>4
<1> DEFINE Counted ==
      [mode            |-> ModeOf(archived # {}, \E p \in P : p.source[1] = "scale"),
       identities      |-> m.counts.origins,
       archiveProfiles |-> Cardinality(Origins(archived)),
       publicOrigins   |-> Cardinality(Origins(Public(P))),
       fixtureOrigins  |-> Cardinality(Origins(P \ Public(P))),
       operations      |-> Cardinality(operations),
       packets         |-> m.counts.packets,
       publicPackets   |-> Cardinality(Public(P)),
       resolvedPackets |-> Cardinality(Resolved(P)),
       deltas          |-> m.counts.deltas,
       views           |-> m.counts.views,
       proofArtifacts  |-> m.counts.proofArtifacts]
<1> DEFINE Given(profiles, named) ==
      [mode            |-> ModeOf(e.options.acquisitions # <<>>, e.options.scale > 0),
       identities      |-> Cardinality(e.loaded),
       archiveProfiles |-> profiles,
       publicOrigins   |-> Cardinality(Origins(Public(P))),
       fixtureOrigins  |-> Cardinality(Origins(P \ Public(P))),
       operations      |-> named,
       packets         |-> Cardinality(P),
       publicPackets   |-> Cardinality(Public(P)),
       resolvedPackets |-> Cardinality(Resolved(P)),
       deltas          |-> Cardinality(DeltasIn(e)),
       views           |-> Cardinality(ViewsIn(e)),
       proofArtifacts  |-> Cardinality(ProofArtifacts(e.artifacts))]
<1>8. ReportReconciles(m, files) <=> files[<<"report">>] = Counted /\ m.mode = (archived # {})
  BY <1>2 DEF ReportReconciles
<1>9. Counted = Given(Cardinality(Origins(Archived(e))), Cardinality({s.of.operation : s \in CompiledIn(e)}))
  <2> HIDE DEF archived, operations, P, m
  <2> QED BY <1>3, <1>4, <1>5, <1>7
<1>10. files[<<"report">>] = Given(Cardinality(ArchivesIn(e)),
                                   Len(Replays) + Cardinality(ArchivesIn(e)) + (IF e.options.scale > 0 THEN 1 ELSE 0))
  BY <1>1 DEF ReportIn
<1>11. Cardinality(CompiledIn(e)) = Len(Replays) + Cardinality(ArchivesIn(e)) + (IF e.options.scale > 0 THEN 1 ELSE 0)
  <2> HIDE DEF Q
  <2> QED BY <1>6
<1>12. Cardinality(Archived(e)) = Cardinality(ArchivesIn(e))
  BY <1>6
<1>13. files[<<"report">>] = Given(Cardinality(Archived(e)), Cardinality(CompiledIn(e)))
  <2> HIDE DEF Given
  <2> QED BY <1>10, <1>11, <1>12
<1>14. \A u, v, x, y : Given(u, v) = Given(x, y) <=> u = x /\ v = y
  <2> SUFFICES ASSUME NEW u, NEW v, NEW x, NEW y PROVE Given(u, v) = Given(x, y) <=> u = x /\ v = y
    OBVIOUS
  <2>1. Given(u, v).archiveProfiles = u /\ Given(u, v).operations = v
    OBVIOUS
  <2>2. Given(x, y).archiveProfiles = x /\ Given(x, y).operations = y
    OBVIOUS
  <2> HIDE DEF Given
  <2> QED BY <2>1, <2>2
<1>15. ReportReconciles(m, files) <=> files[<<"report">>] = Counted
  <2> HIDE DEF Counted, archived, m
  <2> QED BY <1>3, <1>7, <1>8
<1> HIDE DEF Given, Counted, archived
<1>16. ReportReconciles(m, files) <=>
          /\ Cardinality(Origins(Archived(e))) = Cardinality(Archived(e))
          /\ Cardinality({s.of.operation : s \in CompiledIn(e)}) = Cardinality(CompiledIn(e))
  BY <1>9, <1>13, <1>14, <1>15
<1> QED BY <1>16 DEF OneEach

\* A build that passes its own checks has no more packets than a runtime takes.
LEMMA PacketsFit ==
    ASSUME NEW b, NEW e, NEW files, Standing(b, e, files)
    PROVE  ManifestIn(e).counts.packets <= MaxRuntimePackets
<1>1. /\ b \in Builders /\ IsBuilder(e) /\ Sensible(e.options) /\ e.options \in OptionSet[b]
      /\ e.done = Len(Sources(e.options)) /\ Checked(e)
  BY DEF Standing, IsBuilder
<1>2. /\ Len(Sources(e.options)) \in Nat /\ DOMAIN Sources(e.options) = 1..Len(Sources(e.options)) /\ e.options.scale \in Nat
  BY <1>1, SourcesAre DEF Sensible
<1>3. PacketsIn(e) = UNION {PacketsOf(source) : source \in Range(Sources(e.options))}
  BY <1>1, <1>2 DEF PacketsIn, Range
<1>4. e.options.scale <= MaxBody
  <2>1. CASE e.options.scale = 0
    <3>1. MaxBody \in Nat
      BY BoundsAssumption
    <3> QED BY <2>1, <3>1
  <2>2. CASE e.options.scale # 0
    <3> DEFINE n == Len(Replays) + 1
    <3>1. Scales(e.options) = 1 /\ Len(Replays) \in Nat /\ Len(e.options.acquisitions) \in Nat
      BY <1>1, <2>2, SourcesAre DEF Scales
    <3>2. Len(Sources(e.options)) = Len(Replays) + Scales(e.options) + Len(e.options.acquisitions)
      BY <1>1, SourcesAre
    <3>3. n \in 1..e.done
      <4> DEFINE A == Len(Replays)
      <4> DEFINE B == Len(e.options.acquisitions)
      <4>1. e.done = A + 1 + B /\ A \in Nat /\ B \in Nat
        BY <1>1, <3>1, <3>2
      <4> HIDE DEF A, B
      <4>2. A + 1 \in 1..e.done
        BY <4>1
      <4> QED BY <4>2 DEF A
    <3>4. Sources(e.options)[Len(Replays) + 1] =
             [kind |-> "scale", of |-> [fields |-> e.options.scale, at |-> e.options.createdAt,
                                        operation |-> "fixture.scaleCorpus"]]
      BY <1>1, <3>1, SourcesAre
    <3>5. Sources(e.options)[n].kind = "scale" /\ Sources(e.options)[n].of.fields = e.options.scale
      BY <3>4
    <3> HIDE DEF n
    <3> QED BY <1>1, <3>3, <3>5 DEF Checked
  <2> QED BY <2>1, <2>2
<1>5. Cardinality(PacketsIn(e)) <= MaxRuntimePackets
  BY <1>1, <1>3, <1>4, BoundsAssumption
<1>6. ManifestIn(e).counts.packets = Cardinality(PacketsIn(e))
  BY CountsAre
<1> QED BY <1>5, <1>6

LEMMA LoadsAgree ==
    ASSUME NEW b, NEW e, NEW files, Standing(b, e, files), Having("index", files) # {}
    PROVE  Loads(ManifestIn(e), files) <=>
              OneEach(e) /\ Origins(Public(PacketsIn(e))) \subseteq e.loaded /\ files[<<"catalog">>] = e.loaded
<1>1. CatalogReconciles(ManifestIn(e), files) <=> files[<<"catalog">>] = e.loaded
  BY CatalogAgrees
<1>2. /\ SequenceReconciles("packets", files, ManifestIn(e).counts.packets)
      /\ SequenceReconciles("deltas", files, ManifestIn(e).counts.deltas)
  BY SequencesReconcile
<1>3. ProofsReconcile(ManifestIn(e), files) <=> Origins(Public(PacketsIn(e))) \subseteq files[<<"catalog">>]
  BY ProofsAgree
<1>4. SemanticsReconcile(files) /\ DeltasReconcile(files) /\ ViewsReconcile(ManifestIn(e), files)
  BY SemanticsAgree, DeltasAgree, ViewsAgree
<1>5. ReportReconciles(ManifestIn(e), files) <=> OneEach(e)
  BY ReportAgrees
<1> QED BY <1>1, <1>2, <1>3, <1>4, <1>5 DEF Loads

(***************************************************************************)
(* What a step of a build leaves of what was written.                      *)
(***************************************************************************)
ContentsInv ==
    \A b \in Builders : builders[b].pc \in Filling \cup After =>
        Contents(builders[b], builders[b].artifacts) /\ Checked(builders[b])

\* The operators of the model, of the record of a build.
LEMMA InOf ==
    ASSUME NEW b \in Builders
    PROVE  LET e == builders[b] IN
           /\ Compiled(b) = CompiledIn(e) /\ Packets(b) = PacketsIn(e) /\ Deltas(b) = DeltasIn(e)
           /\ Proofs(b) = ProofsIn(e) /\ Concepts(b) = ConceptsIn(e) /\ Mappings(b) = MappingsIn(e)
           /\ Views(b) = ViewsIn(e)
<1> DEFINE e == builders[b]
<1>1. Compiled(b) = CompiledIn(e)
  BY DEF Compiled, CompiledIn
<1>2. Packets(b) = PacketsIn(e)
  BY PacketsAre
<1>3. Deltas(b) = DeltasIn(e)
  BY <1>1 DEF Deltas, DeltasIn, ArchivesIn
<1>4. Proofs(b) = ProofsIn(e)
  BY <1>1 DEF Proofs, ProofsIn
<1>5. Replayed(b) = ReplayedIn(e)
  BY <1>1 DEF Replayed, ReplayedIn
<1>6. Concepts(b) = ConceptsIn(e) /\ Mappings(b) = MappingsIn(e)
  BY <1>5 DEF Concepts, ConceptsIn, Mappings, MappingsIn
<1>7. Views(b) = ViewsIn(e)
  BY <1>2 DEF Views, ViewsIn
<1> QED BY <1>1, <1>2, <1>3, <1>4, <1>6, <1>7

LEMMA ReportOf ==
    ASSUME NEW b \in Builders
    PROVE  Report(b) = ReportIn(builders[b]) /\ ManifestOf(b) = ManifestIn(builders[b])
<1> DEFINE e == builders[b]
<1>1. /\ Compiled(b) = CompiledIn(e) /\ Packets(b) = PacketsIn(e) /\ Deltas(b) = DeltasIn(e)
      /\ Concepts(b) = ConceptsIn(e) /\ Mappings(b) = MappingsIn(e) /\ Views(b) = ViewsIn(e)
  BY InOf
<1>2. {s \in Compiled(b) : s.kind = "archive"} = ArchivesIn(e)
  BY <1>1 DEF ArchivesIn
<1>3. Report(b) = ReportIn(e)
  BY <1>1, <1>2 DEF Report, ReportIn
<1>4. ManifestOf(b) = ManifestIn(e)
  BY <1>1 DEF ManifestOf, ManifestIn
<1> QED BY <1>3, <1>4

\* They depend on what was asked for and how much of it is compiled.
LEMMA SameIn ==
    ASSUME NEW o, NEW e, e.options = o.options, e.done = o.done
    PROVE  /\ PacketsIn(e) = PacketsIn(o) /\ DeltasIn(e) = DeltasIn(o) /\ CompiledIn(e) = CompiledIn(o)
           /\ Semantics(e) = Semantics(o) /\ IndexIn(e) = IndexIn(o) /\ ViewFiles(e) = ViewFiles(o)
           /\ ViewsIn(e) = ViewsIn(o) /\ ArchivesIn(e) = ArchivesIn(o)
           /\ ConceptsIn(e) = ConceptsIn(o) /\ MappingsIn(e) = MappingsIn(o)
           /\ Checked(o) => Checked(e)
<1>1. CompiledIn(e) = CompiledIn(o) /\ PacketsIn(e) = PacketsIn(o)
  BY DEF CompiledIn, PacketsIn
<1>2. ArchivesIn(e) = ArchivesIn(o) /\ ReplayedIn(e) = ReplayedIn(o) /\ ProofsIn(e) = ProofsIn(o)
  BY <1>1 DEF ArchivesIn, ReplayedIn, ProofsIn
<1>3. DeltasIn(e) = DeltasIn(o) /\ ConceptsIn(e) = ConceptsIn(o) /\ MappingsIn(e) = MappingsIn(o)
  BY <1>2 DEF DeltasIn, ConceptsIn, MappingsIn
<1>4. Semantics(e) = Semantics(o)
  BY <1>3 DEF Semantics
<1>5. IndexIn(e) = IndexIn(o)
  BY <1>1, <1>2 DEF IndexIn
<1>6. ViewsIn(e) = ViewsIn(o)
  BY <1>1 DEF ViewsIn
<1>7. ViewFiles(e) = ViewFiles(o)
  BY <1>6 DEF ViewFiles
<1>8. Checked(o) => Checked(e)
  BY DEF Checked, Disjoint
<1> QED BY <1>1, <1>2, <1>3, <1>4, <1>5, <1>6, <1>7, <1>8

LEMMA SameReport ==
    ASSUME NEW o, NEW e, e.options = o.options, e.done = o.done, e.loaded = o.loaded,
           ProofArtifacts(e.artifacts) = ProofArtifacts(o.artifacts)
    PROVE  ReportIn(e) = ReportIn(o)
<1>1. /\ PacketsIn(e) = PacketsIn(o) /\ DeltasIn(e) = DeltasIn(o) /\ ViewsIn(e) = ViewsIn(o)
      /\ ArchivesIn(e) = ArchivesIn(o)
  BY SameIn
<1> QED BY <1>1 DEF ReportIn

LEMMA SameManifest ==
    ASSUME NEW o, NEW e, e.options = o.options, e.done = o.done, e.loaded = o.loaded, e.artifacts = o.artifacts
    PROVE  ManifestIn(e) = ManifestIn(o)
<1>1. ViewsIn(e) = ViewsIn(o) /\ ConceptsIn(e) = ConceptsIn(o) /\ MappingsIn(e) = MappingsIn(o)
  BY SameIn
<1> QED BY <1>1 DEF ManifestIn

\* What is added to the files, and what was there.
LEMMA CarriesWith ==
    ASSUME NEW new, NEW old, DOMAIN new \cap DOMAIN old = {}
    PROVE  /\ Carries(With(new, old), new)
           /\ \A part : Carries(old, part) => Carries(With(new, old), part)
           /\ \A role : Having(role, With(new, old)) = Having(role, new) \cup Having(role, old)
<1> DEFINE more == With(new, old)
<1>1. /\ DOMAIN more = DOMAIN new \cup DOMAIN old
      /\ \A path \in DOMAIN new : more[path] = new[path]
      /\ \A path \in DOMAIN old \ DOMAIN new : more[path] = old[path]
  BY WithIs
<1> HIDE DEF more
<1>2. \A path \in DOMAIN old : more[path] = old[path]
  BY <1>1
<1>3. Carries(more, new)
  BY <1>1 DEF Carries
<1>4. \A part : Carries(old, part) => Carries(more, part)
  BY <1>1, <1>2 DEF Carries
<1>5. \A role : Having(role, more) = Having(role, new) \cup Having(role, old)
  BY <1>1 DEF Having
<1> QED BY <1>3, <1>4, <1>5 DEF more

LEMMA HoldsStays ==
    ASSUME NEW new, NEW old, DOMAIN new \cap DOMAIN old = {}, NEW role, \A path \in DOMAIN new : path[1] # role,
           NEW part, Holds(role, old, part)
    PROVE  Holds(role, With(new, old), part)
<1>1. Having(role, new) = {}
  BY DEF Having
<1>2. Having(role, With(new, old)) = Having(role, new) \cup Having(role, old)
  BY CarriesWith
<1>3. Carries(old, part) /\ Having(role, old) = DOMAIN part
  BY DEF Holds
<1>4. Carries(With(new, old), part)
  BY <1>3, CarriesWith
<1> QED BY <1>1, <1>2, <1>3, <1>4 DEF Holds

LEMMA HoldsNow ==
    ASSUME NEW new, NEW old, DOMAIN new \cap DOMAIN old = {}, NEW role, Having(role, old) = {},
           NEW part, Holds(role, new, part)
    PROVE  Holds(role, With(new, old), part)
<1>1. Having(role, new) = DOMAIN part /\ Carries(new, part)
  BY DEF Holds
<1>2. Having(role, With(new, old)) = Having(role, new) \cup Having(role, old)
  BY CarriesWith
<1>3. Carries(With(new, old), new)
  BY CarriesWith
<1>4. Carries(With(new, old), part)
  BY <1>1, <1>3 DEF Carries
<1> QED BY <1>1, <1>2, <1>4 DEF Holds

\* A sequence that was cut is all there is of its role.
LEMMA CutHolds ==
    ASSUME NEW role, NEW s
    PROVE  Holds(role, Cut(role, s), Cut(role, s))
<1>1. \A path \in DOMAIN Cut(role, s) : path[1] = role
  BY CutRoles
<1> QED BY <1>1 DEF Holds, Having, Carries

LEMMA Stages ==
    /\ Segmented = {"canon", "proofs", "views", "report", "manifest", "writing", "verify", "built"}
    /\ Canonized = {"proofs", "views", "report", "manifest", "writing", "verify", "built"}
    /\ Proved = {"views", "report", "manifest", "writing", "verify", "built"}
    /\ Viewed = {"report", "manifest", "writing", "verify", "built"}
    /\ Reported = {"manifest", "writing", "verify", "built"}
<1>1. Segmented = {"canon", "proofs", "views", "report", "manifest", "writing", "verify", "built"}
  BY DEF Segmented, Indexed, After
<1>2. Canonized = {"proofs", "views", "report", "manifest", "writing", "verify", "built"}
  BY <1>1 DEF Canonized
<1>3. Proved = {"views", "report", "manifest", "writing", "verify", "built"}
  BY <1>2 DEF Proved
<1>4. Viewed = {"report", "manifest", "writing", "verify", "built"}
  BY <1>3 DEF Viewed
<1>5. Reported = {"manifest", "writing", "verify", "built"}
  BY <1>4 DEF Reported
<1> QED BY <1>1, <1>2, <1>3, <1>4, <1>5

\* While nothing is compiled, a catalog is all there may be.
LEMMA ContentsBegin ==
    ASSUME NEW e, NEW files, e.done = 0, e.pc \in {"load", "catalog", "compile"},
           e.pc = "compile" => <<"catalog">> \in DOMAIN files
    PROVE  Contents(e, files) /\ Checked(e)
<1>1. 1..e.done = {}
  OBVIOUS
<1>2. /\ e.pc \notin Segmented /\ e.pc \notin {"canon", "proofs"} /\ e.pc \notin Canonized
      /\ e.pc \notin Proved /\ e.pc \notin Viewed /\ e.pc \notin Reported
  BY Stages
<1>3. Contents(e, files)
  BY <1>1, <1>2 DEF Contents
<1>4. Checked(e)
  BY <1>1 DEF Checked, Disjoint
<1> QED BY <1>3, <1>4

\* Once the report is written, nothing is added.
LEMMA ContentsStay ==
    ASSUME NEW o, NEW e, o.pc \in Reported, e.pc \in Reported, e.options = o.options, e.done = o.done,
           e.loaded = o.loaded, e.artifacts = o.artifacts, NEW files, Contents(o, files)
    PROVE  Contents(e, files)
<1>1. /\ PacketsIn(e) = PacketsIn(o) /\ DeltasIn(e) = DeltasIn(o) /\ Semantics(e) = Semantics(o)
      /\ IndexIn(e) = IndexIn(o) /\ ViewFiles(e) = ViewFiles(o)
  BY SameIn
<1>2. ReportIn(e) = ReportIn(o)
  BY SameReport
<1>3. /\ o.pc \in Segmented /\ o.pc \in Canonized /\ o.pc \in Proved /\ o.pc \in Viewed
      /\ e.pc \in Segmented /\ e.pc \notin {"canon", "proofs"} /\ e.pc \in Canonized /\ e.pc \in Proved /\ e.pc \in Viewed
  BY Stages
<1>4. /\ <<"catalog">> \in DOMAIN files
      /\ \A n \in 1..e.done : Carries(files, EvidenceOf(Sources(e.options)[n]))
      /\ Holds("packets", files, Cut("packets", Entries(PacketsIn(e))))
      /\ Holds("deltas", files, Cut("deltas", Entries(DeltasIn(e))))
  BY <1>1, <1>3 DEF Contents
<1>5. /\ Carries(files, Semantics(e)) /\ Holds("index", files, Cut("index", IndexIn(e)))
      /\ Carries(files, ViewFiles(e)) /\ Carries(files, At(<<"report">>, ReportIn(e)))
  BY <1>1, <1>2, <1>3 DEF Contents
<1> QED BY <1>3, <1>4, <1>5 DEF Contents

\* Once the segments are there, what is added leaves them alone.
LEMMA ContentsGrow ==
    ASSUME NEW o, NEW e, NEW new, o.pc \in Segmented, e.options = o.options, e.done = o.done,
           DOMAIN new \cap DOMAIN o.artifacts = {}, e.artifacts = With(new, o.artifacts),
           \A path \in DOMAIN new : path[1] \notin {"packets", "deltas"}, Contents(o, o.artifacts)
    PROVE  /\ <<"catalog">> \in DOMAIN e.artifacts
           /\ \A n \in 1..e.done : Carries(e.artifacts, EvidenceOf(Sources(e.options)[n]))
           /\ Holds("packets", e.artifacts, Cut("packets", Entries(PacketsIn(e))))
           /\ Holds("deltas", e.artifacts, Cut("deltas", Entries(DeltasIn(e))))
<1> DEFINE old == o.artifacts
<1> DEFINE packets == Cut("packets", Entries(PacketsIn(o)))
<1> DEFINE deltas == Cut("deltas", Entries(DeltasIn(o)))
<1>1. /\ PacketsIn(e) = PacketsIn(o) /\ DeltasIn(e) = DeltasIn(o)
  BY SameIn
<1>2. /\ <<"catalog">> \in DOMAIN old
      /\ \A n \in 1..o.done : Carries(old, EvidenceOf(Sources(o.options)[n]))
      /\ Holds("packets", old, packets) /\ Holds("deltas", old, deltas)
  BY DEF Contents
<1> HIDE DEF old, packets, deltas
<1>3. DOMAIN new \cap DOMAIN old = {} /\ e.artifacts = With(new, old)
  BY DEF old
<1>4. DOMAIN With(new, old) = DOMAIN new \cup DOMAIN old
  BY WithIs
<1>5. \A part : Carries(old, part) => Carries(With(new, old), part)
  BY <1>3, CarriesWith
<1>6. Holds("packets", With(new, old), packets)
  <2>1. \A path \in DOMAIN new : path[1] # "packets"
    OBVIOUS
  <2> QED BY <1>2, <1>3, <2>1, HoldsStays
<1>7. Holds("deltas", With(new, old), deltas)
  <2>1. \A path \in DOMAIN new : path[1] # "deltas"
    OBVIOUS
  <2> QED BY <1>2, <1>3, <2>1, HoldsStays
<1>8. \A n \in 1..e.done : Carries(e.artifacts, EvidenceOf(Sources(e.options)[n]))
  BY <1>2, <1>3, <1>5
<1>9. <<"catalog">> \in DOMAIN e.artifacts
  BY <1>2, <1>3, <1>4
<1> QED BY <1>1, <1>3, <1>6, <1>7, <1>8, <1>9 DEF packets, deltas

\* A step of one build, seen by the invariant.
LEMMA ContentsMove ==
    ASSUME IInv, ContentsInv, NEW b \in Builders, NEW e, builders' = [builders EXCEPT ![b] = e],
           e.pc \in Filling \cup After => Contents(e, e.artifacts) /\ Checked(e)
    PROVE  ContentsInv'
<1>1. builders'[b] = e /\ \A c \in Builders \ {b} : builders'[c] = builders[c]
  BY Turns DEF IInv, TypeInv
<1> QED BY <1>1 DEF ContentsInv

LEMMA FailedContents ==
    ASSUME IInv, ContentsInv, NEW b \in Builders, NEW e, builders' = [builders EXCEPT ![b] = e], e.pc = "failed"
    PROVE  ContentsInv'
<1>1. "failed" \notin Filling \cup After
  BY DEF Filling, Indexed, After
<1> QED BY <1>1, ContentsMove

LEMMA BeginContents ==
    ASSUME IInv, ContentsInv, NEW b \in Builders, Begin(b)
    PROVE  ContentsInv'
<1> DEFINE o == builders[b]
<1>1. IsBuilder(o)
  BY DEF IInv, TypeInv
<1>2. PICK options \in OptionSet[b] :
         builders' = [builders EXCEPT ![b] = IF OptionsValid(options) /\ output = NoDirectory
                                             THEN [@ EXCEPT !.options = options, !.pc = "reserve"] ELSE Fresh("failed")]
  BY DEF Begin
<1>3. CASE OptionsValid(options) /\ output = NoDirectory
  <2> DEFINE e == [[o EXCEPT !.options = options] EXCEPT !.pc = "reserve"]
  <2>1. builders' = [builders EXCEPT ![b] = e]
    BY <1>2, <1>3
  <2>2. e.pc = "reserve"
    <3> HIDE DEF o
    <3>1. o = [pc |-> o.pc, options |-> o.options, loaded |-> o.loaded, done |-> o.done, artifacts |-> o.artifacts]
      BY <1>1 DEF IsBuilder
    <3> QED BY <3>1
  <2> HIDE DEF e
  <2>3. "reserve" \notin Filling \cup After
    BY DEF Filling, Indexed, After
  <2> QED BY <2>1, <2>2, <2>3, ContentsMove
<1>4. CASE ~(OptionsValid(options) /\ output = NoDirectory)
  <2>1. builders' = [builders EXCEPT ![b] = Fresh("failed")]
    BY <1>2, <1>4
  <2>2. Fresh("failed").pc = "failed"
    BY FreshIs
  <2> QED BY <2>1, <2>2, FailedContents
<1> QED BY <1>3, <1>4

LEMMA ReserveContents ==
    ASSUME IInv, ContentsInv, NEW b \in Builders, Reserve(b)
    PROVE  ContentsInv'
<1> DEFINE o == builders[b]
<1>1. o.pc = "reserve"
  BY DEF Reserve
<1>2. CASE output = NoDirectory
  <2> DEFINE e == Builder("load", o.options, o.loaded, o.done, o.artifacts)
  <2>1. o.done = 0 /\ IsBuilder(o)
    BY <1>1 DEF IInv, TypeInv, OwnerInv, Before
  <2>2. builders' = [builders EXCEPT ![b] = [o EXCEPT !.pc = "load"]]
    BY <1>2 DEF Reserve
  <2>3. [o EXCEPT !.pc = "load"] = e
    <3> HIDE DEF o
    <3> QED BY <2>1, BuilderExcept
  <2>4. e.pc = "load" /\ e.done = 0
    BY <2>1, BuilderFields
  <2>5. builders' = [builders EXCEPT ![b] = e]
    BY <2>2, <2>3
  <2> HIDE DEF e
  <2>6. Contents(e, e.artifacts) /\ Checked(e)
    BY <2>4, ContentsBegin
  <2> QED BY <2>5, <2>6, ContentsMove
<1>3. CASE output # NoDirectory
  <2>1. builders' = [builders EXCEPT ![b] = Fresh("failed")]
    BY <1>3 DEF Reserve
  <2>2. Fresh("failed").pc = "failed"
    BY FreshIs
  <2> QED BY <2>1, <2>2, FailedContents
<1> QED BY <1>2, <1>3

LEMMA LoadSelectionContents ==
    ASSUME IInv, ContentsInv, NEW b \in Builders, LoadSelection(b)
    PROVE  ContentsInv'
<1> DEFINE o == builders[b]
<1> DEFINE e == Builder("catalog", o.options, selection, o.done, o.artifacts)
<1>1. o.pc = "load"
  BY DEF LoadSelection
<1>2. o.done = 0
  BY <1>1 DEF IInv, CompileInv, Compiling
<1>3. builders' = [builders EXCEPT ![b] = e]
  BY SelectedIs
<1>4. e.pc = "catalog" /\ e.done = 0
  BY <1>2, BuilderFields
<1> HIDE DEF e
<1>5. Contents(e, e.artifacts) /\ Checked(e)
  BY <1>4, ContentsBegin
<1> QED BY <1>3, <1>5, ContentsMove

LEMMA AddCatalogContents ==
    ASSUME IInv, ContentsInv, NEW b \in Builders, AddCatalog(b)
    PROVE  ContentsInv'
<1> DEFINE o == builders[b]
<1> DEFINE new == At(<<"catalog">>, selection)
<1> DEFINE e == Builder("compile", o.options, o.loaded, o.done, With(new, o.artifacts))
<1>1. o.pc = "catalog" /\ Write(b, new, "compile")
  BY DEF AddCatalog
<1>2. o.done = 0
  BY <1>1 DEF IInv, CompileInv, Compiling
<1>3. builders' = [builders EXCEPT ![b] = e]
  BY <1>1, WrittenIs
<1>4. e.pc = "compile" /\ e.done = 0 /\ e.artifacts = With(new, o.artifacts)
  BY <1>2, BuilderFields
<1>5. DOMAIN new = {<<"catalog">>}
  BY AtIs
<1> HIDE DEF e, new
<1>6. <<"catalog">> \in DOMAIN e.artifacts
  <2>1. DOMAIN With(new, o.artifacts) = DOMAIN new \cup DOMAIN o.artifacts
    BY WithIs
  <2> QED BY <1>4, <1>5, <2>1
<1>7. Contents(e, e.artifacts) /\ Checked(e)
  BY <1>4, <1>6, ContentsBegin
<1> QED BY <1>3, <1>7, ContentsMove

\* While a build compiles, its files are the catalog and evidence.
LEMMA EvidenceOnly ==
    ASSUME IInv, NEW b \in Builders, builders[b].pc = "compile"
    PROVE  \A path \in DOMAIN builders[b].artifacts : path[1] \notin {"packets", "deltas", "index"}
<1> DEFINE o == builders[b]
<1>1. Compiling(o) /\ IsBuilder(o)
  BY DEF IInv, TypeInv, CompileInv
<1> SUFFICES ASSUME NEW path \in DOMAIN o.artifacts PROVE path[1] \notin {"packets", "deltas", "index"}
  OBVIOUS
<1>2. path = <<"catalog">> \/ \E n \in 1..o.done : path \in DOMAIN EvidenceOf(Sources(o.options)[n])
  <2>1. o.pc = "compile"
    OBVIOUS
  <2> HIDE DEF o
  <2> QED BY <1>1, <2>1 DEF Compiling
<1>3. ASSUME NEW n \in 1..o.done, path \in DOMAIN EvidenceOf(Sources(o.options)[n]) PROVE path[1] \in Evidence
  <2>1. Sensible(o.options) /\ n \in 1..Len(Sources(o.options))
    <3> HIDE DEF o
    <3> QED BY <1>1, CompiledIsFinite DEF IsBuilder
  <2> HIDE DEF o
  <2> QED BY <1>3, <2>1, EvidenceRoles
<1> QED BY <1>2, <1>3 DEF Evidence

LEMMA CompileContents ==
    ASSUME IInv, ContentsInv, NEW b \in Builders, Compile(b)
    PROVE  ContentsInv'
<1> DEFINE o == builders[b]
<1> DEFINE source == Sources(o.options)[o.done + 1]
<1> DEFINE new == EvidenceOf(source)
<1> DEFINE old == o.artifacts
<1>1. o.pc = "compile"
  BY DEF Compile
<1>2. "compile" \in Filling
  BY DEF Filling
<1>3. CASE Passes(o)
  <2> DEFINE e == Builder(o.pc, o.options, o.loaded, o.done + 1, With(new, old))
  <2>1. builders' = [builders EXCEPT ![b] = e]
    BY <1>3, CompiledIs
  <2>2. /\ Len(Sources(o.options)) \in Nat /\ o.done \in Nat /\ o.done + 1 \in 1..Len(Sources(o.options))
        /\ 1..(o.done + 1) = (1..o.done) \cup {o.done + 1}
    BY <1>3, CompiledIs
  <2>3. DOMAIN new \cap DOMAIN old = {}
    BY <1>1, <2>2, EvidenceIsNew
  <2>4. Contents(o, old) /\ Checked(o)
    BY <1>1, <1>2 DEF ContentsInv
  <2>5. e.pc = "compile" /\ e.options = o.options /\ e.done = o.done + 1 /\ e.artifacts = With(new, old)
    BY <1>1, BuilderFields
  <2> HIDE DEF e
  <2>6. 1..e.done = (1..o.done) \cup {o.done + 1}
    BY <2>2, <2>5
  <2>7. <<"catalog">> \in DOMAIN old /\ \A n \in 1..o.done : Carries(old, EvidenceOf(Sources(o.options)[n]))
    <3> HIDE DEF o, old
    <3> QED BY <1>1, <2>4 DEF Contents
  <2>8. Carries(With(new, old), new) /\ \A part : Carries(old, part) => Carries(With(new, old), part)
    <3> HIDE DEF new, old
    <3> QED BY <2>3, CarriesWith
  <2>9. \A n \in 1..e.done : Carries(e.artifacts, EvidenceOf(Sources(e.options)[n]))
    <3>1. \A n \in 1..o.done : Carries(e.artifacts, EvidenceOf(Sources(o.options)[n]))
      <4> HIDE DEF o, old, new
      <4> QED BY <2>5, <2>7, <2>8
    <3>2. Carries(e.artifacts, EvidenceOf(Sources(o.options)[o.done + 1]))
      BY <2>5, <2>8
    <3> HIDE DEF o
    <3> QED BY <2>5, <2>6, <3>1, <3>2
  <2>10. <<"catalog">> \in DOMAIN e.artifacts
    <3> HIDE DEF new, old
    <3>1. DOMAIN With(new, old) = DOMAIN new \cup DOMAIN old
      BY WithIs
    <3> QED BY <2>5, <2>7, <3>1
  <2>11. Contents(e, e.artifacts)
    <3>1. /\ e.pc \notin Segmented /\ e.pc \notin {"canon", "proofs"} /\ e.pc \notin Canonized
          /\ e.pc \notin Proved /\ e.pc \notin Viewed /\ e.pc \notin Reported
      BY <2>5, Stages
    <3> QED BY <2>9, <2>10, <3>1 DEF Contents
  <2>12. ASSUME NEW n \in 1..o.done PROVE PacketsOf(Sources(o.options)[n]) \cap PacketsOf(source) = {}
    <3>1. PacketsOf(source) \cap PacketsIn(o) = {}
      BY <1>3 DEF Passes
    <3>2. PacketsOf(Sources(o.options)[n]) \subseteq PacketsIn(o)
      BY DEF PacketsIn
    <3> HIDE DEF source, o
    <3> QED BY <3>1, <3>2
  <2>13. Disjoint(e)
    <3>1. Disjoint(o)
      BY <2>4 DEF Checked
    <3> HIDE DEF o
    <3> QED BY <2>5, <2>6, <2>12, <3>1 DEF Disjoint, source
  <2>14. \A n \in 1..e.done : Sources(e.options)[n].kind = "scale" => Sources(e.options)[n].of.fields <= MaxBody
    <3>1. source.kind = "scale" => source.of.fields <= MaxBody
      BY <1>3 DEF Passes
    <3>2. \A n \in 1..o.done : Sources(o.options)[n].kind = "scale" => Sources(o.options)[n].of.fields <= MaxBody
      BY <2>4 DEF Checked
    <3> HIDE DEF o
    <3> QED BY <2>5, <2>6, <3>1, <3>2 DEF source
  <2>15. Checked(e)
    BY <2>13, <2>14 DEF Checked
  <2> QED BY <2>1, <2>11, <2>15, ContentsMove
<1>4. CASE ~Passes(o)
  <2> DEFINE e == Builder("failed", o.options, o.loaded, o.done, o.artifacts)
  <2>1. builders' = [builders EXCEPT ![b].pc = "failed"]
    <3>1. Packets(b) = PacketsIn(o)
      BY PacketsAre
    <3>2. ~(/\ InTime(source, o.options.createdAt)
            /\ source.kind = "scale" => source.of.fields <= MaxBody
            /\ PacketsOf(source) \cap Packets(b) = {})
      BY <1>4, <3>1 DEF Passes
    <3> QED BY <3>2 DEF Compile
  <2>2. builders' = [builders EXCEPT ![b] = e]
    BY <1>1, <1>2, <2>1, OwnerTurns
  <2>3. e.pc = "failed"
    BY BuilderFields
  <2> HIDE DEF e
  <2> QED BY <2>2, <2>3, FailedContents
<1> QED BY <1>3, <1>4

LEMMA AddSegmentsContents ==
    ASSUME IInv, ContentsInv, NEW b \in Builders, AddSegments(b)
    PROVE  ContentsInv'
<1> DEFINE o == builders[b]
<1> DEFINE packets == Cut("packets", Entries(PacketsIn(o)))
<1> DEFINE deltas == Cut("deltas", Entries(DeltasIn(o)))
<1> DEFINE new == With(packets, deltas)
<1> DEFINE old == o.artifacts
<1> DEFINE e == Builder("canon", o.options, o.loaded, o.done, With(new, old))
<1>1. o.pc = "compile" /\ Write(b, new, "canon")
  BY InOf DEF AddSegments
<1>2. "compile" \in Filling
  BY DEF Filling
<1>3. Contents(o, old) /\ Checked(o)
  BY <1>1, <1>2 DEF ContentsInv
<1>4. builders' = [builders EXCEPT ![b] = e] /\ DOMAIN new \cap DOMAIN old = {}
  BY <1>1, WrittenIs
<1>5. e.pc = "canon" /\ e.options = o.options /\ e.done = o.done /\ e.artifacts = With(new, old)
  BY BuilderFields
<1> HIDE DEF e
<1>6. /\ PacketsIn(e) = PacketsIn(o) /\ DeltasIn(e) = DeltasIn(o) /\ Checked(e)
  BY <1>3, <1>5, SameIn
<1>7. <<"catalog">> \in DOMAIN old /\ \A n \in 1..o.done : Carries(old, EvidenceOf(Sources(o.options)[n]))
  <2> HIDE DEF o, old
  <2> QED BY <1>1, <1>3 DEF Contents
<1>8. Having("packets", old) = {} /\ Having("deltas", old) = {} /\ Having("index", old) = {}
  <2>1. \A path \in DOMAIN old : path[1] \notin {"packets", "deltas", "index"}
    BY <1>1, EvidenceOnly
  <2> HIDE DEF old
  <2> QED BY <2>1 DEF Having
<1>9. /\ \A path \in DOMAIN packets : path[1] = "packets"
      /\ \A path \in DOMAIN deltas : path[1] = "deltas"
  BY CutRoles
<1>10. Holds("packets", packets, packets) /\ Holds("deltas", deltas, deltas)
  BY CutHolds
<1> HIDE DEF packets, deltas, o
<1>11. DOMAIN packets \cap DOMAIN deltas = {} /\ Having("packets", deltas) = {}
  BY <1>9 DEF Having
<1>12. Holds("packets", new, packets)
  BY <1>10, <1>11, HoldsNow
<1>13. Holds("deltas", new, deltas)
  <2>1. \A path \in DOMAIN packets : path[1] # "deltas"
    BY <1>9
  <2> QED BY <1>10, <1>11, <2>1, HoldsStays
<1>14. Having("index", new) = {}
  <2>1. Having("index", new) = Having("index", packets) \cup Having("index", deltas)
    BY <1>11, CarriesWith
  <2>2. Having("index", packets) = {} /\ Having("index", deltas) = {}
    BY <1>9 DEF Having
  <2> QED BY <2>1, <2>2
<1> HIDE DEF new, old
<1>15. Holds("packets", e.artifacts, packets)
  BY <1>4, <1>5, <1>8, <1>12, HoldsNow
<1>16. Holds("deltas", e.artifacts, deltas)
  BY <1>4, <1>5, <1>8, <1>13, HoldsNow
<1>17. Having("index", e.artifacts) = {}
  <2>1. Having("index", With(new, old)) = Having("index", new) \cup Having("index", old)
    BY <1>4, CarriesWith
  <2> QED BY <1>5, <1>8, <1>14, <2>1
<1>18. \A n \in 1..e.done : Carries(e.artifacts, EvidenceOf(Sources(e.options)[n]))
  <2>1. \A part : Carries(old, part) => Carries(With(new, old), part)
    BY <1>4, CarriesWith
  <2> QED BY <1>5, <1>7, <2>1
<1>19. <<"catalog">> \in DOMAIN e.artifacts
  <2>1. DOMAIN With(new, old) = DOMAIN new \cup DOMAIN old
    BY WithIs
  <2> QED BY <1>5, <1>7, <2>1
<1>20. Contents(e, e.artifacts)
  <2>1. e.pc \notin Canonized /\ e.pc \notin Proved /\ e.pc \notin Viewed /\ e.pc \notin Reported
    BY <1>5, Stages
  <2>2. /\ Holds("packets", e.artifacts, Cut("packets", Entries(PacketsIn(e))))
        /\ Holds("deltas", e.artifacts, Cut("deltas", Entries(DeltasIn(e))))
    BY <1>6, <1>15, <1>16 DEF packets, deltas
  <2> QED BY <1>17, <1>18, <1>19, <2>1, <2>2 DEF Contents
<1> QED BY <1>4, <1>6, <1>20, ContentsMove

\* A step that adds an index.
LEMMA IndexGrows ==
    ASSUME IInv, ContentsInv, NEW b \in Builders, builders[b].pc \in Indexed, NEW new, NEW next, Write(b, new, next),
           \A path \in DOMAIN new : path[1] \notin {"packets", "deltas"},
           NEW e, LET o == builders[b] IN e = Builder(next, o.options, o.loaded, o.done, With(new, o.artifacts))
    PROVE  LET o == builders[b] IN
           /\ builders' = [builders EXCEPT ![b] = e] /\ DOMAIN new \cap DOMAIN o.artifacts = {}
           /\ Contents(o, o.artifacts) /\ Checked(e)
           /\ e.pc = next /\ e.options = o.options /\ e.loaded = o.loaded /\ e.done = o.done
           /\ e.artifacts = With(new, o.artifacts)
           /\ <<"catalog">> \in DOMAIN e.artifacts
           /\ \A n \in 1..e.done : Carries(e.artifacts, EvidenceOf(Sources(e.options)[n]))
           /\ Holds("packets", e.artifacts, Cut("packets", Entries(PacketsIn(e))))
           /\ Holds("deltas", e.artifacts, Cut("deltas", Entries(DeltasIn(e))))
<1> DEFINE o == builders[b]
<1>1. builders' = [builders EXCEPT ![b] = e] /\ DOMAIN new \cap DOMAIN o.artifacts = {}
  BY WrittenIs
<1>2. o.pc \in Filling /\ o.pc \in Segmented
  BY DEF Filling, Segmented
<1>3. Contents(o, o.artifacts) /\ Checked(o)
  BY <1>2 DEF ContentsInv
<1>4. /\ e.pc = next /\ e.options = o.options /\ e.loaded = o.loaded /\ e.done = o.done
      /\ e.artifacts = With(new, o.artifacts)
  BY BuilderFields
<1> HIDE DEF o
<1>5. Checked(e)
  BY <1>3, <1>4, SameIn
<1>6. /\ <<"catalog">> \in DOMAIN e.artifacts
      /\ \A n \in 1..e.done : Carries(e.artifacts, EvidenceOf(Sources(e.options)[n]))
      /\ Holds("packets", e.artifacts, Cut("packets", Entries(PacketsIn(e))))
      /\ Holds("deltas", e.artifacts, Cut("deltas", Entries(DeltasIn(e))))
  BY <1>1, <1>2, <1>3, <1>4, ContentsGrow
<1> QED BY <1>1, <1>3, <1>4, <1>5, <1>6 DEF o

LEMMA AddCanonContents ==
    ASSUME IInv, ContentsInv, NEW b \in Builders, AddCanon(b)
    PROVE  ContentsInv'
<1> DEFINE o == builders[b]
<1> DEFINE new == Semantics(o)
<1> DEFINE old == o.artifacts
<1> DEFINE e == Builder("proofs", o.options, o.loaded, o.done, With(new, old))
<1>1. o.pc = "canon" /\ Write(b, new, "proofs")
  BY InOf DEF AddCanon, Semantics
<1>2. "canon" \in Indexed
  BY DEF Indexed
<1>3. DOMAIN new = {<<"concepts">>, <<"mappings">>}
  <2> DEFINE concepts == At(<<"concepts">>, ConceptsIn(o))
  <2> DEFINE mappings == At(<<"mappings">>, MappingsIn(o))
  <2>1. DOMAIN concepts = {<<"concepts">>} /\ DOMAIN mappings = {<<"mappings">>}
    BY AtIs
  <2>2. new = With(concepts, mappings)
    BY DEF Semantics
  <2> HIDE DEF concepts, mappings, new
  <2>3. DOMAIN With(concepts, mappings) = DOMAIN concepts \cup DOMAIN mappings
    BY WithIs
  <2> QED BY <2>1, <2>2, <2>3
<1> HIDE DEF e, new, o
<1>4. \A path \in DOMAIN new : path[1] \notin {"packets", "deltas", "index"}
  BY <1>3
<1>5. \A path \in DOMAIN new : path[1] \notin {"packets", "deltas"}
  BY <1>4
<1>6. /\ builders' = [builders EXCEPT ![b] = e] /\ DOMAIN new \cap DOMAIN o.artifacts = {}
      /\ Contents(o, o.artifacts) /\ Checked(e)
      /\ e.pc = "proofs" /\ e.options = o.options /\ e.done = o.done
      /\ e.artifacts = With(new, o.artifacts)
      /\ <<"catalog">> \in DOMAIN e.artifacts
      /\ \A n \in 1..e.done : Carries(e.artifacts, EvidenceOf(Sources(e.options)[n]))
      /\ Holds("packets", e.artifacts, Cut("packets", Entries(PacketsIn(e))))
      /\ Holds("deltas", e.artifacts, Cut("deltas", Entries(DeltasIn(e))))
  BY <1>1, <1>2, <1>5, IndexGrows DEF e, o
<1> HIDE DEF old
<1>7. Having("index", e.artifacts) = {}
  <2>1. Having("index", With(new, o.artifacts)) = Having("index", new) \cup Having("index", o.artifacts)
    BY <1>6, CarriesWith
  <2>2. Having("index", new) = {}
    BY <1>4 DEF Having
  <2>3. Having("index", o.artifacts) = {}
    BY <1>1, <1>6 DEF Contents
  <2> QED BY <1>6, <2>1, <2>2, <2>3
<1>8. Carries(e.artifacts, Semantics(e))
  <2>1. Semantics(e) = new
    BY <1>6, SameIn DEF new
  <2>2. Carries(With(new, o.artifacts), new)
    BY <1>6, CarriesWith
  <2> QED BY <1>6, <2>1, <2>2
<1>9. Contents(e, e.artifacts)
  <2>1. e.pc \notin Proved /\ e.pc \notin Viewed /\ e.pc \notin Reported
    BY <1>6, Stages
  <2> QED BY <1>6, <1>7, <1>8, <2>1 DEF Contents
<1> QED BY <1>6, <1>9, ContentsMove

LEMMA AddProofIndexesContents ==
    ASSUME IInv, ContentsInv, NEW b \in Builders, AddProofIndexes(b)
    PROVE  ContentsInv'
<1> DEFINE o == builders[b]
<1> DEFINE new == Cut("index", IndexIn(o))
<1> DEFINE e == Builder("views", o.options, o.loaded, o.done, With(new, o.artifacts))
<1>1. o.pc = "proofs" /\ Write(b, new, "views")
  <2>1. Packets(b) = PacketsIn(o) /\ Proofs(b) = ProofsIn(o)
    BY InOf
  <2> QED BY <2>1 DEF AddProofIndexes, IndexIn
<1>2. "proofs" \in Indexed
  BY DEF Indexed
<1>3. \A path \in DOMAIN new : path[1] = "index"
  BY CutRoles
<1>4. Holds("index", new, new)
  BY CutHolds
<1> HIDE DEF e, new, o
<1>5. \A path \in DOMAIN new : path[1] \notin {"packets", "deltas"}
  BY <1>3
<1>6. /\ builders' = [builders EXCEPT ![b] = e] /\ DOMAIN new \cap DOMAIN o.artifacts = {}
      /\ Contents(o, o.artifacts) /\ Checked(e)
      /\ e.pc = "views" /\ e.options = o.options /\ e.done = o.done
      /\ e.artifacts = With(new, o.artifacts)
      /\ <<"catalog">> \in DOMAIN e.artifacts
      /\ \A n \in 1..e.done : Carries(e.artifacts, EvidenceOf(Sources(e.options)[n]))
      /\ Holds("packets", e.artifacts, Cut("packets", Entries(PacketsIn(e))))
      /\ Holds("deltas", e.artifacts, Cut("deltas", Entries(DeltasIn(e))))
  BY <1>1, <1>2, <1>5, IndexGrows DEF e, o
<1>7. Having("index", o.artifacts) = {} /\ Carries(o.artifacts, Semantics(o))
  <2>1. o.pc \in Canonized
    BY <1>1, Stages
  <2> QED BY <1>1, <1>6, <2>1 DEF Contents
<1>8. Holds("index", e.artifacts, Cut("index", IndexIn(e)))
  <2>1. IndexIn(e) = IndexIn(o)
    BY <1>6, SameIn
  <2>2. Holds("index", With(new, o.artifacts), new)
    BY <1>4, <1>6, <1>7, HoldsNow
  <2> QED BY <1>6, <2>1, <2>2 DEF new
<1>9. Carries(e.artifacts, Semantics(e))
  <2>1. Semantics(e) = Semantics(o)
    BY <1>6, SameIn
  <2>2. Carries(With(new, o.artifacts), Semantics(o))
    BY <1>6, <1>7, CarriesWith
  <2> QED BY <1>6, <2>1, <2>2
<1>10. Contents(e, e.artifacts)
  <2>1. e.pc \notin {"canon", "proofs"} /\ e.pc \notin Viewed /\ e.pc \notin Reported
    BY <1>6, Stages
  <2> QED BY <1>6, <1>8, <1>9, <2>1 DEF Contents
<1> QED BY <1>6, <1>10, ContentsMove

\* Views and report are added after the indexes.
LEMMA ReportGrows ==
    ASSUME NEW o, NEW e, NEW new, o.pc \in Proved, e.options = o.options, e.done = o.done,
           DOMAIN new \cap DOMAIN o.artifacts = {}, e.artifacts = With(new, o.artifacts),
           \A path \in DOMAIN new : path[1] # "index", Contents(o, o.artifacts)
    PROVE  /\ Carries(e.artifacts, Semantics(e))
           /\ Holds("index", e.artifacts, Cut("index", IndexIn(e)))
           /\ o.pc \in Viewed => Carries(e.artifacts, ViewFiles(e))
<1>1. Semantics(e) = Semantics(o) /\ IndexIn(e) = IndexIn(o) /\ ViewFiles(e) = ViewFiles(o)
  BY SameIn
<1>2. o.pc \in Canonized
  BY Stages
<1>3. Carries(o.artifacts, Semantics(o)) /\ Holds("index", o.artifacts, Cut("index", IndexIn(o)))
  BY <1>2 DEF Contents
<1>4. o.pc \in Viewed => Carries(o.artifacts, ViewFiles(o))
  BY DEF Contents
<1>5. \A part : Carries(o.artifacts, part) => Carries(With(new, o.artifacts), part)
  BY CarriesWith
<1>6. Holds("index", With(new, o.artifacts), Cut("index", IndexIn(o)))
  BY <1>3, HoldsStays
<1> QED BY <1>1, <1>3, <1>4, <1>5, <1>6

LEMMA AddViewsContents ==
    ASSUME IInv, ContentsInv, NEW b \in Builders, AddViews(b)
    PROVE  ContentsInv'
<1> DEFINE o == builders[b]
<1> DEFINE new == ViewFiles(o)
<1> DEFINE e == Builder("report", o.options, o.loaded, o.done, With(new, o.artifacts))
<1>1. o.pc = "views" /\ Write(b, new, "report")
  <2>1. Views(b) = ViewsIn(o)
    BY InOf
  <2> QED BY <2>1 DEF AddViews, ViewFiles
<1>2. "views" \in Indexed
  BY DEF Indexed
<1>3. \A path \in DOMAIN new : path[1] = "view"
  BY DEF ViewFiles
<1> HIDE DEF e, new, o
<1>4. \A path \in DOMAIN new : path[1] \notin {"packets", "deltas"} /\ path[1] # "index"
  BY <1>3
<1>5. /\ builders' = [builders EXCEPT ![b] = e] /\ DOMAIN new \cap DOMAIN o.artifacts = {}
      /\ Contents(o, o.artifacts) /\ Checked(e)
      /\ e.pc = "report" /\ e.options = o.options /\ e.done = o.done
      /\ e.artifacts = With(new, o.artifacts)
      /\ <<"catalog">> \in DOMAIN e.artifacts
      /\ \A n \in 1..e.done : Carries(e.artifacts, EvidenceOf(Sources(e.options)[n]))
      /\ Holds("packets", e.artifacts, Cut("packets", Entries(PacketsIn(e))))
      /\ Holds("deltas", e.artifacts, Cut("deltas", Entries(DeltasIn(e))))
  BY <1>1, <1>2, <1>4, IndexGrows DEF e, o
<1>6. o.pc \in Proved
  BY <1>1, Stages
<1>7. Carries(e.artifacts, Semantics(e)) /\ Holds("index", e.artifacts, Cut("index", IndexIn(e)))
  BY <1>4, <1>5, <1>6, ReportGrows
<1>8. Carries(e.artifacts, ViewFiles(e))
  <2>1. ViewFiles(e) = new
    BY <1>5, SameIn DEF new
  <2>2. Carries(With(new, o.artifacts), new)
    BY <1>5, CarriesWith
  <2> QED BY <1>5, <2>1, <2>2
<1>9. Contents(e, e.artifacts)
  <2>1. e.pc \notin {"canon", "proofs"} /\ e.pc \notin Reported
    BY <1>5, Stages
  <2> QED BY <1>5, <1>7, <1>8, <2>1 DEF Contents
<1> QED BY <1>5, <1>9, ContentsMove

LEMMA AddReportContents ==
    ASSUME IInv, ContentsInv, NEW b \in Builders, AddReport(b)
    PROVE  ContentsInv'
<1> DEFINE o == builders[b]
<1> DEFINE new == At(<<"report">>, ReportIn(o))
<1> DEFINE e == Builder("manifest", o.options, o.loaded, o.done, With(new, o.artifacts))
<1>1. o.pc = "report" /\ Write(b, new, "manifest")
  <2>1. Report(b) = ReportIn(o)
    BY ReportOf
  <2> QED BY <2>1 DEF AddReport
<1>2. "report" \in Indexed
  BY DEF Indexed
<1>3. DOMAIN new = {<<"report">>}
  BY AtIs
<1> HIDE DEF e, new, o
<1>4. \A path \in DOMAIN new : path[1] \notin {"packets", "deltas"} /\ path[1] # "index"
  BY <1>3
<1>5. /\ builders' = [builders EXCEPT ![b] = e] /\ DOMAIN new \cap DOMAIN o.artifacts = {}
      /\ Contents(o, o.artifacts) /\ Checked(e)
      /\ e.pc = "manifest" /\ e.options = o.options /\ e.loaded = o.loaded /\ e.done = o.done
      /\ e.artifacts = With(new, o.artifacts)
      /\ <<"catalog">> \in DOMAIN e.artifacts
      /\ \A n \in 1..e.done : Carries(e.artifacts, EvidenceOf(Sources(e.options)[n]))
      /\ Holds("packets", e.artifacts, Cut("packets", Entries(PacketsIn(e))))
      /\ Holds("deltas", e.artifacts, Cut("deltas", Entries(DeltasIn(e))))
  BY <1>1, <1>2, <1>4, IndexGrows DEF e, o
<1>6. o.pc \in Proved /\ o.pc \in Viewed
  BY <1>1, Stages
<1>7. /\ Carries(e.artifacts, Semantics(e)) /\ Holds("index", e.artifacts, Cut("index", IndexIn(e)))
      /\ Carries(e.artifacts, ViewFiles(e))
  BY <1>4, <1>5, <1>6, ReportGrows
<1>8. ReportIn(e) = ReportIn(o)
  <2>1. ASSUME NEW role \in {"bundle", "scale", "acquisition", "capture"}
        PROVE  Having(role, e.artifacts) = Having(role, o.artifacts)
    <3>1. Having(role, With(new, o.artifacts)) = Having(role, new) \cup Having(role, o.artifacts)
      BY <1>5, CarriesWith
    <3>2. Having(role, new) = {}
      BY <1>3 DEF Having
    <3> QED BY <1>5, <3>1, <3>2
  <2>2. ProofArtifacts(e.artifacts) = ProofArtifacts(o.artifacts)
    BY <2>1 DEF ProofArtifacts
  <2> QED BY <1>5, <2>2, SameReport
<1>9. Carries(e.artifacts, At(<<"report">>, ReportIn(e)))
  <2>1. Carries(With(new, o.artifacts), new)
    BY <1>5, CarriesWith
  <2> QED BY <1>5, <1>8, <2>1 DEF new
<1>10. Contents(e, e.artifacts)
  <2>1. e.pc \notin {"canon", "proofs"}
    BY <1>5
  <2> QED BY <1>5, <1>7, <1>9, <2>1 DEF Contents
<1> QED BY <1>5, <1>10, ContentsMove

\* The steps that write no artifact.
LEMMA TurnContents ==
    ASSUME IInv, ContentsInv, NEW b \in Builders, builders[b].pc \in {"manifest", "writing", "verify"}, NEW pc,
           pc \in {"writing", "verify", "built", "failed"}, builders' = [builders EXCEPT ![b].pc = pc]
    PROVE  ContentsInv'
<1> DEFINE o == builders[b]
<1> DEFINE e == Builder(pc, o.options, o.loaded, o.done, o.artifacts)
<1>1. o.pc \in Filling \cup After /\ o.pc \in Reported
  BY Stages DEF Filling, Indexed, After
<1>2. builders' = [builders EXCEPT ![b] = e]
  BY <1>1, OwnerTurns
<1>3. Contents(o, o.artifacts) /\ Checked(o)
  BY <1>1 DEF ContentsInv
<1>4. /\ e.pc = pc /\ e.options = o.options /\ e.loaded = o.loaded /\ e.done = o.done /\ e.artifacts = o.artifacts
  BY BuilderFields
<1> HIDE DEF e, o
<1>5. CASE pc = "failed"
  <2>1. e.pc = "failed"
    BY <1>4, <1>5
  <2> QED BY <1>2, <2>1, FailedContents
<1>6. CASE pc # "failed"
  <2>1. e.pc \in Reported
    BY <1>4, <1>6, Stages
  <2>2. Contents(e, o.artifacts)
    BY <1>1, <1>3, <1>4, <2>1, ContentsStay
  <2>3. Checked(e)
    BY <1>3, <1>4, SameIn
  <2> QED BY <1>2, <1>4, <2>2, <2>3, ContentsMove
<1> QED BY <1>5, <1>6

LEMMA StopContents ==
    ASSUME IInv, ContentsInv, NEW b \in Builders, Stop(b)
    PROVE  ContentsInv'
<1> DEFINE o == builders[b]
<1> DEFINE e == Builder("failed", o.options, o.loaded, o.done, o.artifacts)
<1>1. builders' = [builders EXCEPT ![b] = [o EXCEPT !.pc = "failed"]] /\ IsBuilder(o)
  BY DEF Stop, IInv, TypeInv
<1>2. [o EXCEPT !.pc = "failed"] = e
  <2> HIDE DEF o
  <2> QED BY <1>1, BuilderExcept
<1>3. e.pc = "failed"
  BY BuilderFields
<1>4. builders' = [builders EXCEPT ![b] = e]
  BY <1>1, <1>2
<1> HIDE DEF e
<1> QED BY <1>3, <1>4, FailedContents

LEMMA BuildContents ==
    ASSUME IInv, ContentsInv, NEW b \in Builders, BuildStep(b)
    PROVE  ContentsInv'
<1>1. CASE Begin(b)            BY <1>1, BeginContents
<1>2. CASE Reserve(b)          BY <1>2, ReserveContents
<1>3. CASE LoadSelection(b)    BY <1>3, LoadSelectionContents
<1>4. CASE AddCatalog(b)       BY <1>4, AddCatalogContents
<1>5. CASE Compile(b)          BY <1>5, CompileContents
<1>6. CASE AddSegments(b)      BY <1>6, AddSegmentsContents
<1>7. CASE AddCanon(b)         BY <1>7, AddCanonContents
<1>8. CASE AddProofIndexes(b)  BY <1>8, AddProofIndexesContents
<1>9. CASE AddViews(b)         BY <1>9, AddViewsContents
<1>10. CASE AddReport(b)       BY <1>10, AddReportContents
<1>11. CASE StartManifest(b)   BY <1>11, TurnContents DEF StartManifest
<1>12. CASE WriteManifest(b)   BY <1>12, TurnContents DEF WriteManifest
<1>13. CASE VerifyBuilt(b)
  <2> DEFINE pc == IF Verifies(output) /\ output.manifest = ManifestOf(b) THEN "built" ELSE "failed"
  <2>1. builders[b].pc = "verify" /\ builders' = [builders EXCEPT ![b].pc = pc]
    BY <1>13 DEF VerifyBuilt
  <2>2. pc \in {"built", "failed"}
    OBVIOUS
  <2> HIDE DEF pc
  <2> QED BY <2>1, <2>2, TurnContents
<1>14. CASE Stop(b)            BY <1>14, StopContents
<1> QED
  BY <1>1, <1>2, <1>3, <1>4, <1>5, <1>6, <1>7, <1>8, <1>9, <1>10, <1>11, <1>12, <1>13, <1>14 DEF BuildStep

(***************************************************************************)
(* What a build that has succeeded leaves, and that it can be opened.      *)
(***************************************************************************)
BuiltInv ==
    \A b \in Builders : builders[b].pc = "built" /\ damage = 0 =>
        Verifies(output) /\ output.manifest = ManifestIn(builders[b])

LEMMA PcIs ==
    ASSUME IInv, NEW b \in Builders, NEW e, builders' = [builders EXCEPT ![b] = e]
    PROVE  builders'[b].pc = e.pc /\ \A c \in Builders \ {b} : builders'[c] = builders[c]
BY Turns DEF IInv, TypeInv

LEMMA TurnIs ==
    ASSUME IInv, NEW b \in Builders, NEW pc, builders' = [builders EXCEPT ![b].pc = pc]
    PROVE  builders'[b].pc = pc /\ \A c \in Builders \ {b} : builders'[c] = builders[c]
<1> DEFINE o == builders[b]
<1> DEFINE e == Builder(pc, o.options, o.loaded, o.done, o.artifacts)
<1>1. builders' = [builders EXCEPT ![b] = [o EXCEPT !.pc = pc]] /\ IsBuilder(o)
  BY DEF IInv, TypeInv
<1>2. [o EXCEPT !.pc = pc] = e
  <2> HIDE DEF o
  <2> QED BY <1>1, BuilderExcept
<1>3. e.pc = pc
  BY BuilderFields
<1>4. builders' = [builders EXCEPT ![b] = e]
  BY <1>1, <1>2
<1> HIDE DEF e
<1> QED BY <1>3, <1>4, PcIs

LEMMA WriteTurns ==
    ASSUME IInv, NEW b \in Builders, NEW new, NEW next, Write(b, new, next)
    PROVE  builders'[b].pc = next /\ \A c \in Builders \ {b} : builders'[c] = builders[c]
<1> DEFINE o == builders[b]
<1> DEFINE e == Builder(next, o.options, o.loaded, o.done, With(new, o.artifacts))
<1>1. builders' = [builders EXCEPT ![b] = e]
  BY WrittenIs
<1>2. e.pc = next
  BY BuilderFields
<1> HIDE DEF e
<1> QED BY <1>1, <1>2, PcIs

\* Only the verification ends a build with success.
Unbuilt(b) == builders'[b].pc # "built" /\ \A c \in Builders \ {b} : builders'[c] = builders[c]

LEMMA BeginTurns ==
    ASSUME IInv, NEW b \in Builders, Begin(b) \/ Reserve(b)
    PROVE  Unbuilt(b)
<1> DEFINE o == builders[b]
<1>1. o = [pc |-> o.pc, options |-> o.options, loaded |-> o.loaded, done |-> o.done, artifacts |-> o.artifacts]
  BY DEF IInv, TypeInv, IsBuilder
<1>2. Fresh("failed").pc # "built"
  BY FreshIs
<1>3. CASE Begin(b)
  <2>1. PICK options \in OptionSet[b] :
           builders' = [builders EXCEPT ![b] = IF OptionsValid(options) /\ output = NoDirectory
                                               THEN [@ EXCEPT !.options = options, !.pc = "reserve"] ELSE Fresh("failed")]
    BY <1>3 DEF Begin
  <2> DEFINE e == [[o EXCEPT !.options = options] EXCEPT !.pc = "reserve"]
  <2>2. builders' = [builders EXCEPT ![b] = e] \/ builders' = [builders EXCEPT ![b] = Fresh("failed")]
    BY <2>1
  <2>3. e.pc # "built"
    <3> HIDE DEF o
    <3> QED BY <1>1
  <2> HIDE DEF e
  <2> QED BY <1>2, <2>2, <2>3, PcIs DEF Unbuilt
<1>4. CASE Reserve(b)
  <2>1. builders' = [builders EXCEPT ![b].pc = "load"] \/ builders' = [builders EXCEPT ![b] = Fresh("failed")]
    BY <1>4 DEF Reserve
  <2>2. CASE builders' = [builders EXCEPT ![b].pc = "load"]
    <3>1. builders'[b].pc = "load" /\ \A c \in Builders \ {b} : builders'[c] = builders[c]
      BY <2>2, TurnIs
    <3> QED BY <3>1 DEF Unbuilt
  <2>3. CASE builders' = [builders EXCEPT ![b] = Fresh("failed")]
    BY <1>2, <2>3, PcIs DEF Unbuilt
  <2> QED BY <2>1, <2>2, <2>3
<1> QED BY <1>3, <1>4

LEMMA CompileTurns ==
    ASSUME IInv, NEW b \in Builders, Compile(b)
    PROVE  Unbuilt(b)
<1> DEFINE o == builders[b]
<1> DEFINE new == EvidenceOf(Sources(o.options)[o.done + 1])
<1> DEFINE e == Builder(o.pc, o.options, o.loaded, o.done + 1, With(new, o.artifacts))
<1>1. o.pc = "compile"
  BY DEF Compile
<1>2. CASE Passes(o)
  <2>1. builders' = [builders EXCEPT ![b] = e]
    BY <1>2, CompiledIs
  <2>2. e.pc = "compile"
    BY <1>1, BuilderFields
  <2> HIDE DEF e
  <2> QED BY <2>1, <2>2, PcIs DEF Unbuilt
<1>3. CASE ~Passes(o)
  <2>1. Packets(b) = PacketsIn(o)
    BY PacketsAre
  <2>2. builders' = [builders EXCEPT ![b].pc = "failed"]
    BY <1>3, <2>1 DEF Compile, Passes
  <2>3. builders'[b].pc = "failed" /\ \A c \in Builders \ {b} : builders'[c] = builders[c]
    BY <2>2, TurnIs
  <2> QED BY <2>3 DEF Unbuilt
<1> QED BY <1>2, <1>3

LEMMA BuildTurns ==
    ASSUME IInv, NEW b \in Builders, BuildStep(b), ~VerifyBuilt(b)
    PROVE  Unbuilt(b)
<1>1. CASE Begin(b) \/ Reserve(b)
  BY <1>1, BeginTurns
<1>2. CASE LoadSelection(b)
  <2> DEFINE o == builders[b]
  <2> DEFINE e == Builder("catalog", o.options, selection, o.done, o.artifacts)
  <2>1. builders' = [builders EXCEPT ![b] = e]
    BY <1>2, SelectedIs
  <2>2. e.pc = "catalog"
    BY BuilderFields
  <2> HIDE DEF e
  <2> QED BY <2>1, <2>2, PcIs DEF Unbuilt
<1>3. CASE AddCatalog(b)
  BY <1>3, WriteTurns DEF AddCatalog, Unbuilt
<1>4. CASE Compile(b)
  BY <1>4, CompileTurns
<1>5. CASE AddSegments(b)
  BY <1>5, WriteTurns DEF AddSegments, Unbuilt
<1>6. CASE AddCanon(b)
  BY <1>6, WriteTurns DEF AddCanon, Unbuilt
<1>7. CASE AddProofIndexes(b)
  BY <1>7, WriteTurns DEF AddProofIndexes, Unbuilt
<1>8. CASE AddViews(b)
  BY <1>8, WriteTurns DEF AddViews, Unbuilt
<1>9. CASE AddReport(b)
  BY <1>9, WriteTurns DEF AddReport, Unbuilt
<1>10. CASE StartManifest(b)
  BY <1>10, TurnIs DEF StartManifest, Unbuilt
<1>11. CASE WriteManifest(b)
  BY <1>11, TurnIs DEF WriteManifest, Unbuilt
<1>12. CASE Stop(b)
  BY <1>12, TurnIs DEF Stop, Unbuilt
<1> QED
  BY <1>1, <1>2, <1>3, <1>4, <1>5, <1>6, <1>7, <1>8, <1>9, <1>10, <1>11, <1>12 DEF BuildStep

\* What was verified is not written again.
LEMMA VerifiedStays ==
    ASSUME Verifies(output), Keeps
    PROVE  Verifies(output') /\ output'.manifest = output.manifest
<1>1. output.manifest \notin {NoManifest, Damaged} /\ ManifestValid(output.manifest)
  BY DEF Verifies
<1>2. output'.manifest = output.manifest
  BY <1>1 DEF Keeps
<1>3. \A path \in DOMAIN output.manifest.artifacts :
         path \in DOMAIN output'.files /\ output'.files[path] = output.manifest.artifacts[path]
  BY DEF Verifies, Keeps
<1> QED BY <1>1, <1>2, <1>3 DEF Verifies

LEMMA BuildingBuilt ==
    ASSUME IInv, BuiltInv, NEW b \in Builders, BuildStep(b), damage' = damage
    PROVE  BuiltInv'
<1> SUFFICES ASSUME NEW c \in Builders, builders'[c].pc = "built", damage = 0
             PROVE  Verifies(output') /\ output'.manifest = ManifestIn(builders'[c])
  BY DEF BuiltInv
<1>1. ASSUME builders'[c] = builders[c] PROVE Verifies(output') /\ output'.manifest = ManifestIn(builders'[c])
  <2>1. Verifies(output) /\ output.manifest = ManifestIn(builders[c])
    BY <1>1 DEF BuiltInv
  <2>2. Keeps
    BY BuildingKeeps
  <2> QED BY <1>1, <2>1, <2>2, VerifiedStays
<1>2. CASE ~VerifyBuilt(b)
  <2>1. Unbuilt(b)
    BY <1>2, BuildTurns
  <2> QED BY <1>1, <2>1 DEF Unbuilt
<1>3. CASE VerifyBuilt(b)
  <2> DEFINE pc == IF Verifies(output) /\ output.manifest = ManifestOf(b) THEN "built" ELSE "failed"
  <2> DEFINE o == builders[b]
  <2> DEFINE e == Builder(pc, o.options, o.loaded, o.done, o.artifacts)
  <2>1. builders[b].pc = "verify" /\ builders' = [builders EXCEPT ![b].pc = pc] /\ output' = output
    BY <1>3 DEF VerifyBuilt
  <2>2. pc = "built" => Verifies(output) /\ output.manifest = ManifestOf(b)
    OBVIOUS
  <2> HIDE DEF pc
  <2>3. builders'[b].pc = pc /\ \A d \in Builders \ {b} : builders'[d] = builders[d]
    BY <2>1, TurnIs
  <2>4. CASE c # b
    BY <1>1, <2>3, <2>4
  <2>5. CASE c = b
    <3>1. Verifies(output) /\ output.manifest = ManifestIn(o)
      BY <2>2, <2>3, <2>5, ReportOf
    <3>2. builders' = [builders EXCEPT ![b] = e]
      BY <2>1, OwnerTurns DEF After
    <3>3. builders'[b] = e
      BY <3>2, Turns DEF IInv, TypeInv
    <3>4. e.options = o.options /\ e.loaded = o.loaded /\ e.done = o.done /\ e.artifacts = o.artifacts
      BY BuilderFields
    <3> HIDE DEF e, o
    <3>5. ManifestIn(e) = ManifestIn(o)
      BY <3>4, SameManifest
    <3> QED BY <2>1, <2>5, <3>1, <3>3, <3>5
  <2> QED BY <2>4, <2>5
<1> QED BY <1>2, <1>3

\* Files that are those that were written hold the same.
LEMMA ContentsSame ==
    ASSUME NEW e, NEW old, NEW files, DOMAIN files = DOMAIN old, \A path \in DOMAIN old : files[path] = old[path],
           Contents(e, old)
    PROVE  Contents(e, files)
<1>1. \A part : Carries(old, part) => Carries(files, part)
  BY DEF Carries
<1>2. \A role : Having(role, files) = Having(role, old)
  BY DEF Having
<1>3. \A role, part : Holds(role, old, part) => Holds(role, files, part)
  BY <1>1, <1>2 DEF Holds
<1>4. /\ e.pc \in {"compile"} \cup Segmented => <<"catalog">> \in DOMAIN files
      /\ \A n \in 1..e.done : Carries(files, EvidenceOf(Sources(e.options)[n]))
  BY <1>1 DEF Contents
<1>5. e.pc \in Segmented =>
         /\ Holds("packets", files, Cut("packets", Entries(PacketsIn(e))))
         /\ Holds("deltas", files, Cut("deltas", Entries(DeltasIn(e))))
  BY <1>3 DEF Contents
<1>6. /\ e.pc \in {"canon", "proofs"} => Having("index", files) = {}
      /\ e.pc \in Canonized => Carries(files, Semantics(e))
      /\ e.pc \in Proved => Holds("index", files, Cut("index", IndexIn(e)))
  BY <1>1, <1>2, <1>3 DEF Contents
<1>7. /\ e.pc \in Viewed => Carries(files, ViewFiles(e))
      /\ e.pc \in Reported => Carries(files, At(<<"report">>, ReportIn(e)))
  BY <1>1 DEF Contents
<1> QED BY <1>4, <1>5, <1>6, <1>7 DEF Contents

LEMMA BuiltIsOpened ==
    ASSUME IInv, ContentsInv, BuiltInv, NEW b \in Builders, builders[b].pc = "built", damage = 0
    PROVE  LET e == builders[b] IN
           Opens(output) <=>
               /\ OneEach(e) /\ Origins(Public(PacketsIn(e))) \subseteq e.loaded
               /\ output.files[<<"catalog">>] = e.loaded
<1> DEFINE e == builders[b]
<1> DEFINE files == output.files
<1> DEFINE m == output.manifest
<1>1. "built" \in After
  BY DEF After
<1>2. Verifies(output) /\ m = ManifestIn(e) /\ Contents(e, e.artifacts) /\ Checked(e)
  BY <1>1 DEF BuiltInv, ContentsInv
<1>3. /\ m \notin {NoManifest, Damaged} /\ ManifestValid(m)
      /\ \A path \in DOMAIN m.artifacts : path \in DOMAIN files /\ files[path] = m.artifacts[path]
  BY <1>2 DEF Verifies
<1>4. output.owner = b /\ IsBuilder(e) /\ e.options \in OptionSet[b] /\ DOMAIN files = DOMAIN e.artifacts
  BY <1>1 DEF IInv, TypeInv, OwnerInv
<1>5. e.done = Len(Sources(e.options)) /\ m.artifacts = e.artifacts
  BY <1>3, <1>4 DEF IInv, ManifestInv, Documents, Whole
<1>6. Contents(e, files)
  <2>1. \A path \in DOMAIN e.artifacts : files[path] = e.artifacts[path]
    BY <1>3, <1>5
  <2> HIDE DEF e, files
  <2> QED BY <1>2, <1>4, <2>1, ContentsSame
<1>7. Standing(b, e, files)
  BY <1>2, <1>4, <1>5, <1>6 DEF Standing
<1>8. Having("index", files) # {}
  <2>1. Having("index", m.artifacts) # {}
    BY <1>3 DEF ManifestValid
  <2> QED BY <1>4, <1>5, <2>1 DEF Having
<1> HIDE DEF e, files, m
<1>9. Loads(ManifestIn(e), files) <=>
        OneEach(e) /\ Origins(Public(PacketsIn(e))) \subseteq e.loaded /\ files[<<"catalog">>] = e.loaded
  BY <1>7, <1>8, LoadsAgree
<1>10. ManifestIn(e).counts.packets <= MaxRuntimePackets
  BY <1>7, PacketsFit
<1>11. Opens(output) <=> Verifies(output) /\ m.counts.packets <= MaxRuntimePackets /\ Loads(m, files)
  BY DEF Opens, m, files
<1>12. Opens(output) <=> Loads(ManifestIn(e), files)
  BY <1>2, <1>10, <1>11
<1> QED BY <1>9, <1>12 DEF e, files

\* A build that reports success leaves a directory that verifies, with the manifest
\* of all it has compiled, and whose files hold what each of its steps wrote; what
\* load then counts once more is what the build has counted, so that the runtime
\* opens it exactly when the acquisitions and operations are one each, the public
\* origins are selected and the selection was not edited (Build, Open).
THEOREM BuiltSnapshotsOpen == Spec => []BuiltOpens
<1>1. Init => ContentsInv /\ BuiltInv
  <2> SUFFICES ASSUME Init PROVE ContentsInv /\ BuiltInv
    OBVIOUS
  <2>1. \A b \in Builders : builders[b] = Fresh("idle")
    BY DEF Init, BuildInit
  <2>2. Fresh("idle").pc = "idle"
    BY DEF Fresh
  <2>3. "idle" \notin Filling \cup After
    BY DEF Filling, Indexed, After
  <2> QED BY <2>1, <2>2, <2>3 DEF ContentsInv, BuiltInv
<1>2. IInv /\ ContentsInv /\ BuiltInv /\ [Next]_vars => ContentsInv' /\ BuiltInv'
  <2> SUFFICES ASSUME IInv, ContentsInv, BuiltInv, [Next]_vars PROVE ContentsInv' /\ BuiltInv'
    OBVIOUS
  <2>1. ASSUME builders' = builders PROVE ContentsInv'
    BY <2>1 DEF ContentsInv
  <2>2. ASSUME builders' = builders, output' = output, damage' = damage PROVE BuiltInv'
    BY <2>2 DEF BuiltInv
  <2>3. ASSUME NEW b \in Builders, BuildStep(b) PROVE ContentsInv' /\ BuiltInv'
    <3>1. damage' = damage
      BY <2>3 DEF BuildStep, Begin, Reserve, LoadSelection, AddCatalog, Compile, AddSegments, AddCanon,
                  AddProofIndexes, AddViews, AddReport, StartManifest, WriteManifest, VerifyBuilt, Stop, Write
    <3> QED BY <2>3, <3>1, BuildContents, BuildingBuilt
  <2>4. CASE EditSelection
    BY <2>1, <2>2, <2>4 DEF EditSelection
  <2>5. CASE Damage
    <3>1. builders' = builders /\ damage' # 0
      BY <2>5 DEF Damage, IInv, TypeInv
    <3> QED BY <2>1, <3>1 DEF BuiltInv
  <2>6. CASE RuntimeNext
    BY <2>1, <2>2, <2>6 DEF RuntimeNext, VerifyOpening, Load, Ask, Fetch, buildVars
  <2>7. CASE UNCHANGED vars
    BY <2>1, <2>2, <2>7 DEF vars
  <2> QED BY <2>3, <2>4, <2>5, <2>6, <2>7 DEF Next, BuildNext
<1>3. IInv /\ ContentsInv /\ BuiltInv => BuiltOpens
  <2> SUFFICES ASSUME IInv, ContentsInv, BuiltInv PROVE BuiltOpens
    OBVIOUS
  <2> SUFFICES ASSUME NEW b \in Builders, builders[b].pc = "built", damage = 0
               PROVE  LET archived == {s.of : s \in {s \in Compiled(b) : s.kind = "archive"}}
                          oneEach  == /\ Cardinality(Origins(archived)) = Cardinality(archived)
                                      /\ Cardinality({s.of.operation : s \in Compiled(b)}) = Cardinality(Compiled(b))
                          selected == Origins(Public(Packets(b))) \subseteq builders[b].loaded
                          oneRead  == output.files[<<"catalog">>] = builders[b].loaded
                      IN  Opens(output) <=> oneEach /\ selected /\ oneRead
    BY DEF BuiltOpens
  <2> DEFINE e == builders[b]
  <2>1. Compiled(b) = CompiledIn(e) /\ Packets(b) = PacketsIn(e)
    BY InOf
  <2>2. {s.of : s \in {s \in Compiled(b) : s.kind = "archive"}} = Archived(e)
    BY <2>1 DEF Archived, ArchivesIn
  <2>3. Opens(output) <=>
            /\ OneEach(e) /\ Origins(Public(PacketsIn(e))) \subseteq e.loaded
            /\ output.files[<<"catalog">>] = e.loaded
    BY BuiltIsOpened
  <2>4. OneEach(e) <=>
            /\ Cardinality(Origins(Archived(e))) = Cardinality(Archived(e))
            /\ Cardinality({s.of.operation : s \in CompiledIn(e)}) = Cardinality(CompiledIn(e))
    BY DEF OneEach
  <2> QED BY <2>1, <2>2, <2>3, <2>4
<1> QED BY <1>1, <1>2, <1>3, Invariant, PTL DEF Spec
=============================================================================
