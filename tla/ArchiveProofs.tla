--------------------------- MODULE ArchiveProofs ---------------------------
(***************************************************************************)
(* What the runs of a work order keep of their directory, for any number   *)
(* of runs, collections, routes, responses and power failures: raw bytes   *)
(* are stored before a parser sees them, a directory with a manifest       *)
(* verifies, and nothing that is stored is rewritten.                      *)
(*                                                                         *)
(* The argument.  Every path of the tree is due at one step of the program *)
(* and one entry (When), and so is a run (Position).  A run that is past   *)
(* its first step is the only one, as the root is made once and by it      *)
(* alone; what is not yet due does not exist, and what is past exists and  *)
(* is certain (RunInv).  What the tree keeps when the run is gone is said  *)
(* of the tree alone (World), and a power failure preserves that.          *)
(***************************************************************************)
EXTENDS ArchiveAcquire, Integers, TLAPS

(***************************************************************************)
(* The order in which a run makes the paths of the tree.  Place numbers    *)
(* the steps of the program, and 22 of them make up an entry.              *)
(***************************************************************************)
LastEntry == Len(Collections) * Len(Routes)
Steps == {Program[i] : i \in DOMAIN Program} \cup {"stopped"}
Place(s) == CHOOSE i \in DOMAIN Program : Program[i] = s

RawDir == <<"raw">>
CapturesDir == <<"captures">>
OrderFile == <<"order">>
FinalFile == <<"final">>
Prologue == {<<"root">>, RawDir, CapturesDir, OrderFile}
SpoolDirs == {"spool"} \X Entries
Listable == {OrderFile} \cup {"index", "range"} \X Entries \cup {<<"spool", k, "manifest">> : k \in Entries}

StepOf(p) == IF Len(p) = 3 THEN p[3] ELSE p[1]
EntryOf(p) == IF Len(p) > 1 THEN p[2] ELSE IF p = FinalFile THEN LastEntry ELSE 1
When(p) == 22 * EntryOf(p) + Place(StepOf(p))

LEMMA ProgramIs ==
    /\ DOMAIN Program = 1..22
    /\ Program[1] = "root" /\ Program[2] = "raw" /\ Program[3] = "captures" /\ Program[4] = "order"
    /\ Program[5] = "ask" /\ Program[6] = "index" /\ Program[7] = "parse" /\ Program[8] = "fetch"
    /\ Program[9] = "range" /\ Program[10] = "spool" /\ Program[11] = "work-order"
    /\ Program[12] = "index-record" /\ Program[13] = "range-response" /\ Program[14] = "warc-record"
    /\ Program[15] = "evidence-manifest" /\ Program[16] = "read" /\ Program[17] = "representation"
    /\ Program[18] = "capture" /\ Program[19] = "manifest" /\ Program[20] = "reconcile"
    /\ Program[21] = "final" /\ Program[22] = "done"
BY DEF Program

\* No step stands twice in the program.
LEMMA PlaceIs ==
    ASSUME NEW i \in 1..22
    PROVE  Place(Program[i]) = i
<1>1. \A j \in 1..22 : Program[j] = Program[i] => j = i
  BY ProgramIs
<1>2. DOMAIN Program = 1..22
  BY ProgramIs
<1> QED BY <1>1, <1>2 DEF Place

LEMMA Places ==
    /\ Place("root") = 1 /\ Place("raw") = 2 /\ Place("captures") = 3 /\ Place("order") = 4
    /\ Place("ask") = 5 /\ Place("index") = 6 /\ Place("parse") = 7 /\ Place("fetch") = 8
    /\ Place("range") = 9 /\ Place("spool") = 10 /\ Place("work-order") = 11
    /\ Place("index-record") = 12 /\ Place("range-response") = 13 /\ Place("warc-record") = 14
    /\ Place("evidence-manifest") = 15 /\ Place("read") = 16 /\ Place("representation") = 17
    /\ Place("capture") = 18 /\ Place("manifest") = 19 /\ Place("reconcile") = 20
    /\ Place("final") = 21 /\ Place("done") = 22
<1>1. \A i \in 1..22 : Place(Program[i]) = i
  BY PlaceIs
<1>2. /\ Place(Program[1]) = 1 /\ Place(Program[2]) = 2 /\ Place(Program[3]) = 3 /\ Place(Program[4]) = 4
      /\ Place(Program[5]) = 5 /\ Place(Program[6]) = 6 /\ Place(Program[7]) = 7 /\ Place(Program[8]) = 8
      /\ Place(Program[9]) = 9 /\ Place(Program[10]) = 10 /\ Place(Program[11]) = 11
      /\ Place(Program[12]) = 12 /\ Place(Program[13]) = 13 /\ Place(Program[14]) = 14
      /\ Place(Program[15]) = 15 /\ Place(Program[16]) = 16 /\ Place(Program[17]) = 17
      /\ Place(Program[18]) = 18 /\ Place(Program[19]) = 19 /\ Place(Program[20]) = 20
      /\ Place(Program[21]) = 21 /\ Place(Program[22]) = 22
  BY <1>1
<1> QED BY <1>2, ProgramIs

LEMMA Follows ==
    ASSUME NEW i \in 1..21
    PROVE  Following(Program[i]) = Program[i + 1] /\ Program[i + 1] \in Steps
<1>1. Following(Program[i]) = Program[1 + Place(Program[i])]
  BY DEF Following, Place
<1>2. Place(Program[i]) = i
  BY PlaceIs
<1>3. i + 1 \in DOMAIN Program /\ i + 1 = 1 + i
  BY ProgramIs
<1> QED BY <1>1, <1>2, <1>3 DEF Steps

\* The place of a step of the program, and the step that follows it.
LEMMA NextPlace ==
    ASSUME NEW s \in Steps \ {"stopped", "done"}
    PROVE  /\ Place(s) \in 1..21 /\ Following(s) \in Steps
           /\ Place(Following(s)) = Place(s) + 1
<1>1. PICK i \in DOMAIN Program : Program[i] = s
  BY DEF Steps
<1>2. i \in 1..22 /\ i # 22
  BY <1>1, ProgramIs
<1>3. Place(s) = i
  BY <1>1, <1>2, PlaceIs
<1>4. i \in 1..21 /\ i + 1 \in 1..22
  BY <1>2
<1>5. Following(s) = Program[i + 1] /\ Program[i + 1] \in Steps
  BY <1>1, <1>4, Follows
<1>6. Place(Program[i + 1]) = i + 1
  BY <1>4, PlaceIs
<1> QED BY <1>3, <1>4, <1>5, <1>6

LEMMA OnePlace ==
    ASSUME NEW s \in Steps \ {"stopped"}, NEW u \in Steps \ {"stopped"}, Place(s) = Place(u)
    PROVE  s = u /\ Place(s) \in 1..22
<1>1. PICK i \in DOMAIN Program : Program[i] = s
  BY DEF Steps
<1>2. PICK j \in DOMAIN Program : Program[j] = u
  BY DEF Steps
<1>3. i \in 1..22 /\ j \in 1..22
  BY <1>1, <1>2, ProgramIs
<1>4. Place(Program[i]) = i /\ Place(Program[j]) = j
  BY <1>3, PlaceIs
<1> QED BY <1>1, <1>2, <1>3, <1>4

(***************************************************************************)
(* Paths.                                                                  *)
(***************************************************************************)
LEMMA EntriesAre == LastEntry \in Nat /\ LastEntry > 0 /\ Entries = 1..LastEntry /\ 1 \in Entries /\ LastEntry \in Entries
<1>1. Len(Collections) \in Nat /\ Len(Routes) \in Nat /\ Len(Collections) > 0 /\ Len(Routes) > 0
  BY OrderAssumption
<1>2. LastEntry \in Nat /\ LastEntry > 0
  BY <1>1 DEF LastEntry
<1> QED BY <1>2 DEF Entries, LastEntry

LEMMA SpoolPlaces ==
    ASSUME NEW f \in SpoolFiles
    PROVE  /\ f \in Steps \ {"stopped"} /\ Place(f) \in 11..19 /\ Place(f) # 16
           /\ f = "work-order" => Place(f) = 11
           /\ f \in RawFiles => Place(f) <= 14
<1>1. f \in {"work-order", "index-record", "range-response", "warc-record", "evidence-manifest",
             "representation", "capture", "manifest"}
  BY DEF SpoolFiles, SealedFiles, RawFiles
<1>2. Place(f) \in 11..19 /\ Place(f) # 16 /\ (f = "work-order" => Place(f) = 11) /\ (f \in RawFiles => Place(f) <= 14)
  BY <1>1, Places DEF RawFiles
<1>3. \A i \in 1..22 : Program[i] \in Steps
  BY ProgramIs DEF Steps
<1>4. f \in Steps
  BY <1>1, <1>3, ProgramIs
<1> QED BY <1>1, <1>2, <1>4

LEMMA PathKinds ==
    ASSUME NEW p \in Tree
    PROVE  \/ p \in Prologue \/ p = FinalFile
           \/ \E k \in Entries : p \in {<<"index", k>>, <<"range", k>>, <<"spool", k>>}
           \/ \E k \in Entries, f \in SpoolFiles : p = <<"spool", k, f>>
<1>1. CASE p = <<"root">>
  BY <1>1 DEF Prologue
<1>2. CASE p \in {<<t>> : t \in Top}
  BY <1>2 DEF Top, Prologue, RawDir, CapturesDir, OrderFile, FinalFile
<1>3. CASE p \in {"index", "range", "spool"} \X Entries
  BY <1>3
<1>4. CASE p \in {"spool"} \X Entries \X SpoolFiles
  BY <1>4
<1> QED BY <1>1, <1>2, <1>3, <1>4 DEF Tree

\* The paths there are.
LEMMA PathsExist ==
    /\ <<"root">> \in Tree /\ RawDir \in Tree /\ CapturesDir \in Tree /\ OrderFile \in Tree /\ FinalFile \in Tree
    /\ \A k \in Entries : <<"index", k>> \in Tree /\ <<"range", k>> \in Tree /\ <<"spool", k>> \in Tree
    /\ \A k \in Entries, f \in SpoolFiles : <<"spool", k, f>> \in Tree
<1>1. <<"root">> \in Tree
  BY DEF Tree
<1>2. \A t \in Top : <<t>> \in Tree
  BY DEF Tree
<1>3. \A k \in Entries : <<"index", k>> \in Tree /\ <<"range", k>> \in Tree /\ <<"spool", k>> \in Tree
  BY DEF Tree
<1>4. \A k \in Entries, f \in SpoolFiles : <<"spool", k, f>> \in Tree
  BY DEF Tree
<1> QED BY <1>1, <1>2, <1>3, <1>4 DEF Top, RawDir, CapturesDir, OrderFile, FinalFile

\* When each is due.
LEMMA DueTimes ==
    /\ When(<<"root">>) = 23 /\ When(RawDir) = 24 /\ When(CapturesDir) = 25 /\ When(OrderFile) = 26
    /\ When(FinalFile) = 22 * LastEntry + 21
    /\ \A k \in Entries : /\ When(<<"index", k>>) = 22 * k + 6 /\ When(<<"range", k>>) = 22 * k + 9
                          /\ When(<<"spool", k>>) = 22 * k + 10
    /\ \A k \in Entries, f \in SpoolFiles : When(<<"spool", k, f>>) = 22 * k + Place(f)
<1>1. <<"root">> # FinalFile /\ RawDir # FinalFile /\ CapturesDir # FinalFile /\ OrderFile # FinalFile
  BY DEF RawDir, CapturesDir, OrderFile, FinalFile
<1>2. When(<<"root">>) = 23 /\ When(RawDir) = 24 /\ When(CapturesDir) = 25 /\ When(OrderFile) = 26
  BY <1>1, Places DEF When, EntryOf, StepOf, RawDir, CapturesDir, OrderFile
<1>3. When(FinalFile) = 22 * LastEntry + 21
  BY Places DEF When, EntryOf, StepOf, FinalFile
<1>4. ASSUME NEW k \in Entries, NEW t
      PROVE  EntryOf(<<t, k>>) = k /\ StepOf(<<t, k>>) = t
  BY DEF EntryOf, StepOf
<1>5. ASSUME NEW k \in Entries, NEW f \in SpoolFiles
      PROVE  EntryOf(<<"spool", k, f>>) = k /\ StepOf(<<"spool", k, f>>) = f
  BY DEF EntryOf, StepOf
<1> QED BY <1>2, <1>3, <1>4, <1>5, Places DEF When

LEMMA DueInEntry ==
    ASSUME NEW k \in Entries
    PROVE  /\ k \in Nat /\ k > 0 /\ k <= LastEntry /\ LastEntry \in Nat
           /\ When(<<"index", k>>) = 22 * k + 6 /\ When(<<"range", k>>) = 22 * k + 9
           /\ When(<<"spool", k>>) = 22 * k + 10
BY DueTimes, EntriesAre

LEMMA DueInSpool ==
    ASSUME NEW k \in Entries, NEW f \in SpoolFiles
    PROVE  When(<<"spool", k, f>>) = 22 * k + Place(f) /\ Place(f) \in 11..19
BY DueTimes, SpoolPlaces

\* The kinds of paths, by the step that makes them.
LEMMA PathSteps ==
    ASSUME NEW p \in Tree
    PROVE  /\ StepOf(p) \in Steps \ {"stopped"} /\ EntryOf(p) \in Entries /\ Place(StepOf(p)) \in 1..22
           /\ \/ p \in Prologue \cup {FinalFile} /\ p = <<StepOf(p)>>
              \/ StepOf(p) \in {"index", "range", "spool"} /\ p = <<StepOf(p), EntryOf(p)>>
              \/ StepOf(p) \in SpoolFiles /\ p = <<"spool", EntryOf(p), StepOf(p)>>
<1>1. \A i \in 1..22 : Program[i] \in Steps
  BY ProgramIs DEF Steps
<1>2. {"root", "raw", "captures", "order", "final", "index", "range", "spool"} \subseteq Steps \ {"stopped"}
  BY <1>1, ProgramIs
<1>3. CASE p \in Prologue
  <2>1. StepOf(p) \in {"root", "raw", "captures", "order"} /\ p = <<StepOf(p)>> /\ EntryOf(p) = 1
    BY <1>3 DEF Prologue, RawDir, CapturesDir, OrderFile, FinalFile, StepOf, EntryOf
  <2> QED BY <1>2, <1>3, <2>1, EntriesAre, Places
<1>4. CASE p = FinalFile
  BY <1>2, <1>4, EntriesAre, Places DEF FinalFile, StepOf, EntryOf
<1>5. ASSUME NEW k \in Entries, p \in {<<"index", k>>, <<"range", k>>, <<"spool", k>>}
      PROVE  /\ StepOf(p) \in {"index", "range", "spool"} /\ EntryOf(p) = k /\ p = <<StepOf(p), EntryOf(p)>>
  BY <1>5 DEF StepOf, EntryOf
<1>6. ASSUME NEW k \in Entries, NEW f \in SpoolFiles, p = <<"spool", k, f>>
      PROVE  StepOf(p) = f /\ EntryOf(p) = k
  BY <1>6 DEF StepOf, EntryOf
<1>7. CASE \E k \in Entries : p \in {<<"index", k>>, <<"range", k>>, <<"spool", k>>}
  BY <1>2, <1>5, <1>7, Places
<1>8. CASE \E k \in Entries, f \in SpoolFiles : p = <<"spool", k, f>>
  <2>1. PICK k \in Entries, f \in SpoolFiles : p = <<"spool", k, f>>
    BY <1>8
  <2>2. StepOf(p) = f /\ EntryOf(p) = k
    BY <1>6, <2>1
  <2>3. f \in Steps \ {"stopped"} /\ Place(f) \in 11..19
    BY SpoolPlaces
  <2> QED BY <2>1, <2>2, <2>3
<1> QED BY <1>3, <1>4, <1>7, <1>8, PathKinds

LEMMA WhenType ==
    ASSUME NEW p \in Tree
    PROVE  When(p) \in Nat /\ When(p) <= 22 * LastEntry + 21
<1>1. EntryOf(p) \in 1..LastEntry /\ Place(StepOf(p)) \in 1..22 /\ LastEntry \in Nat
  BY PathSteps, EntriesAre
<1>2. StepOf(p) # "done"
  BY PathSteps DEF Prologue, FinalFile, RawDir, CapturesDir, OrderFile, SpoolFiles, SealedFiles, RawFiles
<1>3. Place(StepOf(p)) # 22
  <2>1. "done" \in Steps \ {"stopped"}
    BY ProgramIs DEF Steps
  <2> QED BY <1>2, <2>1, OnePlace, PathSteps, Places
<1> DEFINE a == EntryOf(p)
           i == Place(StepOf(p))
<1>4. When(p) = 22 * a + i /\ a \in 1..LastEntry /\ i \in 1..21
  BY <1>1, <1>3 DEF When
<1> HIDE DEF a, i
<1> QED BY <1>1, <1>4

\* No two paths are due at the same time.
LEMMA OnePath ==
    ASSUME NEW p \in Tree, NEW q \in Tree, When(p) = When(q)
    PROVE  p = q
<1>1. /\ EntryOf(p) \in Nat /\ EntryOf(q) \in Nat /\ Place(StepOf(p)) \in 1..22 /\ Place(StepOf(q)) \in 1..22
  BY PathSteps, EntriesAre
<1>2. EntryOf(p) = EntryOf(q) /\ Place(StepOf(p)) = Place(StepOf(q))
  <2> DEFINE a == EntryOf(p)
             b == EntryOf(q)
             i == Place(StepOf(p))
             j == Place(StepOf(q))
  <2>1. 22 * a + i = 22 * b + j /\ a \in Nat /\ b \in Nat /\ i \in 1..22 /\ j \in 1..22
    BY <1>1 DEF When
  <2> HIDE DEF a, b, i, j
  <2>2. a = b /\ i = j
    BY <2>1
  <2> QED BY <2>2 DEF a, b, i, j
<1>3. StepOf(p) = StepOf(q)
  BY <1>2, OnePlace, PathSteps
<1>4. ASSUME NEW x \in Tree
      PROVE  /\ StepOf(x) \in {"root", "raw", "captures", "order", "final"} => x = <<StepOf(x)>>
             /\ StepOf(x) \in {"index", "range", "spool"} => x = <<StepOf(x), EntryOf(x)>>
             /\ StepOf(x) \in SpoolFiles => x = <<"spool", EntryOf(x), StepOf(x)>>
             /\ StepOf(x) \in {"root", "raw", "captures", "order", "final"} \cup {"index", "range", "spool"} \cup SpoolFiles
  <2>1. x \in Prologue \cup {FinalFile} => StepOf(x) \in {"root", "raw", "captures", "order", "final"}
    BY DEF Prologue, RawDir, CapturesDir, OrderFile, FinalFile, StepOf
  <2>2. SpoolFiles \cap {"root", "raw", "captures", "order", "final", "index", "range", "spool"} = {}
    BY DEF SpoolFiles, SealedFiles, RawFiles
  <2> QED BY <2>1, <2>2, PathSteps
<1> QED BY <1>2, <1>3, <1>4

\* The directory of each.
LEMMA Parents ==
    /\ Above[<<"root">>] = <<"root">> /\ Above[RawDir] = <<"root">> /\ Above[CapturesDir] = <<"root">>
    /\ Above[OrderFile] = <<"root">> /\ Above[FinalFile] = <<"root">>
    /\ \A k \in Entries : /\ Above[<<"index", k>>] = RawDir /\ Above[<<"range", k>>] = RawDir
                          /\ Above[<<"spool", k>>] = CapturesDir
    /\ \A k \in Entries, f \in SpoolFiles : Above[<<"spool", k, f>>] = <<"spool", k>>
<1>1. ASSUME NEW p \in Tree
      PROVE  /\ Len(p) = 1 => Above[p] = <<"root">>
             /\ Len(p) = 2 /\ p[1] # "spool" => Above[p] = <<"raw">>
             /\ Len(p) = 2 /\ p[1] = "spool" => Above[p] = <<"captures">>
             /\ Len(p) = 3 => Above[p] = <<p[1], p[2]>>
  BY DEF Above
<1>2. /\ Above[<<"root">>] = <<"root">> /\ Above[RawDir] = <<"root">> /\ Above[CapturesDir] = <<"root">>
      /\ Above[OrderFile] = <<"root">> /\ Above[FinalFile] = <<"root">>
  <2>1. \A p \in Tree : Len(p) = 1 => Above[p] = <<"root">>
    BY <1>1
  <2> QED BY <2>1, PathsExist DEF RawDir, CapturesDir, OrderFile, FinalFile
<1>3. ASSUME NEW k \in Entries
      PROVE  Above[<<"index", k>>] = RawDir /\ Above[<<"range", k>>] = RawDir
  <2>1. \A p \in Tree : Len(p) = 2 /\ p[1] # "spool" => Above[p] = RawDir
    BY <1>1 DEF RawDir
  <2> QED BY <2>1, PathsExist
<1>4. ASSUME NEW k \in Entries
      PROVE  Above[<<"spool", k>>] = CapturesDir
  <2>1. \A p \in Tree : Len(p) = 2 /\ p[1] = "spool" => Above[p] = CapturesDir
    BY <1>1 DEF CapturesDir
  <2> QED BY <2>1, PathsExist
<1>5. ASSUME NEW k \in Entries, NEW f \in SpoolFiles
      PROVE  Above[<<"spool", k, f>>] = <<"spool", k>>
  <2>1. \A p \in Tree : Len(p) = 3 /\ p[1] = "spool" => Above[p] = <<p[1], p[2]>>
    BY <1>1
  <2> QED BY <2>1, PathsExist
<1> QED BY <1>2, <1>3, <1>4, <1>5

(***************************************************************************)
(* What a run at its step has made of the tree t.                          *)
(***************************************************************************)
Position(e) == 22 * e.entry + Place(e.step)
Past(e, p) == When(p) < Position(e) \/ (When(p) = Position(e) /\ e.syncing)
Active(e) == e.step \notin {"root"} \cup Ended

Has(t, p) == t.now[p] # Absent
Kept(t, p) == t.kept[p] = t.now[p]
SpoolIn(t, k) == [f \in SpoolFiles |-> t.now[<<"spool", k, f>>]]

\* What is not yet due does not exist, and what is past is certain, but for the
\* directories that nothing fsyncs.
Unreached(e, t) == \A p \in Tree : Past(e, p) \/ t.now[p] = Absent

Loose(e, p) == \/ p \in {<<"root">>} \cup SpoolDirs
               \/ When(p) = Position(e)
               \/ p \in {RawDir, CapturesDir} /\ e.step \in {"raw", "captures", "order"}
Certain(e, t) == \A p \in Tree : Loose(e, p) \/ Kept(t, p)

\* The manifest in the making tells the truth.
Listed(e, t) == \A a \in e.listed : a.path \in Listable /\ Past(e, a.path) /\ t.now[a.path] = a.content

Count(e) == IF e.step = "final" THEN e.entry ELSE e.entry - 1
Captured(e, t) ==
    /\ e.captures = [k \in 1..Count(e) |-> e.captures[k]]
    /\ \A k \in 1..Count(e) : SpoolVerified(SpoolIn(t, k)) /\ SpoolIn(t, k)["capture"] = e.captures[k].metadata

InOrder(e, t) ==
    /\ e.step \in {"raw", "captures", "order"} => e.entry = 1
    /\ e.step = "final" => e.entry = LastEntry
    /\ e.step # "raw" => Has(t, RawDir)
    /\ e.step \notin {"raw", "captures"} => Has(t, CapturesDir)
    /\ e.step \notin {"raw", "captures", "order"} \/ (e.step = "order" /\ e.syncing) => t.now[OrderFile] = Order

\* What the parsers have been given is what was stored.
Derived(t, k) == RawVerified(SpoolIn(t, k)) /\ RecordAccepted(t.now[<<"range", k>>], Selected(k))

Parsed(e, t) ==
    /\ e.step \in {"parse", "fetch", "range"} \/ (e.step = "index" /\ e.syncing) =>
          t.now[<<"index", e.entry>>] = e.index
    /\ e.step \in {"fetch", "range"} =>
          Has(t, <<"index", e.entry>>) /\ IndexAccepted(t.now[<<"index", e.entry>>], e.entry)
    /\ e.step \in SpoolFiles \cup {"read"} => e.body = t.now[<<"range", e.entry>>]
    /\ e.step \in {"representation", "capture"} => Derived(t, e.entry)

RunInv(e, t) == /\ Has(t, <<"root">>)
                /\ Unreached(e, t) /\ Certain(e, t) /\ Listed(e, t) /\ Captured(e, t)
                /\ InOrder(e, t) /\ Parsed(e, t)

(***************************************************************************)
(* What the tree keeps through other runs and n power failures.            *)
(***************************************************************************)
Rooted(t) == ~Has(t, <<"root">>) => \A p \in Tree : ~Has(t, p)
Honest(t) == \A p \in Tree : t.kept[p] \in {Absent, t.now[p]}
Firm(t) == \A p \in Tree \ Prologue : Has(t, p) =>
              /\ Has(t, RawDir) /\ Has(t, CapturesDir)
              /\ Kept(t, RawDir) /\ Kept(t, CapturesDir) /\ Kept(t, OrderFile)
Indexed(t, k) == Has(t, <<"range", k>>) =>
                    /\ Kept(t, <<"index", k>>) /\ Has(t, <<"index", k>>)
                    /\ IndexAccepted(t.now[<<"index", k>>], k)
Recorded(t, k) == /\ (\E f \in SpoolFiles : Has(t, <<"spool", k, f>>)) => Kept(t, <<"range", k>>)
                  /\ Has(t, <<"spool", k, "warc-record">>) =>
                        t.now[<<"spool", k, "warc-record">>] = t.now[<<"range", k>>]
Evidence == RawFiles \cup {"evidence-manifest"}
Represented(t, k) == Has(t, <<"spool", k, "representation">>) =>
                        /\ Derived(t, k)
                        /\ \A f \in Evidence : Kept(t, <<"spool", k, f>>)

Gone(t, k, n) == n > 0 /\ ~Has(t, <<"spool", k>>)
Truthful(t, m, n) ==
    /\ \A p \in Tree \ ({<<"root">>, FinalFile} \cup SpoolDirs) : Kept(t, p)
    /\ m.order = t.now[OrderFile] /\ ManifestValid(m)
    /\ \A k \in DOMAIN m.captures :
          /\ k \in Entries
          /\ \/ SpoolVerified(SpoolIn(t, k)) /\ SpoolIn(t, k)["capture"] = m.captures[k].metadata
             \/ Gone(t, k, n)
    /\ \A a \in m.listed :
          /\ a.path \in Listable
          /\ \/ t.now[a.path] = a.content
             \/ \E k \in Entries : Gone(t, k, n) /\ a.path = <<"spool", k, "manifest">>
Published(t, n) == Has(t, FinalFile) => Truthful(t, t.now[FinalFile], n)

World(t, n) == /\ Rooted(t) /\ Honest(t) /\ Firm(t) /\ Published(t, n)
               /\ \A k \in Entries : Indexed(t, k) /\ Recorded(t, k) /\ Represented(t, k)

Stored(t) == t = [now |-> [p \in Tree |-> t.now[p]], kept |-> [p \in Tree |-> t.kept[p]]]
IsRun(e) ==
    /\ e = [step |-> e.step, syncing |-> e.syncing, entry |-> e.entry, index |-> e.index, body |-> e.body,
            total |-> e.total, listed |-> e.listed, captures |-> e.captures]
    /\ e.step \in Steps /\ e.syncing \in BOOLEAN /\ e.entry \in Entries
    /\ e.step = "root" => e = Idle
    /\ e.syncing => e.step \in Files

OneActive == \A q, r \in Runs : Active(run[q]) /\ Active(run[r]) => q = r

IInv == /\ Stored(store) /\ World(store, outages) /\ outages \in Nat
        /\ run = [r \in Runs |-> run[r]] /\ \A r \in Runs : IsRun(run[r])
        /\ OneActive
        /\ \A r \in Runs : Active(run[r]) => RunInv(run[r], store)

(***************************************************************************)
(* The three changes of a tree.                                            *)
(***************************************************************************)
LEMMA PutIs ==
    ASSUME NEW t, Stored(t), NEW p \in Tree, NEW c
    PROVE  LET u == FS!Put(t, p, c)
           IN /\ Stored(u) /\ u.now[p] = c /\ u.kept = t.kept
              /\ \A q \in Tree \ {p} : u.now[q] = t.now[q]
<1> DEFINE now == [q \in Tree |-> t.now[q]]
           kept == [q \in Tree |-> t.kept[q]]
<1>1. t = [now |-> now, kept |-> kept]
  BY DEF Stored
<1>2. t.now = now /\ t.kept = kept
  BY <1>1
<1>3. FS!Put(t, p, c) = [now |-> [now EXCEPT ![p] = c], kept |-> kept]
  <2>1. FS!Put(t, p, c) = [t EXCEPT !.now[p] = c]
    BY DEF FS!Put
  <2> HIDE DEF now, kept
  <2>2. [[now |-> now, kept |-> kept] EXCEPT !.now[p] = c] = [now |-> [now EXCEPT ![p] = c], kept |-> kept]
    OBVIOUS
  <2> QED BY <1>1, <2>1, <2>2
<1> DEFINE w == [now EXCEPT ![p] = c]
<1>4. w = [q \in Tree |-> w[q]] /\ w[p] = c /\ \A q \in Tree \ {p} : w[q] = now[q]
  OBVIOUS
<1> HIDE DEF w
<1>5. kept = [q \in Tree |-> kept[q]]
  OBVIOUS
<1> HIDE DEF now, kept
<1>6. FS!Put(t, p, c).now = w /\ FS!Put(t, p, c).kept = kept /\ FS!Put(t, p, c) = [now |-> w, kept |-> kept]
  BY <1>3 DEF w
<1> QED BY <1>2, <1>4, <1>5, <1>6 DEF Stored

LEMMA SyncIs ==
    ASSUME NEW t, Stored(t), NEW d
    PROVE  LET u == FS!SyncDir(t, d)
           IN /\ Stored(u) /\ u.now = t.now
              /\ \A q \in Tree : u.kept[q] = IF q # <<"root">> /\ Above[q] = d THEN t.now[q] ELSE t.kept[q]
<1> DEFINE now == [q \in Tree |-> t.now[q]]
           kept == [q \in Tree |-> t.kept[q]]
           w == [q \in Tree |-> IF q \in FS!Children(d) THEN t.now[q] ELSE t.kept[q]]
<1>1. t = [now |-> now, kept |-> kept]
  BY DEF Stored
<1>2. t.now = now /\ t.kept = kept
  BY <1>1
<1>3. FS!SyncDir(t, d) = [t EXCEPT !.kept = w]
  <2> HIDE DEF now, kept
  <2> QED BY <1>1 DEF FS!SyncDir
<1>4. \A q \in Tree : w[q] = IF q # <<"root">> /\ Above[q] = d THEN t.now[q] ELSE t.kept[q]
  BY DEF FS!Children
<1>5. w = [q \in Tree |-> w[q]] /\ now = [q \in Tree |-> now[q]]
  OBVIOUS
<1> HIDE DEF w, now, kept
<1>6. FS!SyncDir(t, d) = [now |-> now, kept |-> w]
  BY <1>1, <1>3
<1>7. FS!SyncDir(t, d).now = now /\ FS!SyncDir(t, d).kept = w
  BY <1>6
<1> QED BY <1>2, <1>4, <1>5, <1>6, <1>7 DEF Stored

\* What a power failure leaves: each path as it was, or nothing; and what was certain
\* is still there unless a directory above it is gone.
LEMMA SurvivorIs ==
    ASSUME NEW t, Stored(t), Honest(t), NEW u \in FS!Survivors(t)
    PROVE  /\ Stored(u) /\ u.kept = u.now
           /\ \A q \in Tree : u.now[q] \in {Absent, t.now[q]}
           /\ \A q \in Tree : Has(u, q) => Has(u, <<"root">>)
           /\ \A q \in {RawDir, CapturesDir, OrderFile, FinalFile} :
                 Has(u, <<"root">>) /\ Kept(t, q) => u.now[q] = t.now[q]
           /\ \A k \in Entries : \A q \in {<<"index", k>>, <<"range", k>>} :
                 Has(u, RawDir) /\ Kept(t, q) => u.now[q] = t.now[q]
           /\ \A k \in Entries, f \in SpoolFiles :
                 /\ Has(u, <<"spool", k, f>>) => Has(u, <<"spool", k>>)
                 /\ Has(u, <<"spool", k>>) /\ Kept(t, <<"spool", k, f>>) =>
                       u.now[<<"spool", k, f>>] = t.now[<<"spool", k, f>>]
<1>1. PICK lost \in SUBSET {p \in Tree : t.now[p] # t.kept[p]} :
         LET left == [p \in Tree |-> IF p \in lost THEN t.kept[p] ELSE t.now[p]]
             mounted == [p \in Tree |-> IF FS!Reachable(left, p) THEN left[p] ELSE Absent]
         IN u = [now |-> mounted, kept |-> mounted]
  BY DEF FS!Survivors
<1> DEFINE left == [p \in Tree |-> IF p \in lost THEN t.kept[p] ELSE t.now[p]]
           mounted == [p \in Tree |-> IF FS!Reachable(left, p) THEN left[p] ELSE Absent]
<1>2. u = [now |-> mounted, kept |-> mounted]
  BY <1>1
<1>3. \A q \in Tree : left[q] \in {Absent, t.now[q]} /\ (Kept(t, q) => left[q] = t.now[q])
  BY DEF Honest, Kept
<1>4. \A q \in Tree : mounted[q] = IF FS!Reachable(left, q) THEN left[q] ELSE Absent
  OBVIOUS
<1>5. mounted = [q \in Tree |-> mounted[q]]
  OBVIOUS
<1> HIDE DEF left, mounted
<1>6. u.now = mounted /\ u.kept = mounted /\ Stored(u)
  BY <1>2, <1>5 DEF Stored
<1>7. \A q \in Tree : u.now[q] \in {Absent, t.now[q]}
  BY <1>3, <1>4, <1>6
<1>8. \A q \in Tree : FS!Reachable(left, q) <=>
         left[q] # Absent /\ left[Above[q]] # Absent /\ left[Above[Above[q]]] # Absent
         /\ left[Above[Above[Above[q]]]] # Absent
  BY DEF FS!Reachable
<1>9. ASSUME NEW q \in {<<"root">>, RawDir, CapturesDir, OrderFile, FinalFile}
      PROVE  FS!Reachable(left, q) <=> left[q] # Absent /\ left[<<"root">>] # Absent
  <2>1. q \in Tree /\ Above[q] = <<"root">> /\ Above[<<"root">>] = <<"root">>
    BY PathsExist, Parents
  <2> QED BY <1>8, <2>1
<1>10. ASSUME NEW k \in Entries
       PROVE  /\ \A q \in {<<"index", k>>, <<"range", k>>} :
                    FS!Reachable(left, q) <=> left[q] # Absent /\ left[RawDir] # Absent /\ left[<<"root">>] # Absent
              /\ FS!Reachable(left, <<"spool", k>>) <=>
                    left[<<"spool", k>>] # Absent /\ left[CapturesDir] # Absent /\ left[<<"root">>] # Absent
  <2>1. /\ Above[<<"root">>] = <<"root">> /\ Above[RawDir] = <<"root">> /\ Above[CapturesDir] = <<"root">>
    BY Parents
  <2>2. \A q \in {<<"index", k>>, <<"range", k>>} : q \in Tree /\ Above[q] = RawDir
    BY PathsExist, Parents
  <2>3. <<"spool", k>> \in Tree /\ Above[<<"spool", k>>] = CapturesDir
    BY PathsExist, Parents
  <2> QED BY <1>8, <2>1, <2>2, <2>3
<1>11. ASSUME NEW k \in Entries, NEW f \in SpoolFiles
       PROVE  FS!Reachable(left, <<"spool", k, f>>) <=>
                 /\ left[<<"spool", k, f>>] # Absent /\ left[<<"spool", k>>] # Absent
                 /\ left[CapturesDir] # Absent /\ left[<<"root">>] # Absent
  <2>1. Above[CapturesDir] = <<"root">> /\ Above[<<"spool", k>>] = CapturesDir
    BY Parents
  <2>2. <<"spool", k, f>> \in Tree /\ Above[<<"spool", k, f>>] = <<"spool", k>>
    BY PathsExist, Parents
  <2> QED BY <1>8, <2>1, <2>2
<1>12. ASSUME NEW q \in Tree, Has(u, q) PROVE Has(u, <<"root">>)
  <2>1. FS!Reachable(left, q)
    BY <1>4, <1>6, <1>12 DEF Has
  <2>2. left[<<"root">>] # Absent
    <3>1. q \in Prologue => q \in {<<"root">>, RawDir, CapturesDir, OrderFile, FinalFile}
      BY DEF Prologue
    <3>2. CASE q \in Prologue \/ q = FinalFile
      BY <1>9, <2>1, <3>1, <3>2
    <3>3. CASE \E k \in Entries : q \in {<<"index", k>>, <<"range", k>>, <<"spool", k>>}
      BY <1>10, <2>1, <3>3
    <3>4. CASE \E k \in Entries, f \in SpoolFiles : q = <<"spool", k, f>>
      BY <1>11, <2>1, <3>4
    <3> QED BY <3>2, <3>3, <3>4, PathKinds
  <2>3. FS!Reachable(left, <<"root">>)
    BY <1>9, <2>2
  <2> QED BY <1>4, <1>6, <2>2, <2>3, PathsExist DEF Has
<1>13. ASSUME NEW q \in {RawDir, CapturesDir, OrderFile, FinalFile}, Has(u, <<"root">>), Kept(t, q)
       PROVE  u.now[q] = t.now[q]
  <2>1. left[<<"root">>] # Absent
    BY <1>4, <1>6, <1>13, PathsExist DEF Has
  <2>2. left[q] = t.now[q] /\ q \in Tree
    BY <1>3, <1>13, PathsExist
  <2> QED BY <1>4, <1>6, <1>9, <2>1, <2>2
<1>14. ASSUME NEW k \in Entries, NEW q \in {<<"index", k>>, <<"range", k>>}, Has(u, RawDir), Kept(t, q)
       PROVE  u.now[q] = t.now[q]
  <2>1. left[RawDir] # Absent /\ left[<<"root">>] # Absent
    BY <1>4, <1>6, <1>9, <1>14, PathsExist DEF Has
  <2>2. left[q] = t.now[q] /\ q \in Tree
    BY <1>3, <1>14, PathsExist
  <2> QED BY <1>4, <1>6, <1>10, <2>1, <2>2
<1>15. ASSUME NEW k \in Entries, NEW f \in SpoolFiles
       PROVE  /\ Has(u, <<"spool", k, f>>) => Has(u, <<"spool", k>>)
              /\ Has(u, <<"spool", k>>) /\ Kept(t, <<"spool", k, f>>) =>
                    u.now[<<"spool", k, f>>] = t.now[<<"spool", k, f>>]
  <2>1. <<"spool", k, f>> \in Tree /\ <<"spool", k>> \in Tree
    BY PathsExist
  <2>2. Kept(t, <<"spool", k, f>>) => left[<<"spool", k, f>>] = t.now[<<"spool", k, f>>]
    BY <1>3, <2>1
  <2>3. Has(u, <<"spool", k>>) <=> FS!Reachable(left, <<"spool", k>>)
    BY <1>4, <1>6, <1>10, <2>1 DEF Has
  <2> QED BY <1>4, <1>6, <1>10, <1>11, <2>1, <2>2, <2>3 DEF Has
<1> QED BY <1>6, <1>7, <1>12, <1>13, <1>14, <1>15

(***************************************************************************)
(* What the world keeps of a tree.                                         *)
(***************************************************************************)
\* The checks of a spool read only its files.
LEMMA SameEvidence ==
    ASSUME NEW d, NEW e, \A f \in Evidence : d[f] = e[f]
    PROVE  RawVerified(d) <=> RawVerified(e)
<1>1. /\ d["evidence-manifest"] = e["evidence-manifest"] /\ d["work-order"] = e["work-order"]
      /\ d["index-record"] = e["index-record"] /\ d["range-response"] = e["range-response"]
      /\ d["warc-record"] = e["warc-record"] /\ \A f \in RawFiles : d[f] = e[f]
  BY DEF Evidence, RawFiles
<1> QED BY <1>1 DEF RawVerified

LEMMA SpoolFilesAre ==
    ASSUME NEW t, NEW k \in Entries
    PROVE  /\ \A f \in SpoolFiles : SpoolIn(t, k)[f] = t.now[<<"spool", k, f>>]
           /\ Evidence \subseteq SpoolFiles /\ {"warc-record", "representation", "capture", "manifest"} \subseteq SpoolFiles
BY DEF SpoolIn, Evidence, SpoolFiles, SealedFiles, RawFiles

\* The prologue comes first, and an entry in the order of its steps.
LEMMA AfterPrologue ==
    ASSUME NEW p \in Tree \ Prologue
    PROVE  When(p) > 26
<1>1. ASSUME NEW k \in Entries, NEW q \in {<<"index", k>>, <<"range", k>>, <<"spool", k>>} PROVE When(q) > 26
  <2>1. k \in Nat /\ k > 0 /\ When(q) \in {22 * k + 6, 22 * k + 9, 22 * k + 10}
    BY DueInEntry
  <2> QED BY <2>1
<1>2. ASSUME NEW k \in Entries, NEW f \in SpoolFiles PROVE When(<<"spool", k, f>>) > 26
  <2>1. k \in Nat /\ k > 0 /\ When(<<"spool", k, f>>) = 22 * k + Place(f) /\ Place(f) \in 11..19
    BY DueInEntry, DueInSpool
  <2> QED BY <2>1
<1>3. When(FinalFile) > 26
  BY DueTimes, EntriesAre
<1> QED BY <1>1, <1>2, <1>3, PathKinds

LEMMA Sooner ==
    ASSUME NEW k \in Entries
    PROVE  /\ When(<<"index", k>>) < When(<<"range", k>>)
           /\ \A f \in SpoolFiles : When(<<"range", k>>) < When(<<"spool", k, f>>)
           /\ \A f \in Evidence : When(<<"spool", k, f>>) < When(<<"spool", k, "representation">>)
<1>1. /\ k \in Nat
      /\ When(<<"index", k>>) = 22 * k + 6 /\ When(<<"range", k>>) = 22 * k + 9
  BY DueInEntry
<1>2. ASSUME NEW f \in SpoolFiles
      PROVE  When(<<"spool", k, f>>) = 22 * k + Place(f) /\ Place(f) \in 11..19
  BY DueInSpool
<1>3. \A f \in SpoolFiles : When(<<"range", k>>) < When(<<"spool", k, f>>)
  BY <1>1, <1>2
<1>4. ASSUME NEW f \in Evidence PROVE Place(f) < 17 /\ f \in SpoolFiles
  <2>1. f \in RawFiles => Place(f) <= 14
    BY SpoolPlaces, SpoolFilesAre
  <2> QED BY <2>1, Places, SpoolFilesAre, SpoolPlaces DEF Evidence
<1>5. When(<<"spool", k, "representation">>) = 22 * k + 17
  BY <1>2, Places, SpoolFilesAre
<1>6. ASSUME NEW f \in Evidence PROVE When(<<"spool", k, f>>) < When(<<"spool", k, "representation">>)
  <2>1. When(<<"spool", k, f>>) = 22 * k + Place(f) /\ Place(f) \in 11..19 /\ Place(f) < 17
    BY <1>2, <1>4
  <2> QED BY <1>1, <1>5, <2>1
<1> QED BY <1>1, <1>3, <1>6

LEMMA ListableExist ==
    ASSUME NEW p \in Listable
    PROVE  p \in Tree
<1>1. CASE p \in {"index", "range"} \X Entries
  <2>1. PICK k \in Entries : p = <<"index", k>> \/ p = <<"range", k>>
    BY <1>1
  <2> QED BY <2>1, PathsExist
<1>2. CASE \E k \in Entries : p = <<"spool", k, "manifest">>
  BY <1>2, PathsExist, SpoolFilesAre
<1> QED BY <1>1, <1>2, PathsExist DEF Listable

LEMMA SameSpool ==
    ASSUME NEW t, NEW u, NEW k \in Entries,
           \A f \in SpoolFiles : u.now[<<"spool", k, f>>] = t.now[<<"spool", k, f>>]
    PROVE  SpoolIn(u, k) = SpoolIn(t, k)
BY DEF SpoolIn

LEMMA SurvivingWorld ==
    ASSUME NEW t, Stored(t), NEW n \in Nat, World(t, n), NEW u \in FS!Survivors(t)
    PROVE  Stored(u) /\ World(u, n + 1)
<1> DEFINE root == <<"root">>
<1>1. /\ Stored(u) /\ u.kept = u.now
      /\ \A q \in Tree : u.now[q] \in {Absent, t.now[q]}
      /\ \A q \in Tree : Has(u, q) => Has(u, root)
      /\ \A q \in {RawDir, CapturesDir, OrderFile, FinalFile} :
            Has(u, root) /\ Kept(t, q) => u.now[q] = t.now[q]
      /\ \A k \in Entries : \A q \in {<<"index", k>>, <<"range", k>>} :
            Has(u, RawDir) /\ Kept(t, q) => u.now[q] = t.now[q]
      /\ \A k \in Entries, f \in SpoolFiles :
            /\ Has(u, <<"spool", k, f>>) => Has(u, <<"spool", k>>)
            /\ Has(u, <<"spool", k>>) /\ Kept(t, <<"spool", k, f>>) =>
                  u.now[<<"spool", k, f>>] = t.now[<<"spool", k, f>>]
  BY SurvivorIs DEF World
<1> HIDE DEF root
<1>2. \A q \in Tree : Kept(u, q) /\ (Has(u, q) => Has(t, q) /\ u.now[q] = t.now[q])
  BY <1>1 DEF Kept, Has
<1>3. Rooted(u) /\ Honest(u)
  BY <1>1, <1>2 DEF Rooted, Honest, Kept, root
<1>4. ASSUME NEW p \in Tree \ Prologue, Has(u, p)
      PROVE  /\ Has(u, root) /\ Has(u, RawDir) /\ Has(u, CapturesDir)
             /\ u.now[OrderFile] = t.now[OrderFile]
  <2>1. /\ Has(t, RawDir) /\ Has(t, CapturesDir)
        /\ Kept(t, RawDir) /\ Kept(t, CapturesDir) /\ Kept(t, OrderFile)
    BY <1>2, <1>4 DEF World, Firm
  <2>2. Has(u, root)
    BY <1>1, <1>4
  <2> QED BY <1>1, <2>1, <2>2 DEF Has
<1>5. Firm(u)
  BY <1>2, <1>4, PathsExist DEF Firm
<1>6. ASSUME NEW k \in Entries
      PROVE  /\ <<"index", k>> \in Tree \ Prologue /\ <<"range", k>> \in Tree \ Prologue
             /\ \A f \in SpoolFiles : <<"spool", k, f>> \in Tree \ Prologue
             /\ <<"spool", k>> \in Tree
  BY PathsExist DEF Prologue, RawDir, CapturesDir, OrderFile
<1>7. ASSUME NEW k \in Entries PROVE Indexed(u, k)
  <2> SUFFICES ASSUME Has(u, <<"range", k>>)
               PROVE  /\ Kept(u, <<"index", k>>) /\ Has(u, <<"index", k>>)
                      /\ IndexAccepted(u.now[<<"index", k>>], k)
    BY DEF Indexed
  <2>1. Has(t, <<"range", k>>) /\ Has(u, RawDir)
    BY <1>2, <1>4, <1>6
  <2>2. /\ Kept(t, <<"index", k>>) /\ Has(t, <<"index", k>>)
        /\ IndexAccepted(t.now[<<"index", k>>], k)
    BY <2>1 DEF World, Indexed
  <2>3. u.now[<<"index", k>>] = t.now[<<"index", k>>]
    BY <1>1, <2>1, <2>2
  <2> QED BY <1>2, <1>6, <2>2, <2>3 DEF Has
<1>8. ASSUME NEW k \in Entries, NEW f \in SpoolFiles, Has(u, <<"spool", k, f>>)
      PROVE  u.now[<<"range", k>>] = t.now[<<"range", k>>] /\ Has(u, <<"spool", k>>)
             /\ Has(t, <<"spool", k, f>>)
  <2>1. Has(t, <<"spool", k, f>>) /\ Has(u, RawDir) /\ Has(u, <<"spool", k>>)
    BY <1>1, <1>2, <1>4, <1>6, <1>8
  <2>2. Kept(t, <<"range", k>>)
    BY <2>1 DEF World, Recorded
  <2> QED BY <1>1, <2>1, <2>2
<1>9. ASSUME NEW k \in Entries PROVE Recorded(u, k)
  <2>1. Kept(u, <<"range", k>>)
    BY <1>2, <1>6
  <2>2. ASSUME Has(u, <<"spool", k, "warc-record">>)
        PROVE  u.now[<<"spool", k, "warc-record">>] = u.now[<<"range", k>>]
    <3>1. "warc-record" \in SpoolFiles /\ <<"spool", k, "warc-record">> \in Tree
      BY SpoolFilesAre, PathsExist
    <3>2. /\ u.now[<<"range", k>>] = t.now[<<"range", k>>]
          /\ Has(t, <<"spool", k, "warc-record">>)
          /\ u.now[<<"spool", k, "warc-record">>] = t.now[<<"spool", k, "warc-record">>]
      BY <1>2, <1>8, <2>2, <3>1
    <3> QED BY <3>2 DEF World, Recorded
  <2> QED BY <2>1, <2>2 DEF Recorded
<1>10. ASSUME NEW k \in Entries PROVE Represented(u, k)
  <2> SUFFICES ASSUME Has(u, <<"spool", k, "representation">>) PROVE Derived(u, k)
    BY <1>2, <1>6, SpoolFilesAre DEF Represented
  <2>1. "representation" \in SpoolFiles
    BY SpoolFilesAre
  <2>2. /\ u.now[<<"range", k>>] = t.now[<<"range", k>>] /\ Has(u, <<"spool", k>>)
        /\ Has(t, <<"spool", k, "representation">>)
    BY <1>8, <2>1
  <2>3. Derived(t, k) /\ \A f \in Evidence : Kept(t, <<"spool", k, f>>)
    BY <2>2 DEF World, Represented
  <2>4. ASSUME NEW f \in Evidence
        PROVE  SpoolIn(u, k)[f] = SpoolIn(t, k)[f]
    <3>1. f \in SpoolFiles
      BY SpoolFilesAre
    <3>2. u.now[<<"spool", k, f>>] = t.now[<<"spool", k, f>>]
      BY <1>1, <2>2, <2>3, <3>1
    <3> QED BY <3>1, <3>2 DEF SpoolIn
  <2>5. RawVerified(SpoolIn(u, k)) <=> RawVerified(SpoolIn(t, k))
    BY <2>4, SameEvidence
  <2> QED BY <2>2, <2>3, <2>5 DEF Derived
<1>11. Published(u, n + 1)
  <2> DEFINE m == u.now[FinalFile]
  <2> SUFFICES ASSUME Has(u, FinalFile) PROVE Truthful(u, m, n + 1)
    BY DEF Published
  <2>1. FinalFile \in Tree \ Prologue
    BY PathsExist DEF Prologue, FinalFile, RawDir, CapturesDir, OrderFile
  <2>2. /\ Has(t, FinalFile) /\ m = t.now[FinalFile]
        /\ Has(u, root) /\ Has(u, RawDir) /\ Has(u, CapturesDir)
        /\ u.now[OrderFile] = t.now[OrderFile]
    BY <1>2, <1>4, <2>1
  <2> HIDE DEF m
  <2>3. /\ \A p \in Tree \ ({<<"root">>, FinalFile} \cup SpoolDirs) : Kept(t, p)
        /\ m.order = t.now[OrderFile] /\ ManifestValid(m)
        /\ \A k \in DOMAIN m.captures :
              /\ k \in Entries
              /\ \/ SpoolVerified(SpoolIn(t, k)) /\ SpoolIn(t, k)["capture"] = m.captures[k].metadata
                 \/ Gone(t, k, n)
        /\ \A a \in m.listed :
              /\ a.path \in Listable
              /\ \/ t.now[a.path] = a.content
                 \/ \E k \in Entries : Gone(t, k, n) /\ a.path = <<"spool", k, "manifest">>
    BY <2>2 DEF World, Published, Truthful
  <2>4. ASSUME NEW k \in Entries
        PROVE  /\ Gone(t, k, n) => Gone(u, k, n + 1)
               /\ ~Gone(u, k, n + 1) => /\ SpoolIn(u, k) = SpoolIn(t, k)
                                        /\ \A f \in SpoolFiles : u.now[<<"spool", k, f>>] = t.now[<<"spool", k, f>>]
    <3>1. Gone(t, k, n) => Gone(u, k, n + 1)
      <4>1. <<"spool", k>> \in Tree
        BY <1>6
      <4>2. n + 1 > 0
        OBVIOUS
      <4> QED BY <1>2, <4>1, <4>2 DEF Gone
    <3>2. ASSUME ~Gone(u, k, n + 1), NEW f \in SpoolFiles
          PROVE  u.now[<<"spool", k, f>>] = t.now[<<"spool", k, f>>]
      <4>1. Has(u, <<"spool", k>>)
        BY <3>2 DEF Gone
      <4>2. <<"spool", k, f>> \in Tree \ ({<<"root">>, FinalFile} \cup SpoolDirs)
        BY PathsExist DEF SpoolDirs, FinalFile
      <4> QED BY <1>1, <2>3, <4>1, <4>2
    <3> QED BY <3>1, <3>2, SameSpool
  <2>5. \A p \in Tree \ ({<<"root">>, FinalFile} \cup SpoolDirs) : Kept(u, p)
    BY <1>2
  <2>6. ASSUME NEW a \in m.listed
        PROVE  \/ u.now[a.path] = a.content
               \/ \E k \in Entries : Gone(u, k, n + 1) /\ a.path = <<"spool", k, "manifest">>
    <3>1. CASE \E k \in Entries : Gone(t, k, n) /\ a.path = <<"spool", k, "manifest">>
      BY <2>4, <3>1
    <3>2. CASE t.now[a.path] = a.content
      <4>1. CASE a.path = OrderFile
        BY <2>2, <3>2, <4>1
      <4>2. CASE a.path \in {"index", "range"} \X Entries
        <5>1. PICK k \in Entries : a.path \in {<<"index", k>>, <<"range", k>>}
          BY <4>2
        <5>2. /\ <<"index", k>> \in Tree \ ({<<"root">>, FinalFile} \cup SpoolDirs)
              /\ <<"range", k>> \in Tree \ ({<<"root">>, FinalFile} \cup SpoolDirs)
          <6>1. <<"index", k>> \notin SpoolDirs /\ <<"range", k>> \notin SpoolDirs
            BY DEF SpoolDirs
          <6> QED BY <6>1, PathsExist DEF FinalFile
        <5> QED BY <1>1, <2>2, <2>3, <3>2, <5>1, <5>2
      <4>3. CASE \E k \in Entries : a.path = <<"spool", k, "manifest">>
        BY <2>4, <3>2, <4>3, SpoolFilesAre
      <4> QED BY <2>3, <4>1, <4>2, <4>3 DEF Listable
    <3> QED BY <2>3, <3>1, <3>2
  <2> QED BY <2>2, <2>3, <2>4, <2>5, <2>6 DEF Truthful
<1> QED BY <1>1, <1>3, <1>5, <1>7, <1>9, <1>10, <1>11 DEF World

LEMMA SyncedWorld ==
    ASSUME NEW t, Stored(t), NEW n, World(t, n), NEW d
    PROVE  LET u == FS!SyncDir(t, d)
           IN /\ Stored(u) /\ World(u, n) /\ u.now = t.now
              /\ \A q \in Tree : Kept(t, q) \/ (q # <<"root">> /\ Above[q] = d) => Kept(u, q)
<1> DEFINE u == FS!SyncDir(t, d)
<1>1. /\ Stored(u) /\ u.now = t.now
      /\ \A q \in Tree : u.kept[q] = IF q # <<"root">> /\ Above[q] = d THEN t.now[q] ELSE t.kept[q]
  BY SyncIs
<1> HIDE DEF u
<1>2. \A q \in Tree : Kept(t, q) \/ (q # <<"root">> /\ Above[q] = d) => Kept(u, q)
  BY <1>1 DEF Kept
<1>3. \A q \in Tree : Has(u, q) <=> Has(t, q)
  BY <1>1 DEF Has
<1>4. \A k \in Entries : SpoolIn(u, k) = SpoolIn(t, k)
  BY <1>1 DEF SpoolIn
<1>5. Rooted(u) /\ Honest(u)
  BY <1>1 DEF World, Rooted, Honest, Has
<1>6. Firm(u)
  BY <1>2, <1>3, PathsExist DEF World, Firm
<1>7. ASSUME NEW k \in Entries
      PROVE  Indexed(u, k) /\ Recorded(u, k) /\ Represented(u, k)
  <2>1. /\ <<"index", k>> \in Tree /\ <<"range", k>> \in Tree
        /\ \A f \in SpoolFiles : <<"spool", k, f>> \in Tree
    BY PathsExist
  <2>2. Indexed(u, k)
    BY <1>1, <1>2, <1>3, <2>1 DEF World, Indexed
  <2>3. Recorded(u, k)
    BY <1>1, <1>2, <1>3, <2>1, SpoolFilesAre DEF World, Recorded
  <2>4. Derived(u, k) <=> Derived(t, k)
    BY <1>1, <1>4 DEF Derived
  <2>5. Represented(u, k)
    BY <1>2, <1>3, <2>1, <2>4, SpoolFilesAre DEF World, Represented
  <2> QED BY <2>2, <2>3, <2>5
<1>8. Published(u, n)
  <2>1. \A k \in Entries : Gone(t, k, n) => Gone(u, k, n)
    BY <1>3, PathsExist DEF Gone
  <2>2. \A m : Truthful(t, m, n) => Truthful(u, m, n)
    BY <1>1, <1>2, <1>4, <2>1 DEF Truthful
  <2> QED BY <1>1, <1>3, <2>2, PathsExist DEF World, Published
<1> QED BY <1>1, <1>2, <1>5, <1>6, <1>7, <1>8 DEF World, u

\* A path is made while nothing due later exists, and what it rests on is in place.
LEMMA PutWorld ==
    ASSUME NEW t, Stored(t), NEW n, World(t, n), NEW p \in Tree, NEW c,
           \A q \in Tree : When(q) >= When(p) => ~Has(t, q),
           p # <<"root">> => Has(t, <<"root">>),
           p \notin Prologue => /\ Has(t, RawDir) /\ Has(t, CapturesDir)
                                /\ Kept(t, RawDir) /\ Kept(t, CapturesDir) /\ Kept(t, OrderFile),
           \A k \in Entries : p = <<"range", k>> =>
              /\ Kept(t, <<"index", k>>) /\ Has(t, <<"index", k>>)
              /\ IndexAccepted(t.now[<<"index", k>>], k),
           \A k \in Entries, f \in SpoolFiles : p = <<"spool", k, f>> =>
              /\ Kept(t, <<"range", k>>)
              /\ f = "warc-record" => c = t.now[<<"range", k>>]
              /\ f = "representation" => Derived(t, k) /\ \A g \in Evidence : Kept(t, <<"spool", k, g>>),
           p = FinalFile => Truthful(t, c, n)
    PROVE  World(FS!Put(t, p, c), n)
<1> DEFINE u == FS!Put(t, p, c)
<1>1. u.now[p] = c /\ u.kept = t.kept /\ \A q \in Tree \ {p} : u.now[q] = t.now[q]
  BY PutIs
<1> HIDE DEF u
<1>2. \A q \in Tree \ {p} : (Has(u, q) <=> Has(t, q)) /\ (Kept(u, q) <=> Kept(t, q))
  BY <1>1 DEF Has, Kept
<1>3. ~Has(t, p) /\ \A q \in Tree : When(q) \in Int
  <2>1. \A q \in Tree : When(q) \in Int
    BY WhenType
  <2> QED BY <2>1
<1>4. Rooted(u)
  BY <1>1, <1>2, <1>3, PathsExist DEF World, Rooted, Has
<1>5. Honest(u)
  <2>1. t.kept[p] = Absent
    BY <1>3 DEF World, Honest, Has
  <2> QED BY <1>1, <2>1 DEF World, Honest
<1>6. \A q \in Tree : Has(t, q) => When(q) < When(p)
  BY <1>3
<1>7. \A q \in Tree \ Prologue : When(q) > 26
  BY AfterPrologue
<1>8. Firm(u)
  <2> SUFFICES ASSUME NEW q \in Tree \ Prologue, Has(u, q)
               PROVE  /\ Has(u, RawDir) /\ Has(u, CapturesDir)
                      /\ Kept(u, RawDir) /\ Kept(u, CapturesDir) /\ Kept(u, OrderFile)
    BY DEF Firm
  <2>1. CASE p \in Prologue
    <3>1. When(p) <= 26
      BY <2>1, DueTimes DEF Prologue
    <3>2. q # p /\ Has(t, q) /\ When(q) < When(p)
      BY <1>2, <1>6, <2>1
    <3> QED BY <1>3, <1>7, <3>1, <3>2
  <2>2. CASE p \notin Prologue
    <3>1. RawDir # p /\ CapturesDir # p /\ OrderFile # p
      BY <2>2 DEF Prologue
    <3> QED BY <1>2, <2>2, <3>1, PathsExist
  <2> QED BY <2>1, <2>2
<1>9. ASSUME NEW k \in Entries
      PROVE  /\ <<"index", k>> \in Tree /\ <<"range", k>> \in Tree
             /\ \A f \in SpoolFiles : <<"spool", k, f>> \in Tree /\ When(<<"range", k>>) < When(<<"spool", k, f>>)
             /\ When(<<"index", k>>) < When(<<"range", k>>)
             /\ \A f \in Evidence : When(<<"spool", k, f>>) < When(<<"spool", k, "representation">>)
  BY PathsExist, Sooner
<1>10. ASSUME NEW k \in Entries PROVE Indexed(u, k)
  <2> SUFFICES ASSUME Has(u, <<"range", k>>)
               PROVE  /\ Kept(u, <<"index", k>>) /\ Has(u, <<"index", k>>)
                      /\ IndexAccepted(u.now[<<"index", k>>], k)
    BY DEF Indexed
  <2>1. /\ Kept(t, <<"index", k>>) /\ Has(t, <<"index", k>>)
        /\ IndexAccepted(t.now[<<"index", k>>], k)
    BY <1>2, <1>9 DEF World, Indexed
  <2>2. <<"index", k>> # p
    BY <1>3, <2>1
  <2> QED BY <1>1, <1>2, <1>9, <2>1, <2>2
<1>11. ASSUME NEW k \in Entries PROVE Recorded(u, k)
  <2>1. ASSUME NEW f \in SpoolFiles, Has(u, <<"spool", k, f>>)
        PROVE  Kept(t, <<"range", k>>) /\ <<"range", k>> # p
    <3>1. CASE p = <<"spool", k, f>>
      BY <1>3, <1>9, <3>1
    <3>2. CASE p # <<"spool", k, f>>
      <4>1. Has(t, <<"spool", k, f>>)
        BY <1>2, <1>9, <2>1, <3>2
      <4>2. When(<<"spool", k, f>>) < When(p)
        BY <1>6, <1>9, <4>1
      <4>3. When(<<"range", k>>) < When(<<"spool", k, f>>) /\ <<"range", k>> \in Tree /\ <<"spool", k, f>> \in Tree
        BY <1>9
      <4>4. <<"range", k>> # p
        BY <1>3, <4>2, <4>3
      <4> QED BY <4>1, <4>4 DEF World, Recorded
    <3> QED BY <3>1, <3>2
  <2>2. ASSUME Has(u, <<"spool", k, "warc-record">>)
        PROVE  u.now[<<"spool", k, "warc-record">>] = u.now[<<"range", k>>]
    <3>1. "warc-record" \in SpoolFiles
      BY SpoolFilesAre
    <3>2. u.now[<<"range", k>>] = t.now[<<"range", k>>]
      BY <1>1, <1>9, <2>1, <2>2, <3>1
    <3>3. CASE p = <<"spool", k, "warc-record">>
      BY <1>1, <3>1, <3>2, <3>3
    <3>4. CASE p # <<"spool", k, "warc-record">>
      BY <1>1, <1>2, <1>9, <2>2, <3>1, <3>2, <3>4 DEF World, Recorded
    <3> QED BY <3>3, <3>4
  <2>3. (\E f \in SpoolFiles : Has(u, <<"spool", k, f>>)) => Kept(u, <<"range", k>>)
    BY <1>2, <1>9, <2>1
  <2> QED BY <2>2, <2>3 DEF Recorded
<1>12. ASSUME NEW k \in Entries PROVE Represented(u, k)
  <2> SUFFICES ASSUME Has(u, <<"spool", k, "representation">>)
               PROVE  Derived(u, k) /\ \A f \in Evidence : Kept(u, <<"spool", k, f>>)
    BY DEF Represented
  <2>1. "representation" \in SpoolFiles /\ <<"spool", k, "representation">> \in Tree
    BY SpoolFilesAre, PathsExist
  <2>2. Derived(t, k) /\ \A f \in Evidence : Kept(t, <<"spool", k, f>>)
    BY <1>2, <2>1 DEF World, Represented
  <2>3. When(<<"spool", k, "representation">>) <= When(p)
    BY <1>2, <1>3, <1>6, <2>1
  <2>4. <<"range", k>> # p /\ <<"range", k>> \in Tree
    <3>1. When(<<"range", k>>) < When(<<"spool", k, "representation">>) /\ <<"range", k>> \in Tree
      BY <1>9, <2>1
    <3> QED BY <1>3, <2>1, <2>3, <3>1
  <2>5. ASSUME NEW f \in Evidence
        PROVE  <<"spool", k, f>> # p /\ <<"spool", k, f>> \in Tree /\ f \in SpoolFiles
    <3>1. When(<<"spool", k, f>>) < When(<<"spool", k, "representation">>) /\ f \in SpoolFiles
          /\ <<"spool", k, f>> \in Tree
      BY <1>9, SpoolFilesAre
    <3> QED BY <1>3, <2>1, <2>3, <3>1
  <2>6. \A f \in Evidence : SpoolIn(u, k)[f] = SpoolIn(t, k)[f]
    BY <1>1, <2>5 DEF SpoolIn
  <2>7. Derived(u, k)
    BY <1>1, <2>2, <2>4, <2>6, SameEvidence DEF Derived
  <2> QED BY <1>2, <2>2, <2>5, <2>7
<1>13. Published(u, n)
  <2>1. CASE p # FinalFile
    <3>1. When(p) <= When(FinalFile)
      BY WhenType, DueTimes
    <3>2. ~Has(u, FinalFile)
      BY <1>2, <1>3, <2>1, <3>1, PathsExist
    <3> QED BY <3>2 DEF Published
  <2>2. CASE p = FinalFile
    <3>1. Truthful(t, c, n)
      BY <2>2
    <3>2. \A q \in Tree \ {FinalFile} : u.now[q] = t.now[q] /\ (Has(u, q) <=> Has(t, q)) /\ (Kept(u, q) <=> Kept(t, q))
      BY <1>1, <1>2, <2>2
    <3>3. \A k \in Entries : <<"spool", k>> \in Tree \ {FinalFile}
          /\ \A f \in SpoolFiles : <<"spool", k, f>> \in Tree \ {FinalFile}
      BY PathsExist DEF FinalFile
    <3>4. \A k \in Entries : SpoolIn(u, k) = SpoolIn(t, k) /\ (Gone(t, k, n) => Gone(u, k, n))
      BY <3>2, <3>3 DEF SpoolIn, Gone
    <3>5. ASSUME NEW q \in Listable PROVE q \in Tree \ {FinalFile}
      <4>1. OrderFile # FinalFile
        BY DEF OrderFile, FinalFile
      <4>2. \A k \in Entries : <<"index", k>> # FinalFile /\ <<"range", k>> # FinalFile
        BY DEF FinalFile
      <4>3. ASSUME NEW x \in {"index", "range"} \X Entries PROVE x \in Tree \ {FinalFile}
        <5>1. PICK k \in Entries : x = <<"index", k>> \/ x = <<"range", k>>
          OBVIOUS
        <5> QED BY <4>2, <5>1, PathsExist
      <4> QED BY <3>3, <4>1, <4>3, PathsExist, SpoolFilesAre DEF Listable
    <3>6. OrderFile \in Listable
      BY DEF Listable
    <3>7. Truthful(u, c, n)
      BY <3>1, <3>2, <3>4, <3>5, <3>6 DEF Truthful
    <3> QED BY <1>1, <2>2, <3>7 DEF Published
  <2> QED BY <2>1, <2>2
<1> QED BY <1>4, <1>5, <1>8, <1>10, <1>11, <1>12, <1>13 DEF World, u

(***************************************************************************)
(* Where a run is.                                                         *)
(***************************************************************************)
LEMMA PositionType ==
    ASSUME NEW e, IsRun(e), e.step # "stopped"
    PROVE  /\ e.entry \in Nat /\ e.entry > 0 /\ e.entry <= LastEntry /\ LastEntry \in Nat
           /\ Place(e.step) \in 1..22 /\ Position(e) = 22 * e.entry + Place(e.step) /\ Position(e) \in Nat
<1>1. e.step \in Steps \ {"stopped"} /\ e.entry \in Entries
  BY DEF IsRun
<1>2. Place(e.step) \in 1..22
  BY <1>1, OnePlace
<1>3. e.entry \in Nat /\ e.entry > 0 /\ e.entry <= LastEntry /\ LastEntry \in Nat
  BY <1>1, EntriesAre
<1> DEFINE x == e.entry
           y == Place(e.step)
<1>4. Position(e) = 22 * x + y /\ x \in Nat /\ y \in 1..22
  BY <1>2, <1>3 DEF Position
<1>5. 22 * x + y \in Nat
  <2> HIDE DEF x, y
  <2> QED BY <1>4
<1> QED BY <1>2, <1>3, <1>4, <1>5

\* A step that makes no path is not due for any.
LEMMA NoPathHere ==
    ASSUME NEW e, IsRun(e), e.step \in {"ask", "parse", "fetch", "read", "reconcile"}, NEW q \in Tree
    PROVE  When(q) # Position(e)
<1> SUFFICES ASSUME When(q) = Position(e) PROVE FALSE
  OBVIOUS
<1>1. EntryOf(q) \in Nat /\ Place(StepOf(q)) \in 1..22 /\ e.entry \in Nat /\ Place(e.step) \in 1..22
  BY PathSteps, EntriesAre, PositionType
<1> DEFINE a == EntryOf(q)
           b == e.entry
           i == Place(StepOf(q))
           j == Place(e.step)
<1>2. 22 * a + i = 22 * b + j /\ a \in Nat /\ b \in Nat /\ i \in 1..22 /\ j \in 1..22
  BY <1>1 DEF When, Position
<1>3. i = j
  <2> HIDE DEF a, b, i, j
  <2> QED BY <1>2
<1>4. StepOf(q) = e.step
  BY <1>3, PathSteps, OnePlace DEF IsRun
<1> QED BY <1>4, PathSteps DEF Prologue, RawDir, CapturesDir, OrderFile, FinalFile, SpoolFiles, SealedFiles, RawFiles

\* The files of the spools that a run has counted are past.
LEMMA CountedPast ==
    ASSUME NEW e, IsRun(e), e.step # "stopped", NEW k \in 1..Count(e)
    PROVE  k \in Entries /\ \A f \in SpoolFiles : When(<<"spool", k, f>>) < Position(e)
<1>1. /\ e.entry \in Nat /\ e.entry > 0 /\ e.entry <= LastEntry /\ LastEntry \in Nat
      /\ Place(e.step) \in 1..22 /\ Position(e) = 22 * e.entry + Place(e.step)
  BY PositionType
<1>2. k \in Nat /\ k > 0 /\ k <= e.entry /\ (e.step # "final" => k <= e.entry - 1)
  BY <1>1 DEF Count
<1>3. k \in Entries
  BY <1>1, <1>2, EntriesAre
<1>4. ASSUME NEW f \in SpoolFiles PROVE When(<<"spool", k, f>>) < Position(e)
  <2>1. When(<<"spool", k, f>>) = 22 * k + Place(f) /\ Place(f) \in 11..19
    BY <1>3, DueInSpool
  <2>2. CASE e.step = "final"
    <3>1. Place(e.step) = 21
      BY <2>2, Places
    <3> QED BY <1>1, <1>2, <2>1, <3>1
  <2>3. CASE e.step # "final"
    BY <1>1, <1>2, <2>1, <2>3
  <2> QED BY <2>2, <2>3
<1> QED BY <1>3, <1>4

\* The prologue is certain once the work order is stored.
LEMMA Settled ==
    ASSUME NEW e, IsRun(e), NEW t, InOrder(e, t), Certain(e, t),
           e.step \notin {"root", "raw", "captures", "order", "stopped"}
    PROVE  /\ Has(t, RawDir) /\ Has(t, CapturesDir) /\ t.now[OrderFile] = Order
           /\ Kept(t, RawDir) /\ Kept(t, CapturesDir) /\ Kept(t, OrderFile)
           /\ Position(e) > 26
<1>1. /\ e.entry \in Nat /\ e.entry > 0 /\ Position(e) = 22 * e.entry + Place(e.step) /\ Place(e.step) \in 1..22
  BY PositionType
<1>2. Place(e.step) \notin {1, 2, 3, 4}
  <2>1. e.step \in Steps \ {"stopped"}
    BY DEF IsRun
  <2>2. \A i \in 1..22 : Program[i] \in Steps
    BY ProgramIs DEF Steps
  <2>3. {"root", "raw", "captures", "order"} \subseteq Steps \ {"stopped"}
    BY <2>2, ProgramIs
  <2> QED BY <2>1, <2>3, OnePlace, Places
<1>3. Position(e) > 26
  BY <1>1, <1>2
<1>4. \A q \in {RawDir, CapturesDir, OrderFile} : q \in Tree /\ ~Loose(e, q)
  <2>1. \A q \in {RawDir, CapturesDir, OrderFile} : q \in Tree /\ q \notin {<<"root">>} \cup SpoolDirs /\ When(q) <= 26
    BY PathsExist, DueTimes DEF RawDir, CapturesDir, OrderFile, SpoolDirs
  <2>2. \A q \in {RawDir, CapturesDir, OrderFile} : When(q) # Position(e)
    BY <1>3, <2>1, DueTimes
  <2> QED BY <2>1, <2>2 DEF Loose
<1> QED BY <1>3, <1>4 DEF Certain, InOrder

(***************************************************************************)
(* What a step leaves of RunInv.                                           *)
(***************************************************************************)
\* A run makes the path that is due, and goes on or stays to fsync it.
LEMMA PutFrame ==
    ASSUME NEW t, Stored(t), NEW e, IsRun(e), e.step # "stopped", ~e.syncing,
           Unreached(e, t), Listed(e, t), Captured(e, t),
           NEW p \in Tree, When(p) = Position(e), NEW c,
           NEW new,
           (Position(new) = Position(e) + 1 /\ ~new.syncing) \/ (Position(new) = Position(e) /\ new.syncing),
           new.captures = e.captures, Count(new) = Count(e)
    PROVE  LET u == FS!Put(t, p, c)
           IN /\ Unreached(new, u) /\ Captured(new, u)
              /\ \A a \in e.listed : a.path \in Listable /\ Past(new, a.path) /\ u.now[a.path] = a.content
              /\ \A q \in Tree : When(q) >= When(p) => ~Has(t, q)
              /\ Past(new, p)
<1> DEFINE u == FS!Put(t, p, c)
<1>1. u.now[p] = c /\ \A q \in Tree \ {p} : u.now[q] = t.now[q]
  BY PutIs
<1> HIDE DEF u
<1>2. Position(e) \in Nat /\ \A q \in Tree : When(q) \in Nat
  BY PositionType, WhenType
<1>3. \A q \in Tree : Past(e, q) <=> When(q) < When(p)
  BY DEF Past
<1>4. Past(new, p) /\ \A q \in Tree : Past(e, q) => Past(new, q)
  BY <1>2, <1>3 DEF Past
<1>5. \A q \in Tree : When(q) >= When(p) => ~Has(t, q)
  BY <1>2, <1>3 DEF Unreached, Has
<1>6. Unreached(new, u)
  BY <1>1, <1>4 DEF Unreached
<1>7. ASSUME NEW k \in 1..Count(e), NEW f \in SpoolFiles
      PROVE  u.now[<<"spool", k, f>>] = t.now[<<"spool", k, f>>]
  <2>1. k \in Entries /\ When(<<"spool", k, f>>) < Position(e)
    BY CountedPast
  <2>2. <<"spool", k, f>> \in Tree /\ <<"spool", k, f>> # p
    BY <1>2, <2>1, PathsExist
  <2> QED BY <1>1, <2>2
<1>8. \A k \in 1..Count(e) : SpoolIn(u, k) = SpoolIn(t, k)
  BY <1>7 DEF SpoolIn
<1>9. Captured(new, u)
  BY <1>8 DEF Captured
<1>10. ASSUME NEW a \in e.listed
       PROVE  a.path \in Listable /\ Past(new, a.path) /\ u.now[a.path] = a.content
  <2>1. a.path \in Listable /\ Past(e, a.path) /\ t.now[a.path] = a.content
    BY DEF Listed
  <2>2. a.path \in Tree
    BY <2>1, ListableExist
  <2>3. a.path # p
    BY <1>2, <1>3, <2>1, <2>2
  <2> QED BY <1>1, <1>4, <2>1, <2>2, <2>3
<1> QED BY <1>4, <1>5, <1>6, <1>9, <1>10 DEF u

LEMMA PutCertain ==
    ASSUME NEW t, Stored(t), NEW e, Certain(e, t), NEW p \in Tree, When(p) = Position(e), NEW c,
           NEW new, Loose(new, p),
           e.step \in {"raw", "captures", "order"} => new.step \in {"raw", "captures", "order"}
    PROVE  Certain(new, FS!Put(t, p, c))
<1> DEFINE u == FS!Put(t, p, c)
<1>1. u.kept = t.kept /\ \A q \in Tree \ {p} : u.now[q] = t.now[q]
  BY PutIs
<1> HIDE DEF u
<1>2. ASSUME NEW q \in Tree \ {p} PROVE Loose(new, q) \/ Kept(u, q)
  <2>1. When(q) # Position(e)
    BY <1>2, OnePath
  <2>2. Loose(e, q) => Loose(new, q)
    BY <2>1 DEF Loose
  <2>3. Kept(t, q) => Kept(u, q)
    BY <1>1 DEF Kept
  <2> QED BY <2>2, <2>3 DEF Certain
<1> QED BY <1>2 DEF Certain, u

\* A run goes on and nothing it reads has changed.
LEMMA StillFrame ==
    ASSUME NEW t, NEW u, u.now = t.now, NEW e, NEW new, \A q \in Tree : Past(new, q) <=> Past(e, q),
           Unreached(e, t), Listed(e, t), Captured(e, t),
           new.listed = e.listed, new.captures = e.captures, Count(new) = Count(e)
    PROVE  Unreached(new, u) /\ Listed(new, u) /\ Captured(new, u)
<1>1. Unreached(new, u)
  BY DEF Unreached
<1>2. Listed(new, u)
  BY ListableExist DEF Listed
<1>3. \A k : SpoolIn(u, k) = SpoolIn(t, k)
  BY DEF SpoolIn
<1>4. Captured(new, u)
  BY <1>3 DEF Captured
<1> QED BY <1>1, <1>2, <1>4

(***************************************************************************)
(* The records of runs.                                                    *)
(***************************************************************************)
LEMMA SetOne ==
    ASSUME NEW s, NEW f, NEW a, NEW b, NEW c, NEW d, NEW g, NEW h, NEW x,
           NEW e, e = [step |-> s, syncing |-> f, entry |-> a, index |-> b, body |-> c, total |-> d,
                       listed |-> g, captures |-> h]
    PROVE  /\ [e EXCEPT !.step = x] =
                 [step |-> x, syncing |-> f, entry |-> a, index |-> b, body |-> c, total |-> d,
                  listed |-> g, captures |-> h]
           /\ [e EXCEPT !.syncing = x] =
                 [step |-> s, syncing |-> x, entry |-> a, index |-> b, body |-> c, total |-> d,
                  listed |-> g, captures |-> h]
           /\ [e EXCEPT !.index = x] =
                 [step |-> s, syncing |-> f, entry |-> a, index |-> x, body |-> c, total |-> d,
                  listed |-> g, captures |-> h]
           /\ [e EXCEPT !.body = x] =
                 [step |-> s, syncing |-> f, entry |-> a, index |-> b, body |-> x, total |-> d,
                  listed |-> g, captures |-> h]
           /\ [e EXCEPT !.total = x] =
                 [step |-> s, syncing |-> f, entry |-> a, index |-> b, body |-> c, total |-> x,
                  listed |-> g, captures |-> h]
           /\ [e EXCEPT !.listed = x] =
                 [step |-> s, syncing |-> f, entry |-> a, index |-> b, body |-> c, total |-> d,
                  listed |-> x, captures |-> h]
OBVIOUS

LEMMA SetTwo ==
    ASSUME NEW s, NEW f, NEW a, NEW b, NEW c, NEW d, NEW g, NEW h, NEW x, NEW y,
           NEW e, e = [step |-> s, syncing |-> f, entry |-> a, index |-> b, body |-> c, total |-> d,
                       listed |-> g, captures |-> h]
    PROVE  /\ [e EXCEPT !.step = x, !.syncing = y] =
                 [step |-> x, syncing |-> y, entry |-> a, index |-> b, body |-> c, total |-> d,
                  listed |-> g, captures |-> h]
           /\ [e EXCEPT !.syncing = y, !.listed = x] =
                 [step |-> s, syncing |-> y, entry |-> a, index |-> b, body |-> c, total |-> d,
                  listed |-> x, captures |-> h]
<1> DEFINE m == [e EXCEPT !.step = x]
           o == [e EXCEPT !.syncing = y]
<1>1. [e EXCEPT !.step = x, !.syncing = y] = [m EXCEPT !.syncing = y]
  OBVIOUS
<1>2. [e EXCEPT !.syncing = y, !.listed = x] = [o EXCEPT !.listed = x]
  OBVIOUS
<1>3. m = [step |-> x, syncing |-> f, entry |-> a, index |-> b, body |-> c, total |-> d,
           listed |-> g, captures |-> h]
  BY SetOne
<1>4. o = [step |-> s, syncing |-> y, entry |-> a, index |-> b, body |-> c, total |-> d,
           listed |-> g, captures |-> h]
  BY SetOne
<1> HIDE DEF m, o
<1>5. [m EXCEPT !.syncing = y] = [step |-> x, syncing |-> y, entry |-> a, index |-> b, body |-> c, total |-> d,
                                  listed |-> g, captures |-> h]
  BY <1>3
<1>6. [o EXCEPT !.listed = x] = [step |-> s, syncing |-> y, entry |-> a, index |-> b, body |-> c, total |-> d,
                                 listed |-> x, captures |-> h]
  BY <1>4
<1> QED BY <1>1, <1>2, <1>5, <1>6

LEMMA Followings ==
    /\ Following("root") = "raw" /\ Following("raw") = "captures" /\ Following("captures") = "order"
    /\ Following("order") = "ask" /\ Following("ask") = "index" /\ Following("index") = "parse"
    /\ Following("parse") = "fetch" /\ Following("fetch") = "range" /\ Following("range") = "spool"
    /\ Following("spool") = "work-order" /\ Following("work-order") = "index-record"
    /\ Following("index-record") = "range-response" /\ Following("range-response") = "warc-record"
    /\ Following("warc-record") = "evidence-manifest" /\ Following("evidence-manifest") = "read"
    /\ Following("read") = "representation" /\ Following("representation") = "capture"
    /\ Following("capture") = "manifest" /\ Following("manifest") = "reconcile"
    /\ Following("reconcile") = "final" /\ Following("final") = "done"
<1>1. \A i \in 1..21 : Following(Program[i]) = Program[i + 1]
  BY Follows
<1>2. /\ Following(Program[1]) = Program[2] /\ Following(Program[2]) = Program[3]
      /\ Following(Program[3]) = Program[4] /\ Following(Program[4]) = Program[5]
      /\ Following(Program[5]) = Program[6] /\ Following(Program[6]) = Program[7]
      /\ Following(Program[7]) = Program[8] /\ Following(Program[8]) = Program[9]
      /\ Following(Program[9]) = Program[10] /\ Following(Program[10]) = Program[11]
  BY <1>1
<1>3. /\ Following(Program[11]) = Program[12] /\ Following(Program[12]) = Program[13]
      /\ Following(Program[13]) = Program[14] /\ Following(Program[14]) = Program[15]
      /\ Following(Program[15]) = Program[16] /\ Following(Program[16]) = Program[17]
      /\ Following(Program[17]) = Program[18] /\ Following(Program[18]) = Program[19]
      /\ Following(Program[19]) = Program[20] /\ Following(Program[20]) = Program[21]
      /\ Following(Program[21]) = Program[22]
  BY <1>1
<1> QED BY <1>2, <1>3, ProgramIs

\* A run that takes the next step of the program.
LEMMA StepAt ==
    ASSUME NEW e, IsRun(e), e.step \notin {"reconcile", "stopped", "done"}
    PROVE  LET new == [e EXCEPT !.step = Following(@), !.syncing = FALSE]
           IN /\ IsRun(new) /\ new.step = Following(e.step) /\ new.syncing = FALSE
              /\ new.entry = e.entry /\ new.index = e.index /\ new.body = e.body /\ new.total = e.total
              /\ new.listed = e.listed /\ new.captures = e.captures
              /\ Position(new) = Position(e) + 1 /\ (e.step # "final" => Count(new) = Count(e))
<1> DEFINE new == [e EXCEPT !.step = Following(@), !.syncing = FALSE]
<1> DEFINE s == e.step
           f == Following(s)
           a == e.entry
           b == e.index
           c == e.body
           d == e.total
           g == e.listed
           h == e.captures
           z == e.syncing
<1>1. e = [step |-> s, syncing |-> z, entry |-> a, index |-> b, body |-> c, total |-> d,
           listed |-> g, captures |-> h]
  BY DEF IsRun
<1>2. new = [e EXCEPT !.step = f, !.syncing = FALSE]
  OBVIOUS
<1>3. s \in Steps \ {"stopped", "done"} /\ a \in Entries
  BY DEF IsRun
<1>4. Place(s) \in 1..21 /\ f \in Steps /\ Place(f) = Place(s) + 1
  BY <1>3, NextPlace
<1>5. f # "root"
  BY <1>4, Places
<1>6. f = "final" => s = "reconcile"
  <2>1. f = "final" => Place(s) = 20
    BY <1>4, Places
  <2>2. "reconcile" \in Steps \ {"stopped"}
    BY ProgramIs DEF Steps
  <2> QED BY <1>3, <2>1, <2>2, OnePlace, Places
<1> HIDE DEF s, f, a, b, c, d, g, h, z, new
<1>7. new = [step |-> f, syncing |-> FALSE, entry |-> a, index |-> b, body |-> c, total |-> d,
             listed |-> g, captures |-> h]
  BY <1>1, <1>2, SetTwo
<1>8. /\ new.step = f /\ new.syncing = FALSE /\ new.entry = a /\ new.index = b /\ new.body = c /\ new.total = d
      /\ new.listed = g /\ new.captures = h
  BY <1>7
<1>9. IsRun(new)
  BY <1>3, <1>4, <1>5, <1>7, <1>8 DEF IsRun
<1>10. Position(new) = Position(e) + 1
  <2>1. Position(new) = 22 * a + (Place(s) + 1) /\ Position(e) = 22 * a + Place(s)
    BY <1>4, <1>8 DEF Position, a, s
  <2>2. a \in Nat /\ Place(s) \in Nat
    BY <1>3, <1>4, EntriesAre
  <2> QED BY <2>1, <2>2
<1>11. s # "final" => Count(new) = Count(e)
  <2>1. f # "final"
    BY <1>6 DEF s
  <2> QED BY <1>8, <2>1 DEF Count, s, a
<1> QED BY <1>8, <1>9, <1>10, <1>11 DEF s, f, a, b, c, d, g, h, new

LEMMA SetBody ==
    ASSUME NEW e, IsRun(e), e.step # "root", NEW x
    PROVE  LET new == [e EXCEPT !.body = x]
           IN /\ IsRun(new) /\ new.step = e.step /\ new.syncing = e.syncing
              /\ new.entry = e.entry /\ new.index = e.index /\ new.body = x
              /\ new.listed = e.listed /\ new.captures = e.captures
              /\ Position(new) = Position(e) /\ Count(new) = Count(e)
<1> DEFINE new == [e EXCEPT !.body = x]
<1>0. new = [e EXCEPT !.body = x]
  OBVIOUS
<1> DEFINE s == e.step
           f == e.syncing
           a == e.entry
           b == e.index
           g == e.listed
           h == e.captures
           c == e.body
           z == e.total
<1>1. e = [step |-> s, syncing |-> f, entry |-> a, index |-> b, body |-> c, total |-> z,
           listed |-> g, captures |-> h]
  BY DEF IsRun
<1>2. s \in Steps /\ a \in Entries /\ f \in BOOLEAN /\ (f => s \in Files) /\ s # "root"
  BY DEF IsRun
<1> HIDE DEF s, f, a, b, c, z, g, h, new
<1>3. new = [step |-> s, syncing |-> f, entry |-> a, index |-> b, body |-> x, total |-> z,
             listed |-> g, captures |-> h]
  BY <1>1, <1>0, SetOne
<1>4. /\ new.step = s /\ new.syncing = f /\ new.entry = a /\ new.index = b /\ new.body = x /\ new.total = z
      /\ new.listed = g /\ new.captures = h
  BY <1>3
<1>5. IsRun(new)
  BY <1>2, <1>3, <1>4 DEF IsRun
<1>6. Position(new) = Position(e) /\ Count(new) = Count(e)
  BY <1>4 DEF Position, Count, s, a
<1> QED BY <1>4, <1>5, <1>6 DEF s, f, a, b, g, h, new

LEMMA SetTotal ==
    ASSUME NEW e, IsRun(e), e.step # "root", NEW x
    PROVE  LET new == [e EXCEPT !.total = x]
           IN /\ IsRun(new) /\ new.step = e.step /\ new.syncing = e.syncing
              /\ new.entry = e.entry /\ new.index = e.index /\ new.body = e.body
              /\ new.listed = e.listed /\ new.captures = e.captures
              /\ Position(new) = Position(e) /\ Count(new) = Count(e)
<1> DEFINE new == [e EXCEPT !.total = x]
<1>0. new = [e EXCEPT !.total = x]
  OBVIOUS
<1> DEFINE s == e.step
           f == e.syncing
           a == e.entry
           b == e.index
           g == e.listed
           h == e.captures
           c == e.body
           z == e.total
<1>1. e = [step |-> s, syncing |-> f, entry |-> a, index |-> b, body |-> c, total |-> z,
           listed |-> g, captures |-> h]
  BY DEF IsRun
<1>2. s \in Steps /\ a \in Entries /\ f \in BOOLEAN /\ (f => s \in Files) /\ s # "root"
  BY DEF IsRun
<1> HIDE DEF s, f, a, b, c, z, g, h, new
<1>3. new = [step |-> s, syncing |-> f, entry |-> a, index |-> b, body |-> c, total |-> x,
             listed |-> g, captures |-> h]
  BY <1>1, <1>0, SetOne
<1>4. /\ new.step = s /\ new.syncing = f /\ new.entry = a /\ new.index = b /\ new.body = c /\ new.total = x
      /\ new.listed = g /\ new.captures = h
  BY <1>3
<1>5. IsRun(new)
  BY <1>2, <1>3, <1>4 DEF IsRun
<1>6. Position(new) = Position(e) /\ Count(new) = Count(e)
  BY <1>4 DEF Position, Count, s, a
<1> QED BY <1>4, <1>5, <1>6 DEF s, f, a, b, c, g, h, new

LEMMA SetIndex ==
    ASSUME NEW e, IsRun(e), e.step # "root", NEW x
    PROVE  LET new == [e EXCEPT !.index = x]
           IN /\ IsRun(new) /\ new.step = e.step /\ new.syncing = e.syncing
              /\ new.entry = e.entry /\ new.index = x /\ new.body = e.body
              /\ new.listed = e.listed /\ new.captures = e.captures
              /\ Position(new) = Position(e) /\ Count(new) = Count(e)
<1> DEFINE new == [e EXCEPT !.index = x]
<1>0. new = [e EXCEPT !.index = x]
  OBVIOUS
<1> DEFINE s == e.step
           f == e.syncing
           a == e.entry
           b == e.body
           g == e.listed
           h == e.captures
           c == e.index
           z == e.total
<1>1. e = [step |-> s, syncing |-> f, entry |-> a, index |-> c, body |-> b, total |-> z,
           listed |-> g, captures |-> h]
  BY DEF IsRun
<1>2. s \in Steps /\ a \in Entries /\ f \in BOOLEAN /\ (f => s \in Files) /\ s # "root"
  BY DEF IsRun
<1> HIDE DEF s, f, a, b, c, z, g, h, new
<1>3. new = [step |-> s, syncing |-> f, entry |-> a, index |-> x, body |-> b, total |-> z,
             listed |-> g, captures |-> h]
  BY <1>1, <1>0, SetOne
<1>4. /\ new.step = s /\ new.syncing = f /\ new.entry = a /\ new.index = x /\ new.body = b /\ new.total = z
      /\ new.listed = g /\ new.captures = h
  BY <1>3
<1>5. IsRun(new)
  BY <1>2, <1>3, <1>4 DEF IsRun
<1>6. Position(new) = Position(e) /\ Count(new) = Count(e)
  BY <1>4 DEF Position, Count, s, a
<1> QED BY <1>4, <1>5, <1>6 DEF s, f, a, b, g, h, new

\* A run that stays to fsync what it has written.
LEMMA Stays ==
    ASSUME NEW e, IsRun(e), e.step \in Files, NEW x
    PROVE  LET new == [e EXCEPT !.syncing = TRUE, !.listed = x]
           IN /\ IsRun(new) /\ new.step = e.step /\ new.syncing = TRUE
              /\ new.entry = e.entry /\ new.index = e.index /\ new.body = e.body
              /\ new.listed = x /\ new.captures = e.captures
              /\ Position(new) = Position(e) /\ Count(new) = Count(e)
<1> DEFINE new == [e EXCEPT !.syncing = TRUE, !.listed = x]
<1>0. new = [e EXCEPT !.syncing = TRUE, !.listed = x]
  OBVIOUS
<1> DEFINE s == e.step
           a == e.entry
           b == e.index
           c == e.body
           d == e.total
           h == e.captures
           f == e.syncing
           g == e.listed
<1>1. e = [step |-> s, syncing |-> f, entry |-> a, index |-> b, body |-> c, total |-> d,
           listed |-> g, captures |-> h]
  BY DEF IsRun
<1>2. s \in Steps /\ a \in Entries /\ s \in Files /\ s # "root"
  BY DEF IsRun, Files, SpoolFiles, SealedFiles, RawFiles
<1> HIDE DEF s, a, b, c, d, f, g, h, new
<1>3. new = [step |-> s, syncing |-> TRUE, entry |-> a, index |-> b, body |-> c, total |-> d,
             listed |-> x, captures |-> h]
  BY <1>1, <1>0, SetTwo
<1>4. /\ new.step = s /\ new.syncing = TRUE /\ new.entry = a /\ new.index = b /\ new.body = c /\ new.total = d
      /\ new.listed = x /\ new.captures = h
  BY <1>3
<1>5. IsRun(new)
  BY <1>2, <1>3, <1>4 DEF IsRun
<1>6. Position(new) = Position(e) /\ Count(new) = Count(e)
  BY <1>4 DEF Position, Count, s, a
<1> QED BY <1>4, <1>5, <1>6 DEF s, a, b, c, d, h, new

\* A run that starts or has stopped.
LEMMA IdleIs ==
    /\ IsRun(Idle) /\ ~Active(Idle)
    /\ IsRun([Idle EXCEPT !.step = "stopped"]) /\ ~Active([Idle EXCEPT !.step = "stopped"])
    /\ Idle.step = "root" /\ Idle.entry = 1 /\ Idle.listed = {} /\ Idle.captures = <<>> /\ ~Idle.syncing
<1> DEFINE none == <<>>
           empty == {}
           no == FALSE
           root == "root"
           stopped == "stopped"
           ended == [Idle EXCEPT !.step = stopped]
<1>1. "root" \in Steps /\ "stopped" \in Steps /\ 1 \in Entries
  BY ProgramIs, EntriesAre DEF Steps
<1>2. Idle = [step |-> root, syncing |-> no, entry |-> 1, index |-> Absent, body |-> Absent,
              total |-> Absent, listed |-> empty, captures |-> none]
  BY DEF Idle
<1> HIDE DEF none, empty, no, root, stopped
<1>3. ended = [step |-> stopped, syncing |-> no, entry |-> 1, index |-> Absent, body |-> Absent,
               total |-> Absent, listed |-> empty, captures |-> none]
  BY <1>2
<1> HIDE DEF ended
<1>4. /\ Idle.step = root /\ Idle.syncing = no /\ Idle.entry = 1 /\ Idle.index = Absent
      /\ Idle.body = Absent /\ Idle.total = Absent /\ Idle.listed = empty /\ Idle.captures = none
  BY <1>2
<1>5. IsRun(Idle) /\ ~Active(Idle)
  BY <1>1, <1>2, <1>4 DEF IsRun, Active, root, no
<1>6. /\ ended.step = stopped /\ ended.syncing = no /\ ended.entry = 1 /\ ended.index = Absent
      /\ ended.body = Absent /\ ended.total = Absent /\ ended.listed = empty /\ ended.captures = none
  BY <1>3
<1>7. IsRun(ended) /\ ~Active(ended)
  BY <1>1, <1>3, <1>6 DEF IsRun, Active, Ended, stopped, no
<1> QED BY <1>4, <1>5, <1>7 DEF ended, none, empty, no, root, stopped

(***************************************************************************)
(* What each step of a run does, of a tree t and its own record e.         *)
(***************************************************************************)
Making(e) == IF e.step = "spool" THEN <<"spool", e.entry>> ELSE <<e.step>>
Writing(e) == CASE e.step \in SpoolFiles -> <<"spool", e.entry, e.step>>
                [] e.step \in {"index", "range"} -> <<e.step, e.entry>>
                [] OTHER -> <<e.step>>

\* Nothing is made between the seal of a spool and the next entry, or the manifest.
LEMMA NothingBetween ==
    ASSUME NEW k \in Entries, NEW q \in Tree, When(q) >= 22 * k + 20
    PROVE  When(q) >= 22 * k + 21 /\ (k < LastEntry => When(q) >= 22 * k + 27)
<1>1. k \in Nat /\ k > 0 /\ k <= LastEntry /\ LastEntry \in Nat
  BY EntriesAre
<1>2. CASE q \in Prologue
  <2>1. When(q) <= 26 /\ When(q) \in Nat
    BY <1>2, DueTimes, WhenType DEF Prologue
  <2> QED BY <1>1, <2>1
<1>3. CASE q = FinalFile
  <2>1. When(q) = 22 * LastEntry + 21
    BY <1>3, DueTimes
  <2> QED BY <1>1, <2>1
<1>4. ASSUME NEW m \in Entries, q \in {<<"index", m>>, <<"range", m>>, <<"spool", m>>}
      PROVE  When(q) >= 22 * k + 27
  <2>1. m \in Nat /\ When(q) \in {22 * m + 6, 22 * m + 9, 22 * m + 10}
    BY <1>4, DueInEntry
  <2> QED BY <1>1, <2>1
<1>5. ASSUME NEW m \in Entries, NEW f \in SpoolFiles, q = <<"spool", m, f>>
      PROVE  When(q) >= 22 * k + 27
  <2>1. m \in Nat /\ When(q) = 22 * m + Place(f) /\ Place(f) \in 11..19
    BY <1>5, DueInEntry, DueInSpool
  <2> QED BY <1>1, <2>1
<1>6. When(q) >= 22 * k + 27 => When(q) >= 22 * k + 21
  <2>1. When(q) \in Nat
    BY WhenType
  <2> QED BY <1>1, <2>1
<1> QED BY <1>2, <1>3, <1>4, <1>5, <1>6, PathKinds

\* The directory that a run makes, and the file that it writes.
LEMMA MakingIs ==
    ASSUME NEW e, IsRun(e), e.step \in {"root", "raw", "captures", "spool"},
           e.step # "spool" => e.entry = 1
    PROVE  /\ Making(e) \in Tree /\ When(Making(e)) = Position(e)
           /\ Making(e) \in {<<"root">>, RawDir, CapturesDir} \cup SpoolDirs
           /\ e.step = "spool" => Making(e) \notin Prologue
           /\ e.step = "root" => Making(e) = <<"root">>
           /\ e.step = "raw" => Making(e) = RawDir
           /\ e.step = "captures" => Making(e) = CapturesDir
           /\ e.step = "spool" => Making(e) \in SpoolDirs
<1>1. e.entry \in Entries /\ e.entry \in Nat
  BY EntriesAre DEF IsRun
<1>2. CASE e.step = "spool"
  <2>1. Making(e) = <<"spool", e.entry>>
    BY <1>2 DEF Making
  <2>2. Position(e) = 22 * e.entry + 10
    BY <1>2, Places DEF Position
  <2>3. <<"spool", e.entry>> \in Tree /\ When(<<"spool", e.entry>>) = 22 * e.entry + 10
    BY <1>1, PathsExist, DueInEntry
  <2>4. <<"spool", e.entry>> \in SpoolDirs /\ <<"spool", e.entry>> \notin Prologue
    BY <1>1 DEF SpoolDirs, Prologue, RawDir, CapturesDir, OrderFile
  <2> QED BY <1>2, <2>1, <2>2, <2>3, <2>4
<1>3. CASE e.step \in {"root", "raw", "captures"}
  <2>1. Making(e) = <<e.step>> /\ Position(e) = 22 + Place(e.step)
    BY <1>3 DEF Making, Position
  <2> QED BY <1>3, <2>1, PathsExist, DueTimes, Places DEF RawDir, CapturesDir
<1> QED BY <1>2, <1>3

LEMMA WritingIs ==
    ASSUME NEW e, IsRun(e), e.step \in Files,
           e.step = "order" => e.entry = 1, e.step = "final" => e.entry = LastEntry
    PROVE  /\ Writing(e) \in Tree /\ When(Writing(e)) = Position(e)
           /\ e.step = "order" => Writing(e) = OrderFile
           /\ e.step = "final" => Writing(e) = FinalFile
           /\ e.step \in {"index", "range"} => Writing(e) = <<e.step, e.entry>>
           /\ e.step \in SpoolFiles => Writing(e) = <<"spool", e.entry, e.step>>
           /\ e.step # "order" => Writing(e) \notin Prologue
           /\ e.step \in {"order", "index", "range"} => Writing(e) \in Listable
<1>1. e.entry \in Entries /\ e.entry \in Nat
  BY EntriesAre DEF IsRun
<1>2. SpoolFiles \cap {"order", "index", "range", "final"} = {}
  BY DEF SpoolFiles, SealedFiles, RawFiles
<1>3. CASE e.step = "order"
  <2>1. Writing(e) = OrderFile
    BY <1>2, <1>3 DEF Writing, OrderFile
  <2>2. Position(e) = 26
    BY <1>3, Places DEF Position
  <2>3. OrderFile \in Listable
    BY DEF Listable
  <2> QED BY <1>2, <1>3, <2>1, <2>2, <2>3, PathsExist, DueTimes
<1>4. CASE e.step = "final"
  <2>1. Writing(e) = FinalFile
    BY <1>2, <1>4 DEF Writing, FinalFile
  <2>2. Position(e) = 22 * LastEntry + 21
    BY <1>4, Places DEF Position
  <2>3. FinalFile \notin Prologue
    BY DEF FinalFile, Prologue, RawDir, CapturesDir, OrderFile
  <2> QED BY <1>2, <1>4, <2>1, <2>2, <2>3, PathsExist, DueTimes
<1>5. CASE e.step \in {"index", "range"}
  <2>1. Writing(e) = <<e.step, e.entry>>
    BY <1>2, <1>5 DEF Writing
  <2>2. When(<<e.step, e.entry>>) = Position(e) /\ <<e.step, e.entry>> \in Tree
    BY <1>1, <1>5, Places, DueInEntry, PathsExist DEF Position
  <2>3. <<e.step, e.entry>> \notin Prologue /\ <<e.step, e.entry>> \in Listable
    BY <1>1, <1>5 DEF Prologue, RawDir, CapturesDir, OrderFile, Listable
  <2> QED BY <1>2, <1>5, <2>1, <2>2, <2>3
<1>6. CASE e.step \in SpoolFiles
  <2>1. Writing(e) = <<"spool", e.entry, e.step>>
    BY <1>2, <1>6 DEF Writing
  <2>2. When(<<"spool", e.entry, e.step>>) = Position(e) /\ <<"spool", e.entry, e.step>> \in Tree
    BY <1>1, <1>6, DueInSpool, PathsExist DEF Position
  <2>3. <<"spool", e.entry, e.step>> \notin Prologue
    BY DEF Prologue, RawDir, CapturesDir, OrderFile
  <2> QED BY <1>2, <1>6, <2>1, <2>2, <2>3
<1> QED BY <1>3, <1>4, <1>5, <1>6 DEF Files

\* What was due earlier than the run's step is certain.
LEMMA CertainBefore ==
    ASSUME NEW e, IsRun(e), NEW t, Certain(e, t),
           e.step \notin {"root", "raw", "captures", "order", "stopped"},
           NEW q \in Tree \ ({<<"root">>} \cup SpoolDirs), When(q) # Position(e)
    PROVE  Kept(t, q)
BY DEF Certain, Loose

\* Before the root is made there is nothing.
LEMMA NothingYet ==
    ASSUME NEW t, NEW n, World(t, n), ~Has(t, <<"root">>), NEW e, IsRun(e), e.step = "root"
    PROVE  Unreached(e, t) /\ Certain(e, t) /\ Listed(e, t) /\ Captured(e, t)
<1>1. \A q \in Tree : t.now[q] = Absent /\ t.kept[q] = Absent
  BY DEF World, Rooted, Honest, Has
<1>2. Unreached(e, t) /\ Certain(e, t)
  BY <1>1 DEF Unreached, Certain, Kept
<1>3. e.entry = 1 /\ e.listed = {} /\ e.captures = <<>>
  BY IdleIs DEF IsRun
<1>4. Listed(e, t)
  BY <1>3 DEF Listed
<1>5. Captured(e, t)
  <2>1. 1..Count(e) = {}
    BY <1>3 DEF Count
  <2>2. e.captures = [k \in {} |-> e.captures[k]]
    BY <1>3
  <2> QED BY <2>1, <2>2 DEF Captured
<1> QED BY <1>2, <1>4, <1>5

LEMMA MkdirRun ==
    ASSUME NEW t, Stored(t), NEW n, World(t, n),
           NEW e, IsRun(e), e.step \in {"root", "raw", "captures", "spool"},
           e.step # "root" => RunInv(e, t), ~Has(t, Making(e)),
           NEW new, new.step = Following(e.step), new.syncing = FALSE, new.entry = e.entry,
           new.listed = e.listed, new.captures = e.captures,
           new.body = IF e.step = "spool" THEN t.now[<<"range", e.entry>>] ELSE e.body,
           Position(new) = Position(e) + 1, Count(new) = Count(e)
    PROVE  LET u == FS!Put(t, Making(e), Dir) IN Stored(u) /\ World(u, n) /\ RunInv(new, u)
<1> DEFINE p == Making(e)
           u == FS!Put(t, p, Dir)
<1>1. e.step # "spool" => e.entry = 1
  <2>1. e.step = "root" => e.entry = 1
    BY IdleIs DEF IsRun
  <2> QED BY <2>1 DEF RunInv, InOrder
<1>2. /\ p \in Tree /\ When(p) = Position(e)
      /\ p \in {<<"root">>, RawDir, CapturesDir} \cup SpoolDirs
      /\ e.step = "spool" => p \notin Prologue
      /\ e.step = "root" => p = <<"root">>
      /\ e.step = "raw" => p = RawDir
      /\ e.step = "captures" => p = CapturesDir
      /\ e.step = "spool" => p \in SpoolDirs
  BY <1>1, MakingIs
<1>3. Unreached(e, t) /\ Certain(e, t) /\ Listed(e, t) /\ Captured(e, t)
  BY <1>2, NothingYet DEF RunInv
<1>4. e.step # "stopped" /\ ~e.syncing
  BY DEF IsRun, Files, SpoolFiles, SealedFiles, RawFiles
<1>5. /\ new.step \in {"raw", "captures", "order", "work-order"}
      /\ e.step = "root" => new.step = "raw"
      /\ e.step = "raw" => new.step = "captures"
      /\ e.step = "captures" => new.step = "order"
      /\ e.step = "spool" => new.step = "work-order"
  BY Followings
<1>6. Stored(u) /\ u.now[p] = Dir /\ \A q \in Tree \ {p} : u.now[q] = t.now[q]
  BY <1>2, PutIs
<1>7. /\ Unreached(new, u) /\ Captured(new, u)
      /\ \A a \in e.listed : a.path \in Listable /\ Past(new, a.path) /\ u.now[a.path] = a.content
      /\ \A q \in Tree : When(q) >= When(p) => ~Has(t, q)
  <2>1. (Position(new) = Position(e) + 1 /\ ~new.syncing) \/ (Position(new) = Position(e) /\ new.syncing)
    OBVIOUS
  <2> HIDE DEF p
  <2> QED BY <1>2, <1>3, <1>4, <2>1, PutFrame
<1>8. Listed(new, u)
  BY <1>7 DEF Listed
<1>9. Certain(new, u)
  <2>1. Loose(new, p)
    BY <1>2, <1>5 DEF Loose
  <2>2. e.step \in {"raw", "captures", "order"} => new.step \in {"raw", "captures", "order"}
    BY <1>5
  <2> HIDE DEF p
  <2> QED BY <1>2, <1>3, <2>1, <2>2, PutCertain
<1>10. \A x, y : <<"range", x>> \notin SpoolDirs /\ <<"spool", x, y>> \notin SpoolDirs
                 /\ <<"range", x>> \notin {<<"root">>, RawDir, CapturesDir, FinalFile}
                 /\ <<"spool", x, y>> \notin {<<"root">>, RawDir, CapturesDir, FinalFile}
  BY DEF SpoolDirs, RawDir, CapturesDir, FinalFile
<1>11. FinalFile \notin {<<"root">>, RawDir, CapturesDir} \cup SpoolDirs
  BY DEF SpoolDirs, RawDir, CapturesDir, FinalFile
<1>12. World(u, n)
  <2>1. p # <<"root">> => Has(t, <<"root">>)
    BY <1>2 DEF RunInv
  <2>2. p \notin Prologue => /\ Has(t, RawDir) /\ Has(t, CapturesDir)
                             /\ Kept(t, RawDir) /\ Kept(t, CapturesDir) /\ Kept(t, OrderFile)
    <3>1. e.step = "spool" => InOrder(e, t)
      BY DEF RunInv
    <3>2. p \notin Prologue => e.step = "spool"
      BY <1>2 DEF Prologue
    <3> QED BY <1>3, <3>1, <3>2, Settled
  <2>3. /\ \A k \in Entries : p # <<"range", k>>
        /\ \A k \in Entries, f \in SpoolFiles : p # <<"spool", k, f>>
        /\ p # FinalFile
    BY <1>2, <1>10, <1>11
  <2> HIDE DEF p
  <2> QED BY <1>2, <1>7, <2>1, <2>2, <2>3, PutWorld
<1>13. \A q \in Tree : Has(t, q) => Has(u, q)
  BY <1>6, RunsAssumption DEF Has
<1>14. Has(u, p)
  BY <1>6, RunsAssumption DEF Has
<1>15. Has(u, <<"root">>)
  BY <1>2, <1>13, <1>14, PathsExist DEF RunInv
<1>16. InOrder(new, u)
  <2>1. CASE e.step = "root"
    <3>1. new.step = "raw" /\ new.entry = 1
      BY <1>1, <1>5, <2>1
    <3> QED BY <3>1 DEF InOrder
  <2>2. CASE e.step = "raw"
    <3>1. new.step = "captures" /\ new.entry = 1 /\ Has(u, RawDir)
      BY <1>1, <1>2, <1>5, <1>14, <2>2
    <3> QED BY <3>1 DEF InOrder
  <2>3. CASE e.step = "captures"
    <3>1. new.step = "order" /\ new.entry = 1 /\ Has(u, CapturesDir)
      BY <1>1, <1>2, <1>5, <1>14, <2>3
    <3>2. Has(u, RawDir)
      BY <1>13, <2>3, PathsExist DEF RunInv, InOrder
    <3> QED BY <3>1, <3>2 DEF InOrder
  <2>4. CASE e.step = "spool"
    <3>1. Has(t, RawDir) /\ Has(t, CapturesDir) /\ t.now[OrderFile] = Order
      BY <2>4 DEF RunInv, InOrder
    <3>2. new.step = "work-order"
      BY <1>5, <2>4
    <3>3. OrderFile # p
      BY <1>2, <2>4 DEF Prologue
    <3> QED BY <1>6, <1>13, <3>1, <3>2, <3>3, PathsExist DEF InOrder
  <2> QED BY <2>1, <2>2, <2>3, <2>4
<1>17. Parsed(new, u)
  <2>1. CASE e.step = "spool"
    <3>1. e.entry \in Entries
      BY DEF IsRun
    <3>2. <<"range", e.entry>> # p /\ <<"range", e.entry>> \in Tree
      BY <1>2, <1>10, <2>1, <3>1, PathsExist
    <3>3. new.step = "work-order"
      BY <1>5, <2>1
    <3> QED BY <1>6, <2>1, <3>2, <3>3 DEF Parsed
  <2>2. CASE e.step # "spool"
    <3>1. new.step \in {"raw", "captures", "order"}
      BY <1>5, <2>2
    <3>2. new.step \notin SpoolFiles
      BY <3>1 DEF SpoolFiles, SealedFiles, RawFiles
    <3> QED BY <3>1, <3>2 DEF Parsed
  <2> QED BY <2>1, <2>2
<1> QED BY <1>6, <1>7, <1>8, <1>9, <1>12, <1>15, <1>16, <1>17 DEF RunInv

\* A step that makes nothing.
LEMMA OnwardRun ==
    ASSUME NEW t, NEW e, IsRun(e), RunInv(e, t), e.step \in {"ask", "parse", "fetch", "read"},
           NEW new, new.step = Following(e.step), new.syncing = FALSE, new.entry = e.entry,
           new.listed = e.listed, new.captures = e.captures,
           Position(new) = Position(e) + 1, Count(new) = Count(e)
    PROVE  /\ Unreached(new, t) /\ Certain(new, t) /\ Listed(new, t) /\ Captured(new, t)
           /\ InOrder(new, t)
<1>1. e.step # "stopped" /\ ~e.syncing
  BY DEF IsRun, Files, SpoolFiles, SealedFiles, RawFiles
<1>2. new.step \in {"index", "fetch", "range", "representation"}
  BY Followings
<1>3. Position(e) \in Nat
  BY <1>1, PositionType
<1>4. \A q \in Tree : When(q) # Position(e) /\ When(q) \in Nat
  BY NoPathHere, WhenType
<1>5. \A q \in Tree : Past(new, q) <=> Past(e, q)
  BY <1>1, <1>3, <1>4 DEF Past
<1>6. t.now = t.now
  OBVIOUS
<1>7. Unreached(new, t) /\ Listed(new, t) /\ Captured(new, t)
  BY <1>5, <1>6, StillFrame DEF RunInv
<1>8. Certain(new, t)
  BY <1>4 DEF RunInv, Certain, Loose
<1>9. InOrder(new, t)
  BY <1>2 DEF RunInv, InOrder
<1> QED BY <1>7, <1>8, <1>9

\* Past the index response and the range response, and the evidence of the spool.
LEMMA ParsedPaths ==
    ASSUME NEW e, IsRun(e), e.step # "stopped"
    PROVE  LET k == e.entry
           IN /\ k \in Entries
              /\ <<"index", k>> \in Tree /\ <<"range", k>> \in Tree
              /\ e.step \in {"fetch", "range"} => When(<<"index", k>>) < Position(e)
              /\ e.step \in SpoolFiles \cup {"read"} => When(<<"range", k>>) < Position(e)
              /\ e.step \in {"representation", "capture"} =>
                    \A f \in Evidence : <<"spool", k, f>> \in Tree /\ When(<<"spool", k, f>>) < Position(e)
<1> DEFINE k == e.entry
<1>1. /\ k \in Entries /\ k \in Nat
      /\ Place(e.step) \in 1..22 /\ Position(e) = 22 * k + Place(e.step)
      /\ When(<<"index", k>>) = 22 * k + 6 /\ When(<<"range", k>>) = 22 * k + 9
      /\ When(<<"spool", k>>) = 22 * k + 10
  BY PositionType, DueInEntry DEF IsRun
<1>2. <<"index", k>> \in Tree /\ <<"range", k>> \in Tree
  BY <1>1, PathsExist
<1>3. ASSUME e.step \in {"fetch", "range"} PROVE When(<<"index", k>>) < Position(e)
  <2>1. Place(e.step) \in {8, 9}
    BY <1>3, Places
  <2> HIDE DEF k
  <2> QED BY <1>1, <2>1
<1>4. ASSUME e.step \in SpoolFiles \cup {"read"} PROVE When(<<"range", k>>) < Position(e)
  <2>1. Place(e.step) \in 11..19
    BY <1>4, Places, SpoolPlaces
  <2> HIDE DEF k
  <2> QED BY <1>1, <2>1
<1>5. ASSUME e.step \in {"representation", "capture"}, NEW f \in Evidence
      PROVE  <<"spool", k, f>> \in Tree /\ When(<<"spool", k, f>>) < Position(e)
  <2>1. Place(e.step) \in {17, 18}
    BY <1>5, Places
  <2>2. f \in SpoolFiles /\ Place(f) <= 15 /\ Place(f) \in Nat
    <3>1. f \in SpoolFiles
      BY SpoolFilesAre, EntriesAre
    <3>2. f \in RawFiles => Place(f) <= 14
      BY <3>1, SpoolPlaces
    <3> QED BY <3>1, <3>2, SpoolPlaces, Places DEF Evidence
  <2>3. When(<<"spool", k, f>>) = 22 * k + Place(f) /\ <<"spool", k, f>> \in Tree
    BY <1>1, <2>2, DueInSpool, PathsExist
  <2> HIDE DEF k
  <2> QED BY <1>1, <2>1, <2>2, <2>3
<1> QED BY <1>1, <1>2, <1>3, <1>4, <1>5

LEMMA CommitParsed ==
    ASSUME NEW t, Stored(t), NEW e, IsRun(e), e.step # "stopped", Parsed(e, t),
           NEW p \in Tree, When(p) = Position(e), NEW c, e.step = "index" => c = e.index /\ p = <<"index", e.entry>>,
           NEW new, new.step = e.step, new.entry = e.entry, new.index = e.index, new.body = e.body
    PROVE  Parsed(new, FS!Put(t, p, c))
<1> DEFINE k == e.entry
           u == FS!Put(t, p, c)
<1>1. u.now[p] = c /\ \A q \in Tree \ {p} : u.now[q] = t.now[q]
  BY PutIs
<1>2. /\ k \in Entries /\ <<"index", k>> \in Tree /\ <<"range", k>> \in Tree
      /\ e.step \in {"fetch", "range"} => When(<<"index", k>>) < Position(e)
      /\ e.step \in SpoolFiles \cup {"read"} => When(<<"range", k>>) < Position(e)
      /\ e.step \in {"representation", "capture"} =>
            \A f \in Evidence : <<"spool", k, f>> \in Tree /\ When(<<"spool", k, f>>) < Position(e)
  BY ParsedPaths
<1>3. Position(e) \in Nat
  BY PositionType
<1>4. "representation" \in SpoolFiles /\ "capture" \in SpoolFiles
  BY DEF SpoolFiles, SealedFiles
<1>5. ASSUME e.step \in {"representation", "capture"}
      PROVE  Derived(u, k)
  <2>1. <<"range", k>> # p
    BY <1>2, <1>3, <1>4, <1>5
  <2>2. \A f \in Evidence : SpoolIn(u, k)[f] = SpoolIn(t, k)[f]
    <3> SUFFICES ASSUME NEW f \in Evidence PROVE u.now[<<"spool", k, f>>] = t.now[<<"spool", k, f>>]
      BY <1>2, SpoolFilesAre DEF SpoolIn
    <3>1. <<"spool", k, f>> \in Tree /\ When(<<"spool", k, f>>) < Position(e)
      BY <1>2, <1>5
    <3>2. <<"spool", k, f>> # p
      BY <1>3, <3>1
    <3> HIDE DEF u
    <3> QED BY <1>1, <3>1, <3>2
  <2>3. Derived(t, k)
    BY <1>5 DEF Parsed
  <2> HIDE DEF u
  <2> QED BY <1>1, <1>2, <2>1, <2>2, <2>3, SameEvidence DEF Derived
<1> HIDE DEF u
<1>6. e.step \in {"parse", "fetch", "range"} \/ (e.step = "index" /\ new.syncing) => u.now[<<"index", k>>] = e.index
  <2>1. CASE e.step = "index"
    BY <1>1, <2>1
  <2>2. CASE e.step = "parse"
    <3>1. FALSE
      BY <2>2, NoPathHere
    <3> QED BY <3>1
  <2>3. CASE e.step \in {"fetch", "range"}
    <3>1. <<"index", k>> # p
      BY <1>2, <1>3, <2>3
    <3> QED BY <1>1, <1>2, <2>3, <3>1 DEF Parsed
  <2> QED BY <2>1, <2>2, <2>3
<1>7. e.step \in {"fetch", "range"} => Has(u, <<"index", k>>) /\ IndexAccepted(u.now[<<"index", k>>], k)
  <2> SUFFICES ASSUME e.step \in {"fetch", "range"} PROVE Has(u, <<"index", k>>) /\ IndexAccepted(u.now[<<"index", k>>], k)
    OBVIOUS
  <2>1. <<"index", k>> # p
    BY <1>2, <1>3
  <2> QED BY <1>1, <1>2, <2>1 DEF Parsed, Has
<1>8. e.step \in SpoolFiles \cup {"read"} => e.body = u.now[<<"range", k>>]
  <2> SUFFICES ASSUME e.step \in SpoolFiles \cup {"read"} PROVE e.body = u.now[<<"range", k>>]
    OBVIOUS
  <2>1. <<"range", k>> # p
    BY <1>2, <1>3
  <2> QED BY <1>1, <1>2, <2>1 DEF Parsed
<1> QED BY <1>5, <1>6, <1>7, <1>8 DEF Parsed, u

\* The manifest of a run that comes to write it is true.
LEMMA FinalTruth ==
    ASSUME NEW t, NEW n, NEW e, IsRun(e), RunInv(e, t), e.step = "final",
           NEW c, c.order = Order, c.listed = e.listed, c.captures = e.captures, ManifestValid(c)
    PROVE  Truthful(t, c, n)
<1>1. Has(t, RawDir) /\ Has(t, CapturesDir) /\ t.now[OrderFile] = Order
  BY DEF RunInv, InOrder
<1>2. \A q \in Tree \ ({<<"root">>, FinalFile} \cup SpoolDirs) : Kept(t, q)
  <2>1. e.entry = LastEntry
    BY DEF RunInv, InOrder
  <2>2. When(FinalFile) = Position(e)
    BY <2>1, DueTimes, Places DEF Position
  <2>3. \A q \in Tree : When(q) = Position(e) => q = FinalFile
    BY <2>2, OnePath, PathsExist
  <2> QED BY <2>3, CertainBefore DEF RunInv
<1>3. \A k \in DOMAIN c.captures :
         k \in Entries /\ SpoolVerified(SpoolIn(t, k)) /\ SpoolIn(t, k)["capture"] = c.captures[k].metadata
  <2>1. e.captures = [k \in 1..Count(e) |-> e.captures[k]]
    BY DEF RunInv, Captured
  <2>2. DOMAIN e.captures = 1..Count(e)
    BY <2>1
  <2>3. \A k \in 1..Count(e) : k \in Entries
    BY CountedPast
  <2>4. \A k \in 1..Count(e) : SpoolVerified(SpoolIn(t, k)) /\ SpoolIn(t, k)["capture"] = e.captures[k].metadata
    BY DEF RunInv, Captured
  <2> QED BY <2>2, <2>3, <2>4
<1>4. \A a \in c.listed : a.path \in Listable /\ t.now[a.path] = a.content
  BY DEF RunInv, Listed
<1> QED BY <1>1, <1>2, <1>3, <1>4 DEF Truthful

LEMMA CommitRun ==
    ASSUME NEW t, Stored(t), NEW n, World(t, n), NEW e, IsRun(e), RunInv(e, t), e.step \in Files, ~e.syncing,
           NEW c, e.step = "order" => c = Order, e.step = "index" => c = e.index,
           e.step = "warc-record" => c = e.body,
           e.step = "final" => c.order = Order /\ c.listed = e.listed /\ c.captures = e.captures /\ ManifestValid(c),
           NEW new, new.step = e.step, new.syncing = TRUE, new.entry = e.entry, new.index = e.index,
           new.body = e.body, new.captures = e.captures, Position(new) = Position(e), Count(new) = Count(e),
           new.listed = IF e.step \in SpoolFiles \cup {"final"} THEN e.listed
                        ELSE e.listed \cup {[path |-> Writing(e), content |-> c]}
    PROVE  LET u == FS!Put(t, Writing(e), c) IN Stored(u) /\ World(u, n) /\ RunInv(new, u)
<1> DEFINE p == Writing(e)
           u == FS!Put(t, p, c)
<1>1. e.step # "stopped" /\ e.step # "root" /\ e.step # "raw" /\ e.step # "captures"
  BY DEF Files, SpoolFiles, SealedFiles, RawFiles
<1>2. /\ p \in Tree /\ When(p) = Position(e)
      /\ e.step = "order" => p = OrderFile
      /\ e.step = "final" => p = FinalFile
      /\ e.step \in {"index", "range"} => p = <<e.step, e.entry>>
      /\ e.step \in SpoolFiles => p = <<"spool", e.entry, e.step>>
      /\ e.step # "order" => p \notin Prologue
      /\ e.step \in {"order", "index", "range"} => p \in Listable
  <2>1. (e.step = "order" => e.entry = 1) /\ (e.step = "final" => e.entry = LastEntry)
    BY DEF RunInv, InOrder
  <2> QED BY <2>1, WritingIs
<1> HIDE DEF p
<1>3. Stored(u) /\ u.now[p] = c /\ \A q \in Tree \ {p} : u.now[q] = t.now[q]
  BY <1>2, PutIs
<1>4. Unreached(e, t) /\ Certain(e, t) /\ Listed(e, t) /\ Captured(e, t) /\ InOrder(e, t) /\ Parsed(e, t)
  BY DEF RunInv
<1>5. /\ Unreached(new, u) /\ Captured(new, u)
      /\ \A a \in e.listed : a.path \in Listable /\ Past(new, a.path) /\ u.now[a.path] = a.content
      /\ \A q \in Tree : When(q) >= When(p) => ~Has(t, q)
      /\ Past(new, p)
  <2>1. (Position(new) = Position(e) + 1 /\ ~new.syncing) \/ (Position(new) = Position(e) /\ new.syncing)
    OBVIOUS
  <2> QED BY <1>1, <1>2, <1>4, <2>1, PutFrame
<1>6. Certain(new, u)
  <2>1. Loose(new, p)
    BY <1>2 DEF Loose
  <2> QED BY <1>2, <1>4, <2>1, PutCertain
<1>7. Listed(new, u)
  <2>1. CASE e.step \in SpoolFiles \cup {"final"}
    BY <1>5, <2>1 DEF Listed
  <2>2. CASE e.step \notin SpoolFiles \cup {"final"}
    <3>1. e.step \in {"order", "index", "range"}
      BY <2>2 DEF Files
    <3> DEFINE a == [path |-> p, content |-> c]
    <3>2. a.path = p /\ a.content = c
      OBVIOUS
    <3>3. new.listed = e.listed \cup {a}
      BY <2>2 DEF p
    <3> HIDE DEF a
    <3>4. a.path \in Listable /\ Past(new, a.path) /\ u.now[a.path] = a.content
      BY <1>2, <1>3, <1>5, <3>1, <3>2
    <3> QED BY <1>5, <3>3, <3>4 DEF Listed
  <2> QED BY <2>1, <2>2
<1>8. Parsed(new, u)
  <2>1. e.step = "index" => c = e.index /\ p = <<"index", e.entry>>
    BY <1>2
  <2> QED BY <1>1, <1>2, <1>4, <2>1, CommitParsed
<1>9. Has(u, <<"root">>) /\ Has(u, RawDir) /\ Has(u, CapturesDir)
  <2>1. <<"root">> # p /\ RawDir # p /\ CapturesDir # p
    <3>1. CASE e.step = "order"
      BY <1>2, <3>1 DEF OrderFile, RawDir, CapturesDir
    <3>2. CASE e.step # "order"
      BY <1>2, <3>2 DEF Prologue
    <3> QED BY <3>1, <3>2
  <2>2. Has(t, <<"root">>) /\ Has(t, RawDir) /\ Has(t, CapturesDir)
    BY <1>1 DEF RunInv, InOrder
  <2> HIDE DEF u
  <2> QED BY <1>3, <2>1, <2>2, PathsExist DEF Has
<1>10. InOrder(new, u)
  <2>1. u.now[OrderFile] = Order
    <3>1. CASE e.step = "order"
      BY <1>2, <1>3, <3>1
    <3>2. CASE e.step # "order"
      <4>1. OrderFile # p /\ t.now[OrderFile] = Order
        BY <1>1, <1>2, <1>4, <3>2 DEF Prologue, InOrder
      <4> HIDE DEF u
      <4> QED BY <1>3, <4>1, PathsExist
    <3> QED BY <3>1, <3>2
  <2> QED BY <1>4, <1>9, <2>1 DEF InOrder
<1>11. World(u, n)
  <2>1. Has(t, <<"root">>)
    BY DEF RunInv
  <2>2. ASSUME p \notin Prologue
        PROVE  /\ e.step \notin {"root", "raw", "captures", "order", "stopped"}
               /\ Has(t, RawDir) /\ Has(t, CapturesDir)
               /\ Kept(t, RawDir) /\ Kept(t, CapturesDir) /\ Kept(t, OrderFile)
    <3>1. e.step # "order"
      BY <1>2, <2>2 DEF Prologue
    <3> QED BY <1>1, <1>4, <3>1, Settled
  <2>3. ASSUME NEW k \in Entries, p = <<"range", k>>
        PROVE  /\ Kept(t, <<"index", k>>) /\ Has(t, <<"index", k>>)
               /\ IndexAccepted(t.now[<<"index", k>>], k)
    <3>1. e.step = "range" /\ e.entry = k
      <4>1. e.step # "order" /\ e.step # "final"
        BY <1>2, <2>3 DEF OrderFile, FinalFile
      <4>2. e.step \notin SpoolFiles
        BY <1>2, <2>3
      <4>3. e.step # "index"
        BY <1>2, <2>3
      <4>4. e.step = "range"
        BY <4>1, <4>2, <4>3 DEF Files
      <4> QED BY <1>2, <2>3, <4>4
    <3>2. <<"index", k>> \in Tree /\ When(<<"index", k>>) < Position(e)
      BY <1>1, <3>1, ParsedPaths
    <3>3. <<"index", k>> \notin {<<"root">>} \cup SpoolDirs
      BY DEF SpoolDirs
    <3>4. When(<<"index", k>>) # Position(e)
      BY <3>2, WhenType, PositionType, <1>1
    <3>5. Kept(t, <<"index", k>>)
      BY <1>4, <3>1, <3>2, <3>3, <3>4, CertainBefore
    <3> QED BY <1>4, <3>1, <3>5 DEF Parsed
  <2>4. ASSUME NEW k \in Entries, NEW f \in SpoolFiles, p = <<"spool", k, f>>
        PROVE  /\ Kept(t, <<"range", k>>)
               /\ f = "warc-record" => c = t.now[<<"range", k>>]
               /\ f = "representation" => Derived(t, k) /\ \A g \in Evidence : Kept(t, <<"spool", k, g>>)
    <3>1. e.step = f /\ e.entry = k
      <4>1. e.step # "order" /\ e.step # "final"
        BY <1>2, <2>4 DEF OrderFile, FinalFile
      <4>2. e.step \notin {"index", "range"}
        BY <1>2, <2>4
      <4>3. e.step \in SpoolFiles
        BY <4>1, <4>2 DEF Files
      <4> QED BY <1>2, <2>4, <4>3
    <3>2. /\ <<"range", k>> \in Tree /\ When(<<"range", k>>) < Position(e)
          /\ f = "representation" => \A g \in Evidence : <<"spool", k, g>> \in Tree /\ When(<<"spool", k, g>>) < Position(e)
      BY <1>1, <3>1, ParsedPaths
    <3>3. /\ <<"range", k>> \notin {<<"root">>} \cup SpoolDirs
          /\ \A g : <<"spool", k, g>> \notin {<<"root">>} \cup SpoolDirs
      BY DEF SpoolDirs
    <3>4. Position(e) \in Nat /\ e.step \notin {"root", "raw", "captures", "order", "stopped"}
      BY <1>1, <3>1, PositionType DEF SpoolFiles, SealedFiles, RawFiles
    <3>5. ASSUME NEW q \in Tree \ ({<<"root">>} \cup SpoolDirs), When(q) < Position(e) PROVE Kept(t, q)
      <4>1. When(q) # Position(e)
        BY <3>4, <3>5, WhenType
      <4> QED BY <1>4, <3>4, <4>1, CertainBefore
    <3>6. Kept(t, <<"range", k>>)
      BY <3>2, <3>3, <3>5
    <3>7. f = "warc-record" => c = t.now[<<"range", k>>]
      BY <1>4, <3>1 DEF Parsed
    <3>8. f = "representation" => Derived(t, k) /\ \A g \in Evidence : Kept(t, <<"spool", k, g>>)
      BY <1>4, <3>1, <3>2, <3>3, <3>5 DEF Parsed
    <3> QED BY <3>6, <3>7, <3>8
  <2>5. ASSUME p = FinalFile PROVE Truthful(t, c, n)
    <3>1. e.step = "final"
      <4>1. e.step # "order"
        BY <1>2, <2>5 DEF OrderFile, FinalFile
      <4>2. e.step \notin {"index", "range"} \cup SpoolFiles
        BY <1>2, <2>5 DEF FinalFile
      <4> QED BY <4>1, <4>2 DEF Files
    <3> QED BY <3>1, FinalTruth
  <2> HIDE DEF u
  <2>6. World(FS!Put(t, p, c), n)
    BY <1>2, <1>5, <2>1, <2>2, <2>3, <2>4, <2>5, PutWorld
  <2> QED BY <2>6 DEF u
<1> QED BY <1>3, <1>5, <1>6, <1>7, <1>8, <1>9, <1>10, <1>11 DEF RunInv, p

\* The directory of what a run has written is fsynced.
LEMMA SyncRun ==
    ASSUME NEW t, Stored(t), NEW n, World(t, n), NEW e, IsRun(e), RunInv(e, t), e.step \in Files, e.syncing,
           NEW new, new.step = Following(e.step), new.syncing = FALSE, new.entry = e.entry, new.index = e.index,
           new.body = e.body, new.listed = e.listed, new.captures = e.captures,
           Position(new) = Position(e) + 1, e.step # "final" => Count(new) = Count(e)
    PROVE  LET u == FS!SyncDir(t, Above[Writing(e)])
           IN Stored(u) /\ World(u, n) /\ (Active(new) => RunInv(new, u))
<1> DEFINE p == Writing(e)
           u == FS!SyncDir(t, Above[p])
<1>1. e.step # "stopped" /\ e.step # "root" /\ e.step # "raw" /\ e.step # "captures"
  BY DEF Files, SpoolFiles, SealedFiles, RawFiles
<1>2. p \in Tree /\ When(p) = Position(e) /\ (e.step = "order" => p = OrderFile) /\ p # <<"root">>
  <2>1. (e.step = "order" => e.entry = 1) /\ (e.step = "final" => e.entry = LastEntry)
    BY DEF RunInv, InOrder
  <2>2. p \in Tree /\ When(p) = Position(e) /\ (e.step = "order" => p = OrderFile) /\ (e.step # "order" => p \notin Prologue)
    BY <2>1, WritingIs
  <2> QED BY <2>2 DEF Prologue, OrderFile
<1> HIDE DEF p
<1>3. /\ Stored(u) /\ World(u, n) /\ u.now = t.now
      /\ \A q \in Tree : Kept(t, q) \/ (q # <<"root">> /\ Above[q] = Above[p]) => Kept(u, q)
  BY SyncedWorld
<1> HIDE DEF u
<1> SUFFICES ASSUME Active(new) PROVE RunInv(new, u)
  BY <1>3 DEF u, p
<1>4. Unreached(e, t) /\ Certain(e, t) /\ Listed(e, t) /\ Captured(e, t) /\ InOrder(e, t) /\ Parsed(e, t)
  BY DEF RunInv
<1>5. e.step # "final"
  BY Followings DEF Active, Ended
<1>6. /\ e.step = "order" => new.step = "ask"
      /\ e.step = "index" => new.step = "parse"
      /\ e.step = "range" => new.step = "spool"
      /\ e.step \in SpoolFiles => new.step \in (SpoolFiles \cup {"read", "reconcile"}) \ {"representation"}
      /\ new.step = "capture" => e.step = "representation"
  BY <1>5, Followings DEF Files, SpoolFiles, SealedFiles, RawFiles
<1>7. /\ new.step \notin {"raw", "captures", "order", "final", "root", "index", "fetch", "range", "representation"}
      /\ e.step \notin SpoolFiles => new.step \notin SpoolFiles \cup {"read"}
  BY <1>5, <1>6 DEF Files, SpoolFiles, SealedFiles, RawFiles
<1>8. Position(e) \in Nat /\ \A q \in Tree : When(q) \in Nat
  BY <1>1, PositionType, WhenType
<1>9. \A q \in Tree : Past(new, q) <=> Past(e, q)
  BY <1>8 DEF Past
<1>10. Unreached(new, u) /\ Listed(new, u) /\ Captured(new, u)
  BY <1>3, <1>4, <1>5, <1>9, StillFrame
<1>11. Certain(new, u)
  <2> SUFFICES ASSUME NEW q \in Tree, ~Loose(new, q) PROVE Kept(u, q)
    BY DEF Certain
  <2>1. q \notin {<<"root">>} \cup SpoolDirs
    BY DEF Loose
  <2>2. CASE ~Loose(e, q)
    BY <1>3, <1>4, <2>2 DEF Certain
  <2>3. CASE When(q) = Position(e)
    <3>1. q = p
      BY <1>2, <2>3, OnePath
    <3> QED BY <1>2, <1>3, <3>1
  <2>4. CASE q \in {RawDir, CapturesDir} /\ e.step \in {"raw", "captures", "order"}
    <3>1. p = OrderFile
      BY <1>1, <1>2, <2>4
    <3>2. Above[q] = Above[p]
      BY <2>4, <3>1, Parents
    <3> QED BY <1>3, <2>1, <3>2
  <2> QED BY <2>1, <2>2, <2>3, <2>4 DEF Loose
<1>12. t.now[OrderFile] = Order /\ Has(u, RawDir) /\ Has(u, CapturesDir) /\ Has(u, <<"root">>)
  BY <1>1, <1>3 DEF RunInv, InOrder, Has
<1>13. InOrder(new, u)
  BY <1>3, <1>7, <1>12 DEF InOrder
<1>14. SpoolIn(u, e.entry) = SpoolIn(t, e.entry)
  BY <1>3 DEF SpoolIn
<1>15. Parsed(new, u)
  <2>1. new.step = "parse" => t.now[<<"index", e.entry>>] = e.index
    <3>1. new.step = "parse" => e.step = "index"
      BY <1>5, <1>6 DEF Files, SpoolFiles, SealedFiles, RawFiles
    <3> QED BY <1>4, <3>1 DEF Parsed
  <2>2. new.step \in SpoolFiles \cup {"read"} => e.body = t.now[<<"range", e.entry>>]
    BY <1>4, <1>7 DEF Parsed
  <2>3. new.step \in {"representation", "capture"} => Derived(t, e.entry)
    BY <1>4, <1>6, <1>7 DEF Parsed
  <2>4. Derived(t, e.entry) => Derived(u, e.entry)
    BY <1>3, <1>14 DEF Derived
  <2> QED BY <1>3, <1>7, <2>1, <2>2, <2>3, <2>4 DEF Parsed
<1> QED BY <1>10, <1>11, <1>12, <1>13, <1>15 DEF RunInv

\* A capture is added to those a run has counted.
LEMMA AppendIs ==
    ASSUME NEW n \in Nat, NEW s, s = [i \in 1..n |-> s[i]], NEW x
    PROVE  LET w == Append(s, x) IN /\ w = [i \in 1..(n + 1) |-> w[i]]
                                    /\ w[n + 1] = x /\ \A i \in 1..n : w[i] = s[i]
<1> DEFINE S == {s[i] : i \in 1..n} \cup {x}
           w == Append(s, x)
<1>1. \A i \in 1..n : s[i] \in S
  OBVIOUS
<1>2. x \in S
  OBVIOUS
<1> HIDE DEF S
<1>3. s \in [1..n -> S]
  BY <1>1
<1>4. s \in Seq(S) /\ Len(s) = n
  BY <1>3
<1>5. w \in Seq(S) /\ Len(w) = n + 1 /\ w[n + 1] = x /\ \A i \in 1..n : w[i] = s[i]
  BY <1>2, <1>4
<1>6. w = [i \in 1..(n + 1) |-> w[i]]
  BY <1>5
<1> QED BY <1>5, <1>6

LEMMA ReconcileRun ==
    ASSUME NEW t, NEW e, IsRun(e), RunInv(e, t), e.step = "reconcile",
           SpoolVerified(SpoolIn(t, e.entry)),
           NEW x, x.metadata = SpoolIn(t, e.entry)["capture"],
           NEW new, new.step = (IF e.entry + 1 \in Entries THEN "ask" ELSE "final"), new.syncing = FALSE,
           new.entry = (IF e.entry + 1 \in Entries THEN e.entry + 1 ELSE e.entry),
           new.listed = e.listed \cup
              {[path |-> <<"spool", e.entry, "manifest">>, content |-> SpoolIn(t, e.entry)["manifest"]]},
           new.captures = Append(e.captures, x)
    PROVE  RunInv(new, t)
<1> DEFINE k == e.entry
<1>1. /\ k \in Entries /\ k \in Nat /\ k > 0 /\ k <= LastEntry /\ LastEntry \in Nat
      /\ Position(e) = 22 * k + 20 /\ Entries = 1..LastEntry
  <2>1. /\ k \in Nat /\ k > 0 /\ k <= LastEntry /\ LastEntry \in Nat
        /\ Position(e) = 22 * k + Place(e.step)
    BY PositionType
  <2>2. Place(e.step) = 20
    BY Places
  <2>3. k \in Entries /\ Entries = 1..LastEntry
    BY EntriesAre DEF IsRun
  <2> QED BY <2>1, <2>2, <2>3
<1> HIDE DEF k
<1>2. ~e.syncing
  BY DEF IsRun, Files, SpoolFiles, SealedFiles, RawFiles
<1>3. \/ new.step = "ask" /\ new.entry = k + 1 /\ k < LastEntry /\ Position(new) = 22 * k + 27
      \/ new.step = "final" /\ new.entry = k /\ k = LastEntry /\ Position(new) = 22 * k + 21
  <2>1. CASE k + 1 \in Entries
    <3>1. new.step = "ask" /\ new.entry = k + 1 /\ k < LastEntry
      BY <1>1, <2>1 DEF k
    <3>2. Position(new) = 22 * (k + 1) + 5
      BY <3>1, Places DEF Position
    <3> QED BY <1>1, <3>1, <3>2
  <2>2. CASE k + 1 \notin Entries
    <3>1. new.step = "final" /\ new.entry = k /\ k = LastEntry
      BY <1>1, <2>2 DEF k
    <3>2. Position(new) = 22 * k + 21
      BY <3>1, Places DEF Position
    <3> QED BY <3>1, <3>2
  <2> QED BY <2>1, <2>2
<1>4. ASSUME NEW q \in Tree
      PROVE  /\ When(q) # Position(e) /\ (When(q) < Position(new) <=> When(q) < Position(e))
  <2>1. When(q) \in Nat /\ (When(q) >= 22 * k + 20 => When(q) >= 22 * k + 21 /\ (k < LastEntry => When(q) >= 22 * k + 27))
    BY <1>1, WhenType, NothingBetween
  <2> QED BY <1>1, <1>3, <2>1
<1>5. \A q \in Tree : Past(new, q) <=> Past(e, q)
  BY <1>2, <1>4 DEF Past
<1>6. Unreached(new, t)
  BY <1>5 DEF RunInv, Unreached
<1>7. Certain(new, t)
  BY <1>4 DEF RunInv, Certain, Loose
<1>8. Listed(new, t)
  <2> DEFINE p == <<"spool", k, "manifest">>
             a == [path |-> p, content |-> SpoolIn(t, k)["manifest"]]
  <2>1. new.listed = e.listed \cup {a}
    BY DEF k
  <2>2. a.path = p /\ a.content = SpoolIn(t, k)["manifest"]
    OBVIOUS
  <2>3. a.content = t.now[a.path]
    BY <1>1, <2>2, SpoolFilesAre
  <2>4. a.path \in Listable /\ p \in Tree
    BY <1>1, <2>2, SpoolFilesAre, PathsExist DEF Listable
  <2>5. When(p) = 22 * k + 19
    <3>1. "manifest" \in SpoolFiles
      BY DEF SpoolFiles
    <3>2. When(p) = 22 * k + Place("manifest")
      BY <1>1, <3>1, DueInSpool
    <3> QED BY <3>2, Places
  <2>6. Past(e, p)
    BY <1>1, <2>5 DEF Past
  <2> HIDE DEF p, a
  <2>7. Past(new, a.path)
    BY <1>5, <2>2, <2>4, <2>6
  <2>8. \A b \in e.listed : b.path \in Listable /\ Past(new, b.path) /\ t.now[b.path] = b.content
    BY <1>5, ListableExist DEF RunInv, Listed
  <2> QED BY <2>1, <2>3, <2>4, <2>7, <2>8 DEF Listed
<1>9. Captured(new, t)
  <2>1. Count(e) = k - 1 /\ Count(new) = k /\ k - 1 \in Nat /\ (k - 1) + 1 = k
    BY <1>1, <1>3 DEF Count, k
  <2>2. e.captures = [i \in 1..(k - 1) |-> e.captures[i]]
    BY <2>1 DEF RunInv, Captured
  <2> DEFINE w == Append(e.captures, x)
  <2>3. w = [i \in 1..((k - 1) + 1) |-> w[i]] /\ w[(k - 1) + 1] = x /\ \A i \in 1..(k - 1) : w[i] = e.captures[i]
    BY <2>1, <2>2, AppendIs
  <2> HIDE DEF w
  <2>4. new.captures = w
    BY DEF w
  <2>5. ASSUME NEW i \in 1..k
        PROVE  SpoolVerified(SpoolIn(t, i)) /\ SpoolIn(t, i)["capture"] = w[i].metadata
    <3>1. CASE i = k
      BY <2>1, <2>3, <3>1 DEF k
    <3>2. CASE i # k
      <4>1. i \in 1..(k - 1)
        BY <1>1, <3>2
      <4> QED BY <2>1, <2>3, <4>1 DEF RunInv, Captured
    <3> QED BY <3>1, <3>2
  <2> QED BY <2>1, <2>3, <2>4, <2>5 DEF Captured
<1>10. InOrder(new, t)
  BY <1>3 DEF RunInv, InOrder
<1>11. Parsed(new, t)
  BY <1>3 DEF Parsed, SpoolFiles, SealedFiles, RawFiles
<1> QED BY <1>6, <1>7, <1>8, <1>9, <1>10, <1>11 DEF RunInv

(***************************************************************************)
(* Every step keeps the invariant.                                         *)
(***************************************************************************)
LEMMA RunMoves ==
    ASSUME IInv, NEW r \in Runs, NEW new, run' = [run EXCEPT ![r] = new], outages' = outages, IsRun(new),
           Stored(store'), World(store', outages),
           Active(run[r]) \/ store' = store \/ ~Has(store, <<"root">>),
           Active(new) => RunInv(new, store') /\ (Active(run[r]) \/ ~Has(store, <<"root">>))
    PROVE  IInv'
<1>1. /\ run = [q \in Runs |-> run[q]] /\ \A q \in Runs : IsRun(run[q]) /\ (Active(run[q]) => RunInv(run[q], store))
      /\ outages \in Nat /\ \A p, q \in Runs : Active(run[p]) /\ Active(run[q]) => p = q
  BY DEF IInv, OneActive
<1>2. run' = [q \in Runs |-> run'[q]] /\ run'[r] = new /\ \A q \in Runs \ {r} : run'[q] = run[q]
  BY <1>1
<1>3. \A q \in Runs : IsRun(run'[q])
  BY <1>1, <1>2
<1>4. ASSUME NEW q \in Runs \ {r}, Active(run[q])
      PROVE  Has(store, <<"root">>) /\ ~Active(run[r]) /\ store' = store /\ ~Active(new)
  <2>1. Has(store, <<"root">>)
    BY <1>1, <1>4 DEF RunInv
  <2>2. ~Active(run[r])
    BY <1>1, <1>4
  <2> QED BY <2>1, <2>2
<1>5. \A q \in Runs : Active(run'[q]) => RunInv(run'[q], store')
  BY <1>1, <1>2, <1>4
<1>6. \A p, q \in Runs : Active(run'[p]) /\ Active(run'[q]) => p = q
  BY <1>1, <1>2, <1>4
<1>7. World(store', outages') /\ outages' \in Nat
  BY <1>1
<1> QED BY <1>2, <1>3, <1>5, <1>6, <1>7 DEF IInv, OneActive

LEMMA InitInv == Init => IInv
<1> SUFFICES ASSUME Init PROVE IInv
  OBVIOUS
<1> DEFINE bare == [p \in Tree |-> Absent]
<1>1. store = [now |-> bare, kept |-> bare]
  <2>1. [p \in Tree |-> IF p = <<"root">> THEN Absent ELSE Absent] = bare
    OBVIOUS
  <2> HIDE DEF bare
  <2> QED BY <2>1 DEF Init, FS!Bare
<1>2. bare = [p \in Tree |-> bare[p]] /\ \A p \in Tree : bare[p] = Absent
  OBVIOUS
<1> HIDE DEF bare
<1>3. store.now = bare /\ store.kept = bare
  BY <1>1
<1>4. Stored(store)
  BY <1>1, <1>2, <1>3 DEF Stored
<1>5. \A p \in Tree : ~Has(store, p) /\ store.kept[p] = Absent
  BY <1>2, <1>3 DEF Has
<1>6. World(store, 0)
  <2>1. Rooted(store) /\ Honest(store) /\ Firm(store) /\ Published(store, 0)
    BY <1>5, PathsExist DEF Rooted, Honest, Firm, Published
  <2>2. ASSUME NEW k \in Entries PROVE Indexed(store, k) /\ Recorded(store, k) /\ Represented(store, k)
    BY <1>5, PathsExist, SpoolFilesAre DEF Indexed, Recorded, Represented
  <2> QED BY <2>1, <2>2 DEF World
<1>7. \A r \in Runs : run[r] = Idle
  BY DEF Init
<1>8. run = [r \in Runs |-> run[r]]
  BY DEF Init
<1> QED BY <1>4, <1>6, <1>7, <1>8, IdleIs DEF IInv, Init, OneActive

\* A run in the middle of its steps.
LEMMA Going ==
    ASSUME IInv, NEW r \in Runs, run[r].step \notin {"root", "done", "stopped"}
    PROVE  /\ IsRun(run[r]) /\ Active(run[r]) /\ RunInv(run[r], store)
           /\ Stored(store) /\ World(store, outages)
BY DEF IInv, Active, Ended

LEMMA MkdirStep ==
    ASSUME IInv, NEW r \in Runs, Mkdir(r)
    PROVE  IInv'
<1> DEFINE e == run[r]
           go == [e EXCEPT !.step = Following(@), !.syncing = FALSE]
           x == IF e.step = "spool" THEN store.now[<<"range", e.entry>>] ELSE e.body
           new == [go EXCEPT !.body = x]
           u == FS!Put(store, Making(e), Dir)
<1>1. IsRun(e) /\ Stored(store) /\ World(store, outages)
  BY DEF IInv
<1>2. e.step \in {"root", "raw", "captures", "spool"} /\ (e.step # "root" => Active(e) /\ RunInv(e, store))
  BY Going DEF Mkdir
<1>3. /\ IsRun(go) /\ go.step = Following(e.step) /\ go.syncing = FALSE
      /\ go.entry = e.entry /\ go.body = e.body
      /\ go.listed = e.listed /\ go.captures = e.captures
      /\ Position(go) = Position(e) + 1 /\ Count(go) = Count(e)
  BY <1>1, <1>2, StepAt
<1>4. Directory(r) = Making(e)
  BY DEF Directory, Making, At, Entry
<1>5. ~Has(store, Making(e)) /\ store' = u /\ outages' = outages
  BY <1>4 DEF Mkdir, FS!Present, Has
<1>6. run' = [run EXCEPT ![r] = new]
  <2>1. Advanced(r) = go
    BY DEF Advanced
  <2>2. go.body = e.body
    BY <1>3
  <2> HIDE DEF go
  <2>3. [Advanced(r) EXCEPT !.body = IF At(r, "spool") THEN Now(<<"range", Entry(r)>>) ELSE @] = new
    BY <2>1, <2>2 DEF At, Now, Entry
  <2> HIDE DEF new
  <2> QED BY <2>3 DEF Mkdir
<1>7. go.step # "root"
  BY <1>2, <1>3, Followings
<1>8. /\ IsRun(new) /\ new.step = Following(e.step) /\ new.syncing = FALSE
      /\ new.entry = e.entry /\ new.body = x /\ new.listed = e.listed /\ new.captures = e.captures
      /\ Position(new) = Position(e) + 1 /\ Count(new) = Count(e)
  <2> DEFINE s == go.step
  <2> HIDE DEF go
  <2>1. /\ IsRun(new) /\ new.step = go.step /\ new.syncing = go.syncing
        /\ new.entry = go.entry /\ new.body = x
        /\ new.listed = go.listed /\ new.captures = go.captures
        /\ Position(new) = Position(go) /\ Count(new) = Count(go)
    BY <1>3, <1>7, SetBody
  <2> QED BY <1>3, <2>1
<1> HIDE DEF new, go
<1>9. Stored(u) /\ World(u, outages) /\ RunInv(new, u)
  <2> HIDE DEF e
  <2> QED BY <1>1, <1>2, <1>5, <1>8, MkdirRun
<1>10. Active(e) \/ ~Has(store, <<"root">>)
  <2>1. e.step = "root" => Making(e) = <<"root">>
    BY DEF Making
  <2> QED BY <1>2, <1>5, <2>1
<1> QED BY <1>5, <1>6, <1>8, <1>9, <1>10, RunMoves

\* A step that makes nothing, of a run that goes on with new.
LEMMA QuietStep ==
    ASSUME IInv, NEW r \in Runs, run[r].step \in {"ask", "parse", "fetch", "read"},
           UNCHANGED <<store, outages>>,
           NEW new, run' = [run EXCEPT ![r] = new], IsRun(new),
           new.step = Following(run[r].step), new.syncing = FALSE, new.entry = run[r].entry,
           new.listed = run[r].listed, new.captures = run[r].captures,
           Position(new) = Position(run[r]) + 1, Count(new) = Count(run[r]),
           Parsed(new, store)
    PROVE  IInv'
<1> DEFINE e == run[r]
<1>1. IsRun(e) /\ Active(e) /\ RunInv(e, store) /\ Stored(store) /\ World(store, outages)
  BY Going
<1>2. /\ Unreached(new, store) /\ Certain(new, store) /\ Listed(new, store) /\ Captured(new, store)
      /\ InOrder(new, store)
  <2> HIDE DEF e
  <2>1. /\ e.step \in {"ask", "parse", "fetch", "read"}
        /\ new.step = Following(e.step) /\ new.entry = e.entry
        /\ new.listed = e.listed /\ new.captures = e.captures
        /\ Position(new) = Position(e) + 1 /\ Count(new) = Count(e)
    BY DEF e
  <2> QED BY <1>1, <2>1, OnwardRun
<1>3. RunInv(new, store)
  BY <1>1, <1>2 DEF RunInv
<1>4. store' = store /\ outages' = outages
  OBVIOUS
<1>5. Stored(store') /\ World(store', outages) /\ RunInv(new, store')
  BY <1>1, <1>3, <1>4
<1> QED BY <1>1, <1>4, <1>5, RunMoves

\* What a run is after a step of the program.
LEMMA AdvancedIs ==
    ASSUME IInv, NEW r \in Runs, run[r].step \notin {"root", "reconcile", "done", "stopped"}
    PROVE  LET e == run[r]
               new == Advanced(r)
           IN /\ IsRun(new) /\ new.step = Following(e.step) /\ new.syncing = FALSE
              /\ new.entry = e.entry /\ new.index = e.index /\ new.body = e.body
              /\ new.listed = e.listed /\ new.captures = e.captures
              /\ Position(new) = Position(e) + 1 /\ (e.step # "final" => Count(new) = Count(e))
              /\ new.step # "root"
<1> DEFINE e == run[r]
           new == Advanced(r)
<1>1. IsRun(e)
  BY DEF IInv
<1> DEFINE go == [e EXCEPT !.step = Following(@), !.syncing = FALSE]
<1>2. new = go
  BY DEF Advanced
<1>3. /\ IsRun(new) /\ new.step = Following(e.step) /\ new.syncing = FALSE
      /\ new.entry = e.entry /\ new.index = e.index /\ new.body = e.body
      /\ new.listed = e.listed /\ new.captures = e.captures
      /\ Position(new) = Position(e) + 1 /\ (e.step # "final" => Count(new) = Count(e))
  <2> HIDE DEF e
  <2>1. e.step \notin {"reconcile", "stopped", "done"}
    BY DEF e
  <2>2. /\ IsRun(go) /\ go.step = Following(e.step) /\ go.syncing = FALSE
        /\ go.entry = e.entry /\ go.index = e.index /\ go.body = e.body
        /\ go.listed = e.listed /\ go.captures = e.captures
        /\ Position(go) = Position(e) + 1 /\ (e.step # "final" => Count(go) = Count(e))
    BY <1>1, <2>1, StepAt
  <2> HIDE DEF go, new
  <2> QED BY <1>2, <2>2
<1>4. new.step # "root"
  <2>1. e.step \in Steps \ {"stopped", "done"}
    BY <1>1 DEF IsRun
  <2>2. Place(e.step) \in 1..21 /\ Place(new.step) = Place(e.step) + 1
    BY <1>3, <2>1, NextPlace
  <2> QED BY <2>2, Places
<1> QED BY <1>3, <1>4

LEMMA AskStep ==
    ASSUME IInv, NEW r \in Runs, Ask(r)
    PROVE  IInv'
<1> DEFINE go == Advanced(r)
<1>1. PICK index \in Indexes : run' = [run EXCEPT ![r] = [go EXCEPT !.index = index]]
  BY DEF Ask
<1>2. run[r].step = "ask" /\ UNCHANGED <<store, outages>>
  BY DEF Ask, At
<1>3. /\ IsRun(go) /\ go.step = "index" /\ go.syncing = FALSE /\ go.entry = run[r].entry
      /\ go.listed = run[r].listed /\ go.captures = run[r].captures
      /\ Position(go) = Position(run[r]) + 1 /\ Count(go) = Count(run[r])
  BY <1>2, AdvancedIs, Followings
<1> HIDE DEF go
<1> DEFINE new == [go EXCEPT !.index = index]
<1>4. /\ IsRun(new) /\ new.step = go.step /\ new.syncing = go.syncing /\ new.entry = go.entry
      /\ new.listed = go.listed /\ new.captures = go.captures
      /\ Position(new) = Position(go) /\ Count(new) = Count(go)
  BY <1>3, SetIndex
<1>5. run' = [run EXCEPT ![r] = new]
  BY <1>1
<1> HIDE DEF new
<1>6. Parsed(new, store)
  BY <1>3, <1>4 DEF Parsed, SpoolFiles, SealedFiles, RawFiles
<1>7. Following(run[r].step) = "index"
  BY <1>2, Followings
<1> QED BY <1>2, <1>3, <1>4, <1>5, <1>6, <1>7, QuietStep

LEMMA ParseStep ==
    ASSUME IInv, NEW r \in Runs, Parse(r)
    PROVE  IInv'
<1> DEFINE e == run[r]
           new == Advanced(r)
<1>1. /\ e.step = "parse" /\ UNCHANGED <<store, outages>> /\ run' = [run EXCEPT ![r] = new]
      /\ Has(store, <<"index", e.entry>>) /\ IndexAccepted(store.now[<<"index", e.entry>>], e.entry)
  BY DEF Parse, At, Advance, Has, Now, FS!Present, Entry
<1>2. /\ IsRun(new) /\ new.step = Following(e.step) /\ new.syncing = FALSE
      /\ new.entry = e.entry /\ new.index = e.index
      /\ new.listed = e.listed /\ new.captures = e.captures
      /\ Position(new) = Position(e) + 1 /\ Count(new) = Count(e)
  BY <1>1, AdvancedIs
<1>3. Parsed(new, store)
  <2>1. new.step = "fetch"
    BY <1>1, <1>2, Followings
  <2>2. store.now[<<"index", e.entry>>] = e.index
    BY <1>1, Going DEF RunInv, Parsed
  <2> HIDE DEF new
  <2> QED BY <1>1, <1>2, <2>1, <2>2 DEF Parsed, SpoolFiles, SealedFiles, RawFiles
<1> HIDE DEF new
<1> QED BY <1>1, <1>2, <1>3, QuietStep

LEMMA FetchStep ==
    ASSUME IInv, NEW r \in Runs, Fetch(r)
    PROVE  IInv'
<1> DEFINE go == Advanced(r)
<1>1. PICK body \in Ranges, total \in Totals : run' = [run EXCEPT ![r] = [go EXCEPT !.body = body, !.total = total]]
  BY DEF Fetch
<1>2. run[r].step = "fetch" /\ UNCHANGED <<store, outages>>
  BY DEF Fetch, At
<1>3. /\ IsRun(go) /\ go.step = "range" /\ go.syncing = FALSE /\ go.entry = run[r].entry /\ go.index = run[r].index
      /\ go.listed = run[r].listed /\ go.captures = run[r].captures
      /\ Position(go) = Position(run[r]) + 1 /\ Count(go) = Count(run[r])
  BY <1>2, AdvancedIs, Followings
<1> HIDE DEF go
<1> DEFINE got == [go EXCEPT !.body = body]
           new == [got EXCEPT !.total = total]
<1>4. [go EXCEPT !.body = body, !.total = total] = new
  OBVIOUS
<1>5. run' = [run EXCEPT ![r] = new]
  <2> HIDE DEF new
  <2> QED BY <1>1, <1>4
<1>6. /\ IsRun(got) /\ got.step = go.step /\ got.syncing = go.syncing /\ got.entry = go.entry /\ got.index = go.index
      /\ got.listed = go.listed /\ got.captures = go.captures
      /\ Position(got) = Position(go) /\ Count(got) = Count(go)
  BY <1>3, SetBody
<1> HIDE DEF got
<1>7. /\ IsRun(new) /\ new.step = got.step /\ new.syncing = got.syncing /\ new.entry = got.entry /\ new.index = got.index
      /\ new.listed = got.listed /\ new.captures = got.captures
      /\ Position(new) = Position(got) /\ Count(new) = Count(got)
  BY <1>3, <1>6, SetTotal
<1> HIDE DEF new
<1>8. Parsed(new, store)
  <2>1. Parsed(run[r], store)
    BY <1>2, Going DEF RunInv
  <2>2. new.step = "range" /\ new.entry = run[r].entry /\ new.index = run[r].index
    BY <1>3, <1>6, <1>7
  <2> QED BY <1>2, <2>1, <2>2 DEF Parsed, SpoolFiles, SealedFiles, RawFiles
<1>9. Following(run[r].step) = "range"
  BY <1>2, Followings
<1> QED BY <1>2, <1>3, <1>5, <1>6, <1>7, <1>8, <1>9, QuietStep

LEMMA ReadStep ==
    ASSUME IInv, NEW r \in Runs, Read(r)
    PROVE  IInv'
<1> DEFINE e == run[r]
           new == Advanced(r)
           k == e.entry
<1>1. e.step = "read" /\ UNCHANGED <<store, outages>> /\ run' = [run EXCEPT ![r] = new]
  BY DEF Read, At, Advance
<1>2. /\ RawVerified(SpoolIn(store, k))
      /\ RecordAccepted(store.now[<<"spool", k, "warc-record">>], Selected(k))
  BY DEF Read, Now, Entry, Spool, SpoolIn
<1>3. /\ IsRun(new) /\ new.step = Following(e.step) /\ new.syncing = FALSE
      /\ new.entry = e.entry /\ new.body = e.body
      /\ new.listed = e.listed /\ new.captures = e.captures
      /\ Position(new) = Position(e) + 1 /\ Count(new) = Count(e)
  BY <1>1, AdvancedIs
<1>4. Parsed(new, store)
  <2>1. new.step = "representation"
    BY <1>1, <1>3, Followings
  <2>2. e.body = store.now[<<"range", k>>] /\ k \in Entries
    BY <1>1, Going DEF RunInv, Parsed, IsRun
  <2>3. store.now[<<"spool", k, "warc-record">>] = store.now[<<"range", k>>]
    <3>1. SpoolIn(store, k)["warc-record"] # Absent
      BY <1>2 DEF RawVerified, RawFiles
    <3>2. Has(store, <<"spool", k, "warc-record">>)
      BY <2>2, <3>1, SpoolFilesAre DEF Has
    <3>3. Recorded(store, k)
      BY <2>2 DEF IInv, World
    <3> QED BY <3>2, <3>3 DEF Recorded
  <2>4. Derived(store, k)
    BY <1>2, <2>3 DEF Derived
  <2> HIDE DEF new
  <2> QED BY <1>3, <2>1, <2>2, <2>4 DEF Parsed
<1> HIDE DEF new
<1> QED BY <1>1, <1>3, <1>4, QuietStep

\* What the files hold, where the invariant needs to know it.
LEMMA ContentIs ==
    ASSUME NEW r \in Runs
    PROVE  /\ At(r, "order") => Content(r) = Order
           /\ At(r, "index") => Content(r) = run[r].index
           /\ At(r, "final") => Content(r) = AcquisitionManifest(r)
           /\ At(r, "warc-record") => Content(r) = run[r].body
<1> DEFINE s == run[r].step
<1>1. SpoolFiles \cap {"order", "index", "range", "final"} = {} /\ "warc-record" \in SpoolFiles
  BY DEF SpoolFiles, SealedFiles, RawFiles
<1>2. /\ s = "order" => Content(r) = Order
      /\ s = "index" => Content(r) = run[r].index
      /\ s = "final" => Content(r) = AcquisitionManifest(r)
      /\ s = "warc-record" => Content(r) = SpoolFile(r)["warc-record"]
  BY <1>1 DEF Content
<1>3. SpoolFile(r)["warc-record"] = run[r].body
  <2> DEFINE b == run[r].body
             range == Range(Selected(Entry(r)), run[r].total, b)
             raw == [f \in RawFiles |-> CASE f = "work-order"     -> Order
                                          [] f = "index-record"   -> [lines |-> <<Selected(Entry(r))>>]
                                          [] f = "range-response" -> range
                                          [] f = "warc-record"    -> b]
             sealed == [f \in SealedFiles |-> CASE f \in RawFiles            -> raw[f]
                                                [] f = "evidence-manifest" -> raw
                                                [] f = "representation"    -> [text |-> range.capture]
                                                [] f = "capture"           -> Metadata(range)]
  <2>1. SpoolFile(r) = [f \in SpoolFiles |-> IF f = "manifest" THEN sealed ELSE sealed[f]]
    BY DEF SpoolFile
  <2>2. "warc-record" \in RawFiles /\ "warc-record" \in SealedFiles
    BY DEF RawFiles, SealedFiles
  <2>3. {"evidence-manifest", "representation", "capture"} \cap RawFiles = {}
    BY DEF RawFiles
  <2>4. raw["warc-record"] = b
    BY <2>2
  <2> HIDE DEF raw, b, range
  <2>5. sealed["warc-record"] = raw["warc-record"]
    BY <2>2
  <2> HIDE DEF sealed
  <2>6. SpoolFile(r)["warc-record"] = sealed["warc-record"]
    BY <1>1, <2>1
  <2> QED BY <2>4, <2>5, <2>6 DEF b
<1> QED BY <1>2, <1>3 DEF At

LEMMA ManifestIs ==
    ASSUME NEW r \in Runs
    PROVE  LET m == AcquisitionManifest(r)
           IN m.order = Order /\ m.listed = run[r].listed /\ m.captures = run[r].captures
BY DEF AcquisitionManifest

LEMMA FileIs ==
    ASSUME NEW r \in Runs
    PROVE  File(r) = Writing(run[r])
BY DEF File, Writing, Entry

LEMMA CommitStep ==
    ASSUME IInv, NEW r \in Runs, Commit(r)
    PROVE  IInv'
<1> DEFINE e == run[r]
           c == Content(r)
           p == Writing(e)
           x == IF e.step \in SpoolFiles \cup {"final"} THEN e.listed ELSE e.listed \cup {[path |-> p, content |-> c]}
           new == [e EXCEPT !.syncing = TRUE, !.listed = x]
           u == FS!Put(store, p, c)
<1>1. /\ e.step \in Files /\ ~e.syncing /\ outages' = outages
      /\ e.step = "final" => ManifestValid(AcquisitionManifest(r))
  BY DEF Commit, At
<1>2. store' = u
  BY FileIs DEF Commit
<1>3. run' = [run EXCEPT ![r] = new]
  <2>1. Artifact(r) = [path |-> p, content |-> c]
    BY FileIs DEF Artifact
  <2>2. run' = [run EXCEPT ![r].syncing = TRUE,
                           ![r].listed = IF e.step \in SpoolFiles \cup {"final"} THEN @
                                         ELSE @ \cup {Artifact(r)}]
    BY DEF Commit
  <2> HIDE DEF p, c
  <2>3. run' = [run EXCEPT ![r].syncing = TRUE, ![r].listed = x]
    BY <2>1, <2>2
  <2> HIDE DEF x
  <2>4. run' = [run EXCEPT ![r] = [run[r] EXCEPT !.syncing = TRUE, !.listed = x]]
    BY <2>3
  <2> QED BY <2>4
<1>4. /\ IsRun(e) /\ Active(e) /\ RunInv(e, store) /\ Stored(store) /\ World(store, outages)
  <2>1. e.step \notin {"root", "done", "stopped"}
    BY <1>1 DEF Files, SpoolFiles, SealedFiles, RawFiles
  <2> QED BY <2>1, Going
<1>5. /\ e.step = "order" => c = Order
      /\ e.step = "index" => c = e.index
      /\ e.step = "warc-record" => c = e.body
      /\ e.step = "final" => /\ c.order = Order /\ c.listed = e.listed /\ c.captures = e.captures
                             /\ ManifestValid(c)
  BY <1>1, ContentIs, ManifestIs DEF At
<1> HIDE DEF c
<1> HIDE DEF x
<1>6. /\ IsRun(new) /\ new.step = e.step /\ new.syncing = TRUE
      /\ new.entry = e.entry /\ new.index = e.index /\ new.body = e.body
      /\ new.listed = x /\ new.captures = e.captures
      /\ Position(new) = Position(e) /\ Count(new) = Count(e)
  <2> HIDE DEF e
  <2> QED BY <1>1, <1>4, Stays
<1> HIDE DEF new
<1>7. Stored(u) /\ World(u, outages) /\ RunInv(new, u)
  <2>1. new.listed = IF e.step \in SpoolFiles \cup {"final"} THEN e.listed ELSE e.listed \cup {[path |-> p, content |-> c]}
    BY <1>6 DEF x
  <2> HIDE DEF e
  <2> QED BY <1>1, <1>4, <1>5, <1>6, <2>1, CommitRun
<1> QED BY <1>1, <1>2, <1>3, <1>4, <1>6, <1>7, RunMoves

LEMMA SyncStep ==
    ASSUME IInv, NEW r \in Runs, Sync(r)
    PROVE  IInv'
<1> DEFINE e == run[r]
           new == Advanced(r)
           u == FS!SyncDir(store, Above[Writing(e)])
<1>1. e.syncing /\ outages' = outages /\ run' = [run EXCEPT ![r] = new] /\ store' = u
  BY FileIs DEF Sync, Advance
<1>2. e.step \in Files /\ e.step \notin {"root", "reconcile", "done", "stopped"}
  BY <1>1 DEF IInv, IsRun, Files, SpoolFiles, SealedFiles, RawFiles
<1>3. IsRun(e) /\ Active(e) /\ RunInv(e, store) /\ Stored(store) /\ World(store, outages)
  BY <1>2, Going
<1>4. /\ IsRun(new) /\ new.step = Following(e.step) /\ new.syncing = FALSE
      /\ new.entry = e.entry /\ new.index = e.index /\ new.body = e.body
      /\ new.listed = e.listed /\ new.captures = e.captures
      /\ Position(new) = Position(e) + 1 /\ (e.step # "final" => Count(new) = Count(e))
  BY <1>2, AdvancedIs
<1> HIDE DEF new
<1>5. Stored(u) /\ World(u, outages) /\ (Active(new) => RunInv(new, u))
  <2> HIDE DEF e
  <2> QED BY <1>1, <1>2, <1>3, <1>4, SyncRun
<1> QED BY <1>1, <1>3, <1>4, <1>5, RunMoves

LEMMA ReconcileStep ==
    ASSUME IInv, NEW r \in Runs, Reconcile(r)
    PROVE  IInv'
<1> DEFINE e == run[r]
           k == e.entry
           s == IF k + 1 \in Entries THEN "ask" ELSE "final"
           a == IF k + 1 \in Entries THEN k + 1 ELSE k
           g == e.listed \cup {[path |-> <<"spool", k, "manifest">>, content |-> SpoolIn(store, k)["manifest"]]}
           x == [metadata |-> SpoolIn(store, k)["capture"], manifest |-> SpoolIn(store, k)["manifest"]]
           h == Append(e.captures, x)
           new == [Idle EXCEPT !.step = s, !.entry = a, !.listed = g, !.captures = h]
<1>1. e.step = "reconcile" /\ UNCHANGED <<store, outages>>
  BY DEF Reconcile, At
<1>2. Spool(k) = SpoolIn(store, k)
  BY DEF Spool, SpoolIn, Now
<1>3. SpoolVerified(SpoolIn(store, k))
  BY <1>2 DEF Reconcile, Entry
<1>4. run' = [run EXCEPT ![r] = new]
  BY <1>2, Followings DEF Reconcile, Entry
<1>5. IsRun(e) /\ Active(e) /\ RunInv(e, store) /\ Stored(store) /\ World(store, outages)
  BY <1>1, Going
<1>6. s \in Steps /\ s # "root" /\ a \in Entries
  <2>1. "ask" \in Steps /\ "final" \in Steps
    BY ProgramIs DEF Steps
  <2> QED BY <1>5, <2>1 DEF IsRun
<1>7. x.metadata = SpoolIn(store, k)["capture"]
  OBVIOUS
<1> DEFINE none == <<>>
           empty == {}
           no == FALSE
           root == "root"
<1>8. Idle = [step |-> root, syncing |-> no, entry |-> 1, index |-> Absent, body |-> Absent,
              total |-> Absent, listed |-> empty, captures |-> none]
  BY DEF Idle
<1> HIDE DEF s, a, g, x, h, none, empty, no, root
<1>9. new = [step |-> s, syncing |-> no, entry |-> a, index |-> Absent, body |-> Absent,
             total |-> Absent, listed |-> g, captures |-> h]
  <2> DEFINE m1 == [Idle EXCEPT !.step = s]
             m2 == [m1 EXCEPT !.entry = a]
             m3 == [m2 EXCEPT !.listed = g]
  <2>1. new = [m3 EXCEPT !.captures = h]
    OBVIOUS
  <2>2. m1 = [step |-> s, syncing |-> no, entry |-> 1, index |-> Absent, body |-> Absent,
              total |-> Absent, listed |-> empty, captures |-> none]
    BY <1>8
  <2> HIDE DEF m1
  <2>3. m2 = [step |-> s, syncing |-> no, entry |-> a, index |-> Absent, body |-> Absent,
              total |-> Absent, listed |-> empty, captures |-> none]
    BY <2>2
  <2> HIDE DEF m2
  <2>4. m3 = [step |-> s, syncing |-> no, entry |-> a, index |-> Absent, body |-> Absent,
              total |-> Absent, listed |-> g, captures |-> none]
    BY <2>3
  <2> HIDE DEF m3
  <2> QED BY <2>1, <2>4
<1> HIDE DEF new
<1>10. /\ new.step = s /\ new.syncing = no /\ new.entry = a /\ new.index = Absent /\ new.body = Absent
       /\ new.total = Absent /\ new.listed = g /\ new.captures = h
  BY <1>9
<1>11. IsRun(new)
  BY <1>6, <1>9, <1>10 DEF IsRun, no
<1>12. RunInv(new, store)
  <2>1. /\ new.step = (IF e.entry + 1 \in Entries THEN "ask" ELSE "final") /\ new.syncing = FALSE
        /\ new.entry = (IF e.entry + 1 \in Entries THEN e.entry + 1 ELSE e.entry)
        /\ new.listed = e.listed \cup
              {[path |-> <<"spool", e.entry, "manifest">>, content |-> SpoolIn(store, e.entry)["manifest"]]}
        /\ new.captures = Append(e.captures, x)
    BY <1>10 DEF s, a, g, h, no
  <2> HIDE DEF e
  <2>2. SpoolVerified(SpoolIn(store, e.entry)) /\ x.metadata = SpoolIn(store, e.entry)["capture"] /\ e.step = "reconcile"
    BY <1>1, <1>3, <1>7
  <2> QED BY <1>5, <2>1, <2>2, ReconcileRun
<1>13. store' = store /\ outages' = outages
  BY <1>1
<1>14. Stored(store') /\ World(store', outages) /\ RunInv(new, store')
  BY <1>5, <1>12, <1>13
<1> QED BY <1>4, <1>5, <1>11, <1>13, <1>14, RunMoves

LEMMA StopStep ==
    ASSUME IInv, NEW r \in Runs, Stop(r)
    PROVE  IInv'
<1> DEFINE new == [Idle EXCEPT !.step = "stopped"]
<1>1. run' = [run EXCEPT ![r] = new] /\ store' = store /\ outages' = outages
  BY DEF Stop
<1>2. IsRun(new) /\ ~Active(new)
  BY IdleIs
<1> HIDE DEF new
<1>3. Stored(store') /\ World(store', outages)
  BY <1>1 DEF IInv
<1> QED BY <1>1, <1>2, <1>3, RunMoves

LEMMA OutageStep ==
    ASSUME IInv, Outage
    PROVE  IInv'
<1> DEFINE new == [Idle EXCEPT !.step = "stopped"]
<1>1. /\ outages' = outages + 1 /\ store' \in FS!Survivors(store)
      /\ run' = [r \in Runs |-> IF run[r].step \in {"root"} \cup Ended THEN run[r] ELSE new]
  BY DEF Outage
<1>2. IsRun(new) /\ ~Active(new)
  BY IdleIs
<1> HIDE DEF new
<1>3. Stored(store') /\ World(store', outages')
  BY <1>1, SurvivingWorld DEF IInv
<1>4. \A r \in Runs : IsRun(run'[r]) /\ ~Active(run'[r])
  BY <1>1, <1>2 DEF IInv, Active
<1>5. run' = [r \in Runs |-> run'[r]]
  BY <1>1
<1>6. outages' \in Nat
  BY <1>1 DEF IInv
<1> QED BY <1>3, <1>4, <1>5, <1>6 DEF IInv, OneActive

\* Every step keeps the invariant.
LEMMA StepInv == IInv /\ [Next]_vars => IInv'
<1> SUFFICES ASSUME IInv, [Next]_vars PROVE IInv'
  OBVIOUS
<1>1. ASSUME NEW r \in Runs, Act(r) PROVE IInv'
  BY <1>1, MkdirStep, AskStep, ParseStep, FetchStep, ReadStep, CommitStep, SyncStep, ReconcileStep, StopStep DEF Act
<1>2. CASE UNCHANGED vars
  BY <1>2 DEF vars, IInv, OneActive
<1> QED BY <1>1, <1>2, OutageStep DEF Next

(***************************************************************************)
(* Theorems.                                                               *)
(***************************************************************************)
\* The invariant holds of every execution: where a run is says what the tree holds.
THEOREM Invariant == Spec => []IInv
<1>1. IInv /\ [Next]_vars => IInv'
  BY StepInv
<1> QED BY InitInv, <1>1, PTL DEF Spec

\* Raw bytes are stored before a parser sees them, and stay (archiveacquire/acquire.go,
\* archiveimport/spool.go), for every number of runs, entries and power failures.
THEOREM RawStaysFirst == Spec => []RawBeforeParsed
<1>1. ASSUME IInv PROVE RawBeforeParsed
  <2>1. ASSUME NEW r \in Runs
        PROVE  /\ run[r].step \in {"fetch", "range"} => Now(<<"index", Entry(r)>>) = run[r].index
               /\ run[r].step \in {"representation", "capture"} => RawVerified(Spool(Entry(r)))
    <3>1. CASE run[r].step \in {"fetch", "range", "representation", "capture"}
      <4>1. Parsed(run[r], store)
        BY <1>1, <3>1, Going DEF RunInv
      <4>2. Spool(Entry(r)) = SpoolIn(store, run[r].entry)
        BY DEF Spool, SpoolIn, Now, Entry
      <4>3. run[r].step \in {"representation", "capture"} => RawVerified(SpoolIn(store, run[r].entry))
        BY <4>1 DEF Parsed, Derived
      <4> QED BY <4>1, <4>2, <4>3 DEF Parsed, Now, Entry
    <3>2. CASE run[r].step \notin {"fetch", "range", "representation", "capture"}
      BY <3>2
    <3> QED BY <3>1, <3>2
  <2>2. ASSUME NEW k \in Entries
        PROVE  /\ FS!Present(store, <<"range", k>>) =>
                     FS!Present(store, <<"index", k>>) /\ IndexAccepted(Now(<<"index", k>>), k)
               /\ Spool(k)["warc-record"] \in {Absent, Now(<<"range", k>>)}
               /\ Spool(k)["representation"] # Absent =>
                     RawVerified(Spool(k)) /\ RecordAccepted(Now(<<"range", k>>), Selected(k))
    <3>1. Indexed(store, k) /\ Recorded(store, k) /\ Represented(store, k)
      BY <1>1 DEF IInv, World
    <3>2. Spool(k) = SpoolIn(store, k)
      BY DEF Spool, SpoolIn, Now
    <3>3. /\ SpoolIn(store, k)["warc-record"] = store.now[<<"spool", k, "warc-record">>]
          /\ SpoolIn(store, k)["representation"] = store.now[<<"spool", k, "representation">>]
      BY SpoolFilesAre
    <3>4. SpoolIn(store, k)["warc-record"] \in {Absent, Now(<<"range", k>>)}
      BY <3>1, <3>3 DEF Recorded, Has, Now
    <3>5. SpoolIn(store, k)["representation"] # Absent =>
             RawVerified(SpoolIn(store, k)) /\ RecordAccepted(Now(<<"range", k>>), Selected(k))
      BY <3>1, <3>3 DEF Represented, Derived, Has, Now
    <3>6. FS!Present(store, <<"range", k>>) =>
             FS!Present(store, <<"index", k>>) /\ IndexAccepted(Now(<<"index", k>>), k)
      BY <3>1 DEF Indexed, Has, Now, FS!Present
    <3> QED BY <3>2, <3>4, <3>5, <3>6
  <2> QED BY <2>1, <2>2 DEF RawBeforeParsed
<1> QED BY <1>1, Invariant, PTL

\* A directory with an acquisition manifest verifies, but for the captures a power failure
\* took whole (archiveacquire/verify.go against the order in which acquire.go writes).
THEOREM ManifestVerifies == Spec => []ManifestMeansVerified
<1>1. ASSUME IInv PROVE ManifestMeansVerified
  <2> DEFINE m == store.now[FinalFile]
  <2> SUFFICES ASSUME m # Absent
               PROVE  /\ outages = 0 => Verified
                      /\ Now(<<"order">>) = m.order /\ ManifestValid(m)
                      /\ \A k \in DOMAIN m.captures : Lost(k) \/ CaptureAgrees(k)
                      /\ \A a \in m.listed : Agrees(a) \/ \E k \in Entries : Lost(k) /\ a.path = <<"spool", k, "manifest">>
    BY DEF ManifestMeansVerified, Final, Now, FinalFile
  <2>1. Final = m
    BY DEF Final, Now, FinalFile
  <2>2. Truthful(store, m, outages)
    BY <1>1 DEF IInv, World, Published, Has
  <2> HIDE DEF m
  <2>3. \A k : Spool(k) = SpoolIn(store, k) /\ (Lost(k) <=> ~Has(store, <<"spool", k>>))
    BY DEF Spool, SpoolIn, Now, Lost, Has, FS!Present
  <2>4. ASSUME NEW k \in DOMAIN m.captures
        PROVE  CaptureAgrees(k) \/ Gone(store, k, outages)
    <3>1. \/ SpoolVerified(SpoolIn(store, k)) /\ SpoolIn(store, k)["capture"] = m.captures[k].metadata
          \/ Gone(store, k, outages)
      BY <2>2 DEF Truthful
    <3> QED BY <2>1, <2>3, <3>1 DEF CaptureAgrees
  <2>5. \A a \in m.listed :
           \/ Agrees(a)
           \/ \E k \in Entries : Gone(store, k, outages) /\ a.path = <<"spool", k, "manifest">>
    BY <2>2 DEF Truthful, Agrees, Now
  <2>6. \A k : Gone(store, k, outages) => Lost(k) /\ outages # 0
    BY <1>1, <2>3 DEF Gone, IInv
  <2>7. Now(<<"order">>) = m.order /\ ManifestValid(m)
    BY <2>2 DEF Truthful, Now, OrderFile
  <2>8. outages = 0 => Verified
    BY <2>1, <2>4, <2>5, <2>6, <2>7 DEF Verified
  <2> QED BY <2>4, <2>5, <2>6, <2>7, <2>8
<1> QED BY <1>1, Invariant, PTL

LEMMA PutKeeps ==
    ASSUME NEW t, Stored(t), NEW p \in Tree, ~Has(t, p), NEW c, NEW q \in Tree, Has(t, q)
    PROVE  FS!Put(t, p, c).now[q] = t.now[q]
<1>1. q # p
  OBVIOUS
<1>2. \A x \in Tree \ {p} : FS!Put(t, p, c).now[x] = t.now[x]
  BY PutIs
<1> QED BY <1>1, <1>2

\* What is stored is neither replaced nor removed by any step of any run (archiveacquire's
\* createOutput, os.Mkdir and atomicfile.Write); only a power failure takes it away.
THEOREM EvidenceIsImmutable == Spec => NothingRewritten
<1>1. ASSUME IInv, [Next]_vars, NEW q \in Tree, FS!Present(store, q)
      PROVE  store'.now[q] = Now(q) \/ (store'.now[q] = Absent /\ outages' > outages)
  <2>1. Stored(store) /\ Has(store, q) /\ World(store, outages) /\ outages \in Nat
    BY <1>1 DEF IInv, FS!Present, Has
  <2>2. ASSUME NEW r \in Runs, Mkdir(r) PROVE store'.now[q] = Now(q)
    <3>1. Directory(r) = Making(run[r])
      BY DEF Directory, Making, At, Entry
    <3>2. ~Has(store, Making(run[r])) /\ store' = FS!Put(store, Making(run[r]), Dir)
          /\ run[r].step \in {"root", "raw", "captures", "spool"}
      BY <2>2, <3>1 DEF Mkdir, FS!Present, Has
    <3>3. IsRun(run[r]) /\ (run[r].step # "spool" => run[r].entry = 1)
      <4>1. IsRun(run[r])
        BY <1>1 DEF IInv
      <4>2. run[r].step = "root" => run[r].entry = 1
        BY <4>1, IdleIs DEF IsRun
      <4>3. run[r].step \in {"raw", "captures"} => run[r].entry = 1
        BY <1>1, Going DEF RunInv, InOrder
      <4> QED BY <3>2, <4>1, <4>2, <4>3
    <3>4. Making(run[r]) \in Tree
      BY <3>2, <3>3, MakingIs
    <3> QED BY <2>1, <3>2, <3>4, PutKeeps DEF Now
  <2>3. ASSUME NEW r \in Runs, Commit(r) PROVE store'.now[q] = Now(q)
    <3> DEFINE e == run[r]
    <3>1. e.step \in Files /\ ~e.syncing /\ store' = FS!Put(store, Writing(e), Content(r))
      BY <2>3, FileIs DEF Commit
    <3>2. IsRun(e) /\ RunInv(e, store)
      <4>1. e.step \notin {"root", "done", "stopped"}
        BY <3>1 DEF Files, SpoolFiles, SealedFiles, RawFiles
      <4> QED BY <1>1, <4>1, Going
    <3> HIDE DEF e
    <3>3. Writing(e) \in Tree /\ When(Writing(e)) = Position(e)
      <4>1. (e.step = "order" => e.entry = 1) /\ (e.step = "final" => e.entry = LastEntry)
        BY <3>2 DEF RunInv, InOrder
      <4> QED BY <3>1, <3>2, <4>1, WritingIs
    <3>4. ~Past(e, Writing(e))
      <4>1. Position(e) \in Nat
        BY <3>1, <3>2, PositionType DEF Files, SpoolFiles, SealedFiles, RawFiles
      <4> QED BY <3>1, <3>3, <4>1 DEF Past
    <3>5. ~Has(store, Writing(e))
      BY <3>2, <3>3, <3>4 DEF RunInv, Unreached, Has
    <3> QED BY <2>1, <3>1, <3>3, <3>5, PutKeeps DEF Now
  <2>4. ASSUME NEW r \in Runs, Sync(r) PROVE store'.now[q] = Now(q)
    BY <2>1, <2>4, SyncIs DEF Sync, Now
  <2>5. ASSUME NEW r \in Runs, Ask(r) \/ Parse(r) \/ Fetch(r) \/ Read(r) \/ Reconcile(r) \/ Stop(r)
        PROVE  store'.now[q] = Now(q)
    BY <2>5 DEF Ask, Parse, Fetch, Read, Reconcile, Stop, Now
  <2>6. CASE Outage
    <3>1. store'.now[q] \in {Absent, store.now[q]}
      BY <2>1, <2>6, SurvivorIs DEF Outage, World
    <3>2. outages' > outages
      BY <2>1, <2>6 DEF Outage
    <3> QED BY <3>1, <3>2 DEF Now
  <2>7. CASE UNCHANGED vars
    BY <2>7 DEF vars, Now
  <2> QED BY <1>1, <2>2, <2>3, <2>4, <2>5, <2>6, <2>7 DEF Next, Act
<1>2. IInv /\ [Next]_vars =>
         [\A p \in Tree : FS!Present(store, p) =>
             \/ store'.now[p] = Now(p)
             \/ store'.now[p] = Absent /\ outages' > outages]_vars
  BY <1>1
<1> QED BY <1>2, Invariant, PTL DEF Spec, NothingRewritten
=============================================================================
