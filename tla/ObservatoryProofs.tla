------------------------- MODULE ObservatoryProofs -------------------------
(***************************************************************************)
(* What the worker leaves in its output root, for any number of runs,      *)
(* responses, crashes and power failures, as long as no two runs are under *)
(* way at once in one root.                                                *)
(***************************************************************************)
EXTENDS ObservatoryWorker, TLAPS

(***************************************************************************)
(* The inductive invariant.  A run under way is alone and has found the    *)
(* root empty, so that each file holds what the run put there, or nothing  *)
(* if it has not come to it.  The answer of a run is sealed: its files are *)
(* on the disk for certain, and nobody starts beside them.                 *)
(***************************************************************************)
Stores == [now : [Tree -> Contents], kept : [Tree -> Contents]]

After == [job |-> {"fetch", "blob", "cbor", "json", "ref", "parse", "reload", "result"},
          cbor |-> {"json", "ref", "parse", "reload", "result"},
          json |-> {"ref", "parse", "reload", "result"},
          ref |-> {"parse", "reload", "result"},
          result |-> {}]
Done(e, p) == e.step \in After[p] \/ (e.step = p /\ e.syncing)
Seen(r, e) == [by |-> r, body |-> e.body]
Said(r, e, p) == CASE p = "job"              -> Job
                   [] p \in {"cbor", "json"} -> Seen(r, e)
                   [] p = "ref"              -> e.body
                   [] p = "result"           -> [observation |-> Seen(r, e), decision |-> Decision[e.body]]

Progress(r, e, s) ==
    /\ e.syncing => e.step \in Files
    /\ e.step \notin {"job", "fetch"} => e.body \in Bodies
    /\ e.step \in After["job"] \ {"fetch", "blob"} => s.now[e.body] = e.body
    /\ e.step \in {"reload", "result"} => e.body \in Parses
    /\ e.step = "result" => e.seen = Seen(r, e)
    /\ \A p \in Files : IF Done(e, p) THEN s.now[p] = Said(r, e, p) ELSE s.now[p] = Absent
    /\ \A p \in Files : e.step \in After[p] => s.kept[p] = s.now[p]

Sealed(r, e, s) ==
    /\ e.body \in Bodies \cap Parses
    /\ \A p \in Files : s.now[p] = Said(r, e, p) /\ s.kept[p] = s.now[p]
    /\ s.kept["evidence"] = s.now["evidence"]

Answering(r, e, s) == s.now["result"] # Absent /\ s.now["result"].observation = Seen(r, e)
NoneActive == \A q \in Runs : run[q].step \notin Active

OneActive == \A q, r \in Runs : run[q].step \in Active /\ run[r].step \in Active => q = r
Writing == \A q \in Runs : run[q].syncing => run[q].step \in Files
Rooted(s) == /\ \A p \in {"cbor", "json", "ref"} : s.now[p] # Absent => s.now["evidence"] # Absent
             /\ \A p \in Files : s.kept[p] \in {s.now[p], Absent}
AnswerInv(r) ==
    At(r, "answered") =>
        /\ outages = 0 => Answering(r, run[r], store) /\ store.now[run[r].body] # Absent
        /\ Answering(r, run[r], store) => NoneActive /\ Sealed(r, run[r], store)

IInv == /\ TypeOK
        /\ OneActive
        /\ Writing
        /\ Rooted(store)
        /\ \A r \in Runs : run[r].step \in Active => Progress(r, run[r], store)
        /\ \A r \in Runs : AnswerInv(r)

(***************************************************************************)
(* The tree.                                                               *)
(***************************************************************************)
LEMMA Names ==
    /\ Files \subseteq Tree /\ {"root", "evidence", "cas", "temp"} \subseteq Tree /\ Bodies \subseteq Tree
    /\ Bodies \cap Files = {} /\ \A b \in Bodies : b \notin {"root", "evidence", "cas", "temp"}
    /\ Above["job"] = "root" /\ Above["result"] = "root" /\ Above["evidence"] = "root" /\ Above["root"] = "root"
    /\ \A p \in {"cbor", "json", "ref"} : Above[p] = "evidence"
    /\ Active = {"job", "fetch", "blob", "cbor", "json", "ref", "parse", "reload", "result"}
BY NamesAssumption DEF Files, Tree, InRoot, Above, Active, Following

LEMMA PutIs ==
    ASSUME NEW s \in Stores, NEW p \in Tree, NEW c \in Contents
    PROVE  /\ FS!Put(s, p, c) \in Stores /\ FS!Put(s, p, c).now[p] = c
           /\ \A q \in Tree \ {p} : FS!Put(s, p, c).now[q] = s.now[q]
           /\ FS!Put(s, p, c).kept = s.kept
<1> DEFINE n == [s.now EXCEPT ![p] = c]
           t == [s EXCEPT !.now = n]
<1>1. n \in [Tree -> Contents] /\ n[p] = c /\ \A q \in Tree \ {p} : n[q] = s.now[q]
  BY DEF Stores
<1>2. FS!Put(s, p, c) = t
  BY DEF FS!Put
<1> HIDE DEF n
<1>3. t \in Stores /\ t.now = n /\ t.kept = s.kept
  BY <1>1 DEF Stores
<1> QED BY <1>1, <1>2, <1>3

LEMMA MkdirIs ==
    ASSUME NEW s \in Stores, NEW d \in Tree
    PROVE  /\ FS!MkdirAll(s, d) \in Stores /\ FS!MkdirAll(s, d).now[d] # Absent
           /\ \A q \in Tree \ {d} : FS!MkdirAll(s, d).now[q] = s.now[q]
           /\ FS!MkdirAll(s, d).kept = s.kept
           /\ s.now[d] # Absent => FS!MkdirAll(s, d) = s
<1>1. Dir \in Contents /\ Dir # Absent
  BY NamesAssumption DEF Contents
<1> QED BY <1>1, PutIs DEF FS!MkdirAll, FS!Present

LEMMA SyncIs ==
    ASSUME NEW s \in Stores, NEW d \in Tree
    PROVE  /\ FS!SyncDir(s, d) \in Stores /\ FS!SyncDir(s, d).now = s.now
           /\ \A p \in Tree : FS!SyncDir(s, d).kept[p] = IF p # "root" /\ Above[p] = d THEN s.now[p] ELSE s.kept[p]
<1> DEFINE k == [p \in Tree |-> IF p \in FS!Children(d) THEN s.now[p] ELSE s.kept[p]]
           t == [s EXCEPT !.kept = k]
<1>1. k \in [Tree -> Contents]
  BY DEF Stores
<1>2. FS!SyncDir(s, d) = t
  BY DEF FS!SyncDir
<1>3. \A p \in Tree : k[p] = IF p # "root" /\ Above[p] = d THEN s.now[p] ELSE s.kept[p]
  BY DEF FS!Children
<1> HIDE DEF k
<1>4. t \in Stores /\ t.now = s.now /\ t.kept = k
  BY <1>1 DEF Stores
<1> QED BY <1>2, <1>3, <1>4

RunState == [step : {"start"} \cup Active \cup Ended, syncing : BOOLEAN,
             body : Bodies \cup {Absent}, seen : Observations \cup {Absent}]

\* TypeOK, with the sets named.
LEMMA Typed == TypeOK <=> store \in Stores /\ run \in [Runs -> RunState] /\ outages \in 0..MaxOutages
BY DEF TypeOK, Stores, RunState

\* What Goto makes of a run.
LEMMA GotoIs ==
    ASSUME IInv, NEW r \in Runs, NEW t \in {"start"} \cup Active \cup Ended, Goto(r, t)
    PROVE  /\ run' \in [Runs -> RunState] /\ \A q \in Runs \ {r} : run'[q] = run[q]
           /\ run'[r].step = t /\ run'[r].syncing = FALSE
           /\ run'[r].body = run[r].body /\ run'[r].seen = run[r].seen
<1> DEFINE new == [run[r] EXCEPT !.step = t, !.syncing = FALSE]
<1>1. run \in [Runs -> RunState] /\ run[r] \in RunState
  BY Typed DEF IInv
<1>2. run' = [run EXCEPT ![r] = new]
  BY <1>1 DEF Goto
<1>3. new \in RunState /\ new.step = t /\ new.syncing = FALSE /\ new.body = run[r].body /\ new.seen = run[r].seen
  BY <1>1 DEF RunState
<1> HIDE DEF new
<1> QED BY <1>1, <1>2, <1>3

(***************************************************************************)
(* Where a step of the run under way leaves the invariant.                 *)
(***************************************************************************)
LEMMA ActiveStep ==
    ASSUME IInv, NEW r \in Runs, run[r].step \in Active,
           run' \in [Runs -> RunState], \A q \in Runs \ {r} : run'[q] = run[q],
           run'[r].step # "start", run'[r].syncing => run'[r].step \in Files, store' \in Stores, outages' = outages, Rooted(store'),
           run'[r].step \in Active => Progress(r, run'[r], store'),
           run'[r].step = "answered" =>
              /\ Sealed(r, run'[r], store') /\ Answering(r, run'[r], store')
              /\ store'.now[run'[r].body] # Absent,
           \/ store'.now["result"] = store.now["result"]
           \/ store'.now["result"].observation.by = r
    PROVE  IInv'
<1>1. TypeOK'
  BY Typed DEF IInv, TypeOK, Stores, RunState
<1>2. \A q \in Runs \ {r} : run[q].step \notin Active
  BY DEF IInv, OneActive
<1>3. OneActive' /\ Writing' /\ Rooted(store)'
  BY <1>2 DEF IInv, OneActive, Writing, Rooted
<1>4. \A q \in Runs : run'[q].step \in Active => Progress(q, run'[q], store')
  BY <1>2
<1>5. ASSUME NEW q \in Runs
      PROVE  AnswerInv(q)'
  <2>1. CASE q = r
    <3>1. run'[r].step = "answered" => NoneActive'
      BY <1>2, Names DEF NoneActive
    <3> QED BY <2>1, <3>1 DEF AnswerInv, At
  <2>2. CASE q # r /\ At(q, "answered")
    <3>1. ~NoneActive
      BY DEF NoneActive
    <3>2. AnswerInv(q)
      BY DEF IInv
    <3>3. ~Answering(q, run[q], store) /\ outages # 0
      BY <2>2, <3>1, <3>2 DEF AnswerInv
    <3>4. store'.now["result"].observation.by = r => store'.now["result"].observation # Seen(q, run[q])
      BY <2>2 DEF Seen
    <3>5. ~Answering(q, run[q], store')
      BY <3>3, <3>4 DEF Answering
    <3> QED BY <2>2, <3>3, <3>5 DEF AnswerInv
  <2>3. CASE q # r /\ ~At(q, "answered")
    BY <2>3 DEF AnswerInv, At
  <2> QED BY <2>1, <2>2, <2>3
<1> QED BY <1>1, <1>3, <1>4, <1>5 DEF IInv

\* The run ends without an answer, with no file of its own touched.
LEMMA EndKeeps ==
    ASSUME IInv, NEW r \in Runs, NEW t \in {"failed", "dead"}, run[r].step \in Active, Goto(r, t),
           store' \in Stores, outages' = outages, store'.kept = store.kept,
           \A p \in Files : store'.now[p] = store.now[p],
           store.now["evidence"] # Absent => store'.now["evidence"] # Absent
    PROVE  IInv'
<1>1. t \in Ended
  BY DEF Ended
<1>2. Rooted(store')
  BY DEF IInv, Rooted, Files
<1>3. store'.now["result"] = store.now["result"]
  BY DEF Files
<1>4. /\ run' \in [Runs -> RunState] /\ \A q \in Runs \ {r} : run'[q] = run[q]
      /\ run'[r].step = t /\ run'[r].syncing = FALSE
  BY <1>1, GotoIs
<1>5. run'[r].step # "start" /\ run'[r].step # "answered" /\ run'[r].step \notin Active
  BY <1>4, Names
<1> QED BY <1>2, <1>3, <1>4, <1>5, ActiveStep

LEMMA StartKeeps ==
    ASSUME ~Overlapping, IInv, NEW r \in Runs, Start(r)
    PROVE  IInv'
<1>1. NoneActive /\ run[r].step = "start" /\ outages' = outages
  BY DEF Start, NoneActive, At
<1>2. store \in Stores
  BY Typed DEF IInv
<1>3. CASE \E p \in FS!Children("root") : FS!Present(store, p)
  <2>1. Goto(r, "failed") /\ store' = store
    BY <1>3 DEF Start
  <2>2. /\ run' \in [Runs -> RunState] /\ \A q \in Runs \ {r} : run'[q] = run[q]
        /\ run'[r].step = "failed" /\ run'[r].syncing = FALSE
    BY <2>1, GotoIs DEF Ended
  <2>3. NoneActive'
    BY <1>1, <2>2, Names DEF NoneActive
  <2>4. TypeOK'
    BY <1>1, <1>2, <2>1, <2>2 DEF IInv, TypeOK, Stores, RunState
  <2>5. \A q \in Runs : AnswerInv(q)'
    BY <1>1, <2>1, <2>2, <2>3 DEF IInv, AnswerInv, At
  <2> QED BY <2>1, <2>2, <2>3, <2>4, <2>5 DEF IInv, OneActive, NoneActive, Writing
<1>4. CASE \A p \in FS!Children("root") : ~FS!Present(store, p)
  <2>1. Goto(r, "job") /\ store' = FS!MkdirAll(store, "root")
    BY <1>4 DEF Start
  <2>2. /\ run' \in [Runs -> RunState] /\ \A q \in Runs \ {r} : run'[q] = run[q]
        /\ run'[r].step = "job" /\ run'[r].syncing = FALSE
    BY <2>1, GotoIs, Names
  <2>3. /\ store' \in Stores /\ store'.kept = store.kept
        /\ \A p \in Tree \ {"root"} : store'.now[p] = store.now[p]
    BY <1>2, <2>1, MkdirIs, Names
  <2>4. \A p \in {"job", "result", "evidence"} : store.now[p] = Absent
    BY <1>4, Names DEF FS!Children, FS!Present, Files
  <2>5. \A p \in Files : store.now[p] = Absent /\ p \in Tree \ {"root"}
    BY <2>4, Names DEF IInv, Rooted, Files
  <2>6. Progress(r, run'[r], store')
    BY <2>2, <2>3, <2>5 DEF Progress, Done, After, Files
  <2>7. Rooted(store')
    BY <2>3, <2>5, Names DEF IInv, Rooted, Files
  <2>8. TypeOK'
    BY <1>1, <2>2, <2>3 DEF IInv, TypeOK, Stores, RunState
  <2>9. OneActive' /\ Writing'
    BY <1>1, <2>2 DEF IInv, OneActive, NoneActive, Writing
  <2>10. store.now["result"] = Absent /\ store'.now["result"] = Absent
    BY <2>3, <2>5 DEF Files
  <2>11. \A q \in Runs : AnswerInv(q)'
    BY <1>1, <2>2, <2>10, Names DEF IInv, AnswerInv, At, Answering
  <2>12. \A q \in Runs : run'[q].step \in Active => Progress(q, run'[q], store')
    BY <1>1, <2>2, <2>6 DEF NoneActive
  <2> QED BY <2>7, <2>8, <2>9, <2>11, <2>12 DEF IInv, Rooted
<1> QED BY <1>3, <1>4

LEMMA FetchKeeps ==
    ASSUME IInv, NEW r \in Runs, Fetch(r)
    PROVE  IInv'
<1>1. run[r].step = "fetch" /\ run[r].step \in Active /\ store' = store /\ outages' = outages
  BY Names DEF Fetch, At
<1>2. store \in Stores /\ run \in [Runs -> RunState] /\ run[r] \in RunState /\ Rooted(store)
  BY Typed DEF IInv
<1>3. CASE Goto(r, "failed")
  BY <1>1, <1>2, <1>3, EndKeeps
<1>4. ASSUME NEW b \in Bodies, run' = [run EXCEPT ![r].step = Following[@], ![r].body = b]
      PROVE  IInv'
  <2> DEFINE new == [run[r] EXCEPT !.step = "blob", !.body = b]
  <2>1. run' = [run EXCEPT ![r] = new]
    <3>1. Following[run[r].step] = "blob"
      BY <1>1 DEF Following
    <3>2. run' = [run EXCEPT ![r].step = "blob", ![r].body = b]
      BY <1>4, <3>1
    <3> QED BY <1>2, <3>2
  <2>2. new \in RunState /\ new.step = "blob" /\ new.syncing = run[r].syncing /\ new.body = b
    BY <1>2, Names DEF RunState
  <2> HIDE DEF new
  <2>3. run' \in [Runs -> RunState] /\ run'[r] = new /\ \A q \in Runs \ {r} : run'[q] = run[q]
    BY <1>2, <2>1, <2>2
  <2>4. Progress(r, run[r], store)
    BY <1>1 DEF IInv
  <2>5. run[r].syncing = FALSE
    BY <1>1, <1>2, <2>4 DEF Progress, Files, RunState
  <2>6. Progress(r, new, store)
    BY <1>1, <2>2, <2>4, <2>5 DEF Progress, Done, Said, Files, After
  <2> QED BY <1>1, <1>2, <2>2, <2>3, <2>5, <2>6, ActiveStep, Names
<1> QED BY <1>3, <1>4 DEF Fetch

LEMMA EvidenceDirsIs ==
    ASSUME IInv
    PROVE  /\ EvidenceDirs \in Stores /\ EvidenceDirs.kept = store.kept
           /\ EvidenceDirs.now["evidence"] # Absent
           /\ \A q \in Tree \ {"evidence", "cas"} : EvidenceDirs.now[q] = store.now[q]
<1> DEFINE s == FS!MkdirAll(store, "evidence")
<1>1. store \in Stores
  BY Typed DEF IInv
<1>2. /\ s \in Stores /\ s.now["evidence"] # Absent /\ s.kept = store.kept
      /\ \A q \in Tree \ {"evidence"} : s.now[q] = store.now[q]
  BY <1>1, MkdirIs, Names
<1> HIDE DEF s
<1>3. /\ FS!MkdirAll(s, "cas") \in Stores /\ FS!MkdirAll(s, "cas").kept = s.kept
      /\ \A q \in Tree \ {"cas"} : FS!MkdirAll(s, "cas").now[q] = s.now[q]
  BY <1>2, MkdirIs, Names
<1>4. EvidenceDirs = FS!MkdirAll(s, "cas")
  BY DEF EvidenceDirs, s
<1>5. "evidence" \in Tree \ {"cas"}
  BY Names
<1> QED BY <1>2, <1>3, <1>4, <1>5

LEMMA PutBlobKeeps ==
    ASSUME IInv, NEW r \in Runs, PutBlob(r)
    PROVE  IInv'
<1> DEFINE b == run[r].body
<1>1. run[r].step = "blob" /\ run[r].step \in Active /\ outages' = outages
  BY Names DEF PutBlob, At
<1>2. Progress(r, run[r], store)
  BY <1>1 DEF IInv
<1>3. b \in Bodies /\ b \in Tree /\ b \in Contents
  BY <1>1, <1>2, Names DEF Progress, Contents
<1>4. Goto(r, "cbor")
  BY <1>1 DEF PutBlob, Advance, Following
<1>5. /\ run' \in [Runs -> RunState] /\ \A q \in Runs \ {r} : run'[q] = run[q]
      /\ run'[r].step = "cbor" /\ run'[r].syncing = FALSE /\ run'[r].body = b
  BY <1>4, GotoIs, Names
<1>6. store' = FS!Put(EvidenceDirs, b, b)
  BY DEF PutBlob
<1>7. /\ store' \in Stores /\ store'.kept = EvidenceDirs.kept /\ store'.now[b] = b
      /\ \A q \in Tree \ {b} : store'.now[q] = EvidenceDirs.now[q]
  BY <1>3, <1>6, EvidenceDirsIs, PutIs
<1>8. /\ \A p \in Files : store'.now[p] = store.now[p]
      /\ store'.now["evidence"] # Absent /\ store'.kept = store.kept
  BY <1>3, <1>7, EvidenceDirsIs, Names DEF Files
<1>9. Rooted(store')
  BY <1>8 DEF IInv, Rooted
<1> HIDE DEF b
<1>10. Progress(r, run'[r], store')
  BY <1>1, <1>2, <1>3, <1>5, <1>7, <1>8 DEF Progress, Done, Said, Files, After
<1> QED BY <1>1, <1>5, <1>7, <1>8, <1>9, <1>10, ActiveStep DEF Files

\* What the run writes is what Said promises of the file.
LEMMA ContentIs ==
    ASSUME IInv, NEW r \in Runs, run[r].step \in Files
    PROVE  /\ Content(r) = Said(r, run[r], run[r].step) /\ Content(r) \in Contents /\ Content(r) # Absent
           /\ run[r].step = "result" => Content(r).observation = Seen(r, run[r])
<1>1. run[r].step \in Active /\ Progress(r, run[r], store)
  BY Names DEF IInv, Files
<1>2. run[r].step # "job" => run[r].body \in Bodies
  BY <1>1 DEF Progress, Files
<1>3. CASE run[r].step = "job"
  BY <1>3, NamesAssumption DEF Content, Said, At, Contents
<1>4. CASE run[r].step \in {"cbor", "json"}
  <2>1. Content(r) = Seen(r, run[r]) /\ Said(r, run[r], run[r].step) = Seen(r, run[r])
    BY <1>4 DEF Content, Said, At, Observation, Seen
  <2>2. Seen(r, run[r]) \in [by : Runs, body : Bodies]
    BY <1>2, <1>4 DEF Seen
  <2> QED BY <1>4, <2>1, <2>2, NamesAssumption DEF Contents, Observations
<1>5. CASE run[r].step = "ref"
  BY <1>2, <1>5, NamesAssumption DEF Content, Said, At, Contents
<1>6. CASE run[r].step = "result"
  <2> DEFINE c == [observation |-> Seen(r, run[r]), decision |-> Decision[run[r].body]]
  <2>1. run[r].seen = Seen(r, run[r])
    BY <1>1, <1>6 DEF Progress
  <2>2. Content(r) = c /\ Said(r, run[r], run[r].step) = c
    BY <1>6, <2>1 DEF Content, Said, At
  <2>3. Seen(r, run[r]) \in [by : Runs, body : Bodies] /\ Decision[run[r].body] \in BOOLEAN
    BY <1>2, <1>6, WorkerAssumption DEF Seen
  <2>4. c \in [observation : [by : Runs, body : Bodies], decision : BOOLEAN] /\ c.observation = Seen(r, run[r])
    BY <2>3
  <2> QED BY <2>2, <2>4, NamesAssumption DEF Contents, Observations
<1> QED BY <1>3, <1>4, <1>5, <1>6 DEF Files

LEMMA CommitKeeps ==
    ASSUME IInv, NEW r \in Runs, Commit(r)
    PROVE  IInv'
<1> DEFINE p == run[r].step
           d == Above[p]
           s == FS!MkdirAll(store, d)
           c == Content(r)
           new == [run[r] EXCEPT !.syncing = TRUE]
<1>1. p \in Files /\ ~run[r].syncing /\ outages' = outages /\ p \in Active /\ p \in Tree
  BY Names DEF Commit, Files
<1>2. Progress(r, run[r], store) /\ store \in Stores /\ run \in [Runs -> RunState] /\ run[r] \in RunState
  BY <1>1, Typed DEF IInv
<1>3. d \in {"root", "evidence"} /\ (p \in {"cbor", "json", "ref"} => d = "evidence")
  BY <1>1, Names DEF Files
<1>4. /\ s \in Stores /\ s.kept = store.kept /\ s.now[d] # Absent
      /\ \A q \in Tree \ {d} : s.now[q] = store.now[q]
  <2>1. d \in Tree
    BY <1>3, Names
  <2> QED BY <1>2, <2>1, MkdirIs
<1>5. c = Said(r, run[r], p) /\ c \in Contents /\ c # Absent /\ (p = "result" => c.observation = Seen(r, run[r]))
  BY <1>1, ContentIs
<1>6. store' = FS!Put(s, p, c) /\ run' = [run EXCEPT ![r] = new]
  BY <1>2 DEF Commit
<1>7. new \in RunState /\ new.step = p /\ new.syncing = TRUE /\ new.body = run[r].body /\ new.seen = run[r].seen
  BY <1>2 DEF RunState
<1> HIDE DEF p, d, s, c, new
<1>8. run' \in [Runs -> RunState] /\ run'[r] = new /\ \A q \in Runs \ {r} : run'[q] = run[q]
  BY <1>2, <1>6, <1>7
<1>9. /\ store' \in Stores /\ store'.kept = store.kept /\ store'.now[p] = c
      /\ \A q \in Tree \ {p, d} : store'.now[q] = store.now[q]
      /\ p # d => store'.now[d] # Absent
  <2>1. /\ store' \in Stores /\ store'.now[p] = c /\ store'.kept = s.kept
        /\ \A q \in Tree \ {p} : store'.now[q] = s.now[q]
    BY <1>1, <1>4, <1>5, <1>6, PutIs
  <2>2. p \in Tree /\ d \in Tree
    BY <1>1, <1>3, Names
  <2> QED BY <1>4, <2>1, <2>2
<1>10. /\ \A q \in Files \ {p} : store'.now[q] = store.now[q]
       /\ \A b \in Bodies : store'.now[b] = store.now[b]
  BY <1>1, <1>3, <1>9, Names DEF Files
<1>11. store.now[p] = Absent
  BY <1>1, <1>2 DEF Progress, Done, Files, After, p
<1>12. Rooted(store')
  <2>1. store.now["evidence"] # Absent => store'.now["evidence"] # Absent
    BY <1>1, <1>3, <1>9, Names DEF Files
  <2>2. p \in {"cbor", "json", "ref"} => store'.now["evidence"] # Absent
    BY <1>3, <1>9
  <2>3. store.kept[p] = Absent
    BY <1>1, <1>11 DEF IInv, Rooted
  <2>4. Rooted(store)
    BY DEF IInv
  <2> QED BY <1>9, <1>10, <2>1, <2>2, <2>3, <2>4 DEF Rooted, Files
<1>13. Progress(r, new, store')
  <2>1. \A q \in Files : Said(r, new, q) = Said(r, run[r], q)
    BY <1>7 DEF Said, Seen, Files
  <2>2. \A q \in Files \ {p} : Done(new, q) <=> Done(run[r], q)
    BY <1>7 DEF Done, p
  <2>3. Done(new, p) /\ p \notin After[p]
    BY <1>1, <1>7 DEF Done, Files, After
  <2>4. \A q \in Files : IF Done(new, q) THEN store'.now[q] = Said(r, new, q) ELSE store'.now[q] = Absent
    BY <1>2, <1>5, <1>9, <1>10, <2>1, <2>2, <2>3 DEF Progress
  <2>5. \A q \in Files : new.step \in After[q] => store'.kept[q] = store'.now[q]
    BY <1>2, <1>7, <1>9, <1>10, <2>3 DEF Progress, p
  <2>6. new.step \notin {"job", "fetch"} => new.body \in Bodies
    BY <1>2, <1>7 DEF Progress, p
  <2>7. new.step \in After["job"] \ {"fetch", "blob"} => store'.now[new.body] = new.body
    BY <1>2, <1>7, <1>10, <2>6 DEF Progress, p, After
  <2>8. /\ new.step \in {"reload", "result"} => new.body \in Parses
        /\ new.step = "result" => new.seen = Seen(r, new)
    BY <1>2, <1>7 DEF Progress, p, Seen
  <2> QED BY <1>1, <1>7, <2>4, <2>5, <2>6, <2>7, <2>8 DEF Progress
<1>14. \/ store'.now["result"] = store.now["result"]
       \/ store'.now["result"].observation.by = r
  BY <1>5, <1>9, <1>10 DEF Seen, Files
<1>15. new.step \in Files /\ new.step \in Active /\ new.step # "start" /\ new.step # "answered"
  BY <1>1, <1>7 DEF Files
<1> QED BY <1>1, <1>8, <1>9, <1>12, <1>13, <1>14, <1>15, ActiveStep DEF p

LEMMA SyncKeeps ==
    ASSUME IInv, NEW r \in Runs, Sync(r)
    PROVE  IInv'
<1> DEFINE p == run[r].step
           t == Following[p]
<1>1. p \in Files /\ run[r].syncing /\ p \in Active /\ outages' = outages
  BY Names DEF Sync, IInv, Writing, Files
<1>2. Progress(r, run[r], store) /\ store \in Stores /\ run[r] \in RunState
  BY <1>1, Typed DEF IInv
<1>3. /\ p = "job" => t = "fetch"
      /\ p = "cbor" => t = "json"
      /\ p = "json" => t = "ref"
      /\ p = "ref" => t = "parse"
      /\ p = "result" => t = "answered"
  BY DEF Following
<1>4. t \in {"start"} \cup Active \cup Ended
  BY <1>1, <1>3, Names DEF Files, Ended
<1>5. Goto(r, t) /\ store' = FS!SyncDir(store, Above[p])
  BY DEF Sync, Advance
<1>6. Above[p] \in Tree
  BY <1>1, Names DEF Files
<1> HIDE DEF t
<1>7. /\ run' \in [Runs -> RunState] /\ \A q \in Runs \ {r} : run'[q] = run[q]
      /\ run'[r].step = t /\ run'[r].syncing = FALSE
      /\ run'[r].body = run[r].body /\ run'[r].seen = run[r].seen
  BY <1>4, <1>5, GotoIs
<1>8. /\ store' \in Stores /\ store'.now = store.now
      /\ \A q \in Tree : store'.kept[q] = IF q # "root" /\ Above[q] = Above[p] THEN store.now[q] ELSE store.kept[q]
  BY <1>2, <1>5, <1>6, SyncIs
<1>9. /\ store'.kept[p] = store.now[p]
      /\ \A q \in Files : store'.kept[q] \in {store.now[q], store.kept[q]}
      /\ p = "result" => store'.kept["evidence"] = store.now["evidence"]
  BY <1>1, <1>8, Names DEF Files
<1>10. Rooted(store')
  BY <1>8, <1>9 DEF IInv, Rooted
<1>11. \A q \in Files : Said(r, run'[r], q) = Said(r, run[r], q)
  BY <1>7 DEF Said, Seen, Files
<1>12. \A q \in Files : p \in After[q] => store'.kept[q] = store'.now[q]
  BY <1>2, <1>8, <1>9 DEF Progress
<1>13. \A q \in Files : IF Done(run[r], q) THEN store'.now[q] = Said(r, run'[r], q) ELSE store'.now[q] = Absent
  BY <1>2, <1>8, <1>11 DEF Progress
<1>14. CASE p # "result"
  <2>1. t \in Active /\ t \notin {"answered", "start", "reload", "result", "blob", "job"}
    BY <1>1, <1>3, <1>14, Names DEF Files
  <2>2. /\ t # "fetch" => p \notin {"job", "fetch"} /\ p \in After["job"] \ {"fetch", "blob"}
        /\ \A q \in Files : t \in After[q] <=> p \in After[q] \/ p = q
    BY <1>1, <1>3, <1>14 DEF Files, After
  <2>3. \A q \in Files : Done(run'[r], q) <=> Done(run[r], q)
    BY <1>1, <1>7, <2>2 DEF Done
  <2>4. /\ t # "fetch" => run'[r].body \in Bodies /\ store'.now[run'[r].body] = run'[r].body
        /\ t \in After["job"] \ {"fetch", "blob"} => t # "fetch"
    BY <1>2, <1>7, <1>8, <2>2 DEF Progress
  <2>5. \A q \in Files : t \in After[q] => store'.kept[q] = store'.now[q]
    BY <1>8, <1>9, <1>12, <2>2
  <2>6. Progress(r, run'[r], store')
    BY <1>7, <1>13, <2>1, <2>3, <2>4, <2>5 DEF Progress
  <2> QED BY <1>1, <1>7, <1>8, <1>10, <2>1, <2>6, ActiveStep
<1>15. CASE p = "result"
  <2>1. t = "answered"
    BY <1>3, <1>15
  <2>2. \A q \in Files : Done(run[r], q) /\ (p \in After[q] \/ q = p)
    BY <1>1, <1>15 DEF Done, Files, After
  <2>3. \A q \in Files : store'.now[q] = Said(r, run'[r], q) /\ store'.kept[q] = store'.now[q]
    BY <1>8, <1>9, <1>12, <1>13, <2>2
  <2>4. run'[r].body \in Bodies \cap Parses /\ store'.now[run'[r].body] = run'[r].body
    BY <1>2, <1>7, <1>8, <1>15 DEF Progress, After
  <2>5. Sealed(r, run'[r], store')
    BY <1>8, <1>9, <1>15, <2>3, <2>4 DEF Sealed
  <2>6. store'.now["result"] # Absent /\ store'.now["result"].observation = Seen(r, run'[r])
    <3>1. store'.now["result"] = [observation |-> Seen(r, run'[r]), decision |-> Decision[run'[r].body]]
      BY <2>3 DEF Said, Files
    <3>2. Seen(r, run'[r]) \in [by : Runs, body : Bodies] /\ Decision[run'[r].body] \in BOOLEAN
      BY <2>4, WorkerAssumption DEF Seen
    <3>3. store'.now["result"] \in [observation : [by : Runs, body : Bodies], decision : BOOLEAN]
      BY <3>1, <3>2
    <3> QED BY <3>1, <3>3, NamesAssumption
  <2>7. store'.now[run'[r].body] # Absent
    BY <2>4, NamesAssumption
  <2>8. t \notin Active
    BY <2>1, Names
  <2> QED BY <1>1, <1>7, <1>8, <1>10, <2>1, <2>5, <2>6, <2>7, <2>8, ActiveStep DEF Answering
<1> QED BY <1>14, <1>15

LEMMA FailureKeeps ==
    ASSUME IInv, NEW r \in Runs, WriteFails(r) \/ Crash(r)
    PROVE  IInv'
<1>1. /\ \E t \in {"failed", "dead"} : Goto(r, t)
      /\ run[r].step \in Active /\ outages' = outages
  BY Names DEF WriteFails, Crash, Files
<1>2. \/ store' = store
      \/ store' = EvidenceDirs
      \/ store' = FS!Put(store, "temp", Leftover)
  BY DEF WriteFails, Crash
<1>3. store \in Stores /\ Leftover \in Contents
  BY Typed DEF IInv, Contents
<1>4. /\ store' \in Stores /\ store'.kept = store.kept
      /\ \A q \in Files : store'.now[q] = store.now[q]
      /\ store.now["evidence"] # Absent => store'.now["evidence"] # Absent
  <2>1. CASE store' = store
    BY <1>3, <2>1
  <2>2. CASE store' = EvidenceDirs
    BY <2>2, EvidenceDirsIs, Names DEF Files
  <2>3. CASE store' = FS!Put(store, "temp", Leftover)
    <3>1. "temp" \in Tree /\ "evidence" \in Tree /\ Files \subseteq Tree /\ "temp" \notin Files
      BY Names DEF Files
    <3>2. /\ FS!Put(store, "temp", Leftover) \in Stores /\ FS!Put(store, "temp", Leftover).kept = store.kept
          /\ \A q \in Tree \ {"temp"} : FS!Put(store, "temp", Leftover).now[q] = store.now[q]
      BY <1>3, <3>1, PutIs
    <3> QED BY <2>3, <3>1, <3>2
  <2> QED BY <1>2, <2>1, <2>2, <2>3
<1> QED BY <1>1, <1>4, EndKeeps

LEMMA ParseKeeps ==
    ASSUME IInv, NEW r \in Runs, Parse(r)
    PROVE  IInv'
<1>1. run[r].step = "parse" /\ run[r].step \in Active /\ store' = store /\ outages' = outages
  BY Names DEF Parse, At
<1>2. store \in Stores /\ run[r] \in RunState /\ Rooted(store) /\ Progress(r, run[r], store)
  BY <1>1, Typed DEF IInv
<1>3. CASE Goto(r, "failed")
  BY <1>1, <1>2, <1>3, EndKeeps
<1>4. CASE run[r].body \in Parses /\ Goto(r, "reload")
  <2>1. /\ run' \in [Runs -> RunState] /\ \A q \in Runs \ {r} : run'[q] = run[q]
        /\ run'[r].step = "reload" /\ run'[r].syncing = FALSE
        /\ run'[r].body = run[r].body /\ run'[r].seen = run[r].seen
    BY <1>4, GotoIs, Names
  <2>2. Progress(r, run'[r], store)
    BY <1>1, <1>2, <1>4, <2>1 DEF Progress, Done, Said, Seen, Files, After
  <2> QED BY <1>1, <1>2, <2>1, <2>2, ActiveStep, Names
<1>5. Following["parse"] = "reload"
  BY DEF Following
<1> QED BY <1>1, <1>3, <1>4, <1>5 DEF Parse, Advance

LEMMA ReloadKeeps ==
    ASSUME IInv, NEW r \in Runs, Reload(r)
    PROVE  IInv'
<1>1. run[r].step = "reload" /\ run[r].step \in Active /\ store' = store /\ outages' = outages
  BY Names DEF Reload, At
<1>2. /\ store \in Stores /\ run \in [Runs -> RunState] /\ run[r] \in RunState
      /\ Rooted(store) /\ Progress(r, run[r], store)
  BY <1>1, Typed DEF IInv
<1>3. CASE Goto(r, "failed")
  BY <1>1, <1>2, <1>3, EndKeeps
<1>4. CASE run' = [run EXCEPT ![r].step = Following[@], ![r].seen = Now("cbor")]
  <2> DEFINE seen == Seen(r, run[r])
             new == [run[r] EXCEPT !.step = "result", !.seen = seen]
  <2>1. Now("cbor") = seen
    BY <1>1, <1>2 DEF Progress, Done, Said, Files, After, Now
  <2>2. seen \in Observations
    BY <1>1, <1>2 DEF Progress, Seen, Observations
  <2> HIDE DEF seen
  <2>3. run' = [run EXCEPT ![r] = new]
    <3>1. Following[run[r].step] = "result"
      BY <1>1 DEF Following
    <3>2. run' = [run EXCEPT ![r].step = "result", ![r].seen = seen]
      BY <1>4, <2>1, <3>1
    <3> QED BY <1>2, <3>2
  <2>4. /\ new \in RunState /\ new.step = "result" /\ new.syncing = run[r].syncing
        /\ new.body = run[r].body /\ new.seen = seen
    BY <1>2, <2>2, Names DEF RunState
  <2> HIDE DEF new
  <2>5. run' \in [Runs -> RunState] /\ run'[r] = new /\ \A q \in Runs \ {r} : run'[q] = run[q]
    BY <1>2, <2>3, <2>4
  <2>6. run[r].syncing = FALSE
    BY <1>1, <1>2 DEF Progress, Files, RunState
  <2>7. Seen(r, new) = seen
    BY <2>4 DEF seen, Seen
  <2>8. \A p \in Files : Said(r, new, p) = Said(r, run[r], p)
    BY <2>4 DEF Said, Seen, Files
  <2>9. \A p \in Files : /\ Done(new, p) <=> Done(run[r], p)
                         /\ new.step \in After[p] <=> run[r].step \in After[p]
    BY <1>1, <2>4, <2>6 DEF Done, Files, After
  <2>10. Progress(r, new, store)
    BY <1>1, <1>2, <2>4, <2>6, <2>7, <2>8, <2>9 DEF Progress, After
  <2> QED BY <1>1, <1>2, <2>4, <2>5, <2>6, <2>10, ActiveStep, Names
<1> QED BY <1>3, <1>4 DEF Reload

\* A sealed answer is there in full.
LEMMA SealedHolds ==
    ASSUME NEW r \in Runs, NEW e, NEW s, Sealed(r, e, s)
    PROVE  /\ s.now["job"] = Job /\ s.now["job"] # Absent
           /\ s.now["cbor"] = Seen(r, e) /\ s.now["cbor"] # Absent /\ s.now["cbor"].body = e.body
           /\ s.now["result"] # Absent /\ s.now["result"].observation = Seen(r, e)
           /\ s.now["result"].decision = Decision[e.body]
<1> DEFINE c == [observation |-> Seen(r, e), decision |-> Decision[e.body]]
<1>1. s.now["job"] = Job /\ s.now["cbor"] = Seen(r, e) /\ s.now["result"] = c
  BY DEF Sealed, Said, Files
<1>2. Seen(r, e) \in [by : Runs, body : Bodies] /\ Decision[e.body] \in BOOLEAN /\ Seen(r, e).body = e.body
  BY WorkerAssumption DEF Sealed, Seen
<1>3. c \in [observation : [by : Runs, body : Bodies], decision : BOOLEAN]
      /\ c.observation = Seen(r, e) /\ c.decision = Decision[e.body]
  BY <1>2
<1> QED BY <1>1, <1>2, <1>3, NamesAssumption

\* What a power failure leaves: an entry that was not certain may be undone, and
\* an entry is there only below directories that are.
LEMMA OutageIs ==
    ASSUME IInv, Outage
    PROVE  /\ store' \in Stores /\ store'.kept = store'.now
           /\ \A p \in Files : store'.now[p] \in {store.now[p], Absent}
           /\ \A p \in {"cbor", "json", "ref"} : store'.now[p] # Absent => store'.now["evidence"] # Absent
           /\ store'.now["result"] # Absent => store'.now["root"] # Absent
           /\ /\ \A p \in Files : store.kept[p] = store.now[p]
              /\ store.kept["evidence"] = store.now["evidence"]
              /\ store.now["evidence"] # Absent /\ store'.now["root"] # Absent
              => \A p \in Files : store'.now[p] = store.now[p]
<1> DEFINE Left(lost) == [p \in Tree |-> IF p \in lost THEN store.kept[p] ELSE store.now[p]]
           Mounted(tree) == [p \in Tree |-> IF FS!Reachable(tree, p) THEN tree[p] ELSE Absent]
<1>1. PICK lost \in SUBSET Tree : store' = [now |-> Mounted(Left(lost)), kept |-> Mounted(Left(lost))]
  BY DEF Outage, FS!Survivors
<1>2. store \in Stores /\ Rooted(store) /\ Absent \in Contents
  BY Typed DEF IInv, Contents
<1> DEFINE left == Left(lost)
           tree == Mounted(left)
<1>3. left \in [Tree -> Contents]
  BY <1>2 DEF Stores
<1>4. \A p \in Tree : left[p] \in {store.now[p], store.kept[p]}
  OBVIOUS
<1> HIDE DEF left
<1>5. tree \in [Tree -> Contents]
  BY <1>2, <1>3
<1>6. \A p \in Tree : tree[p] = IF FS!Reachable(left, p) THEN left[p] ELSE Absent
  OBVIOUS
<1>7. store' = [now |-> tree, kept |-> tree]
  BY <1>1 DEF left
<1> HIDE DEF tree
<1>8. store' \in Stores /\ store'.now = tree /\ store'.kept = tree
  BY <1>5, <1>7 DEF Stores
<1>9. Files \subseteq Tree /\ "evidence" \in Tree /\ "root" \in Tree
  BY Names
<1>10. \A p \in Files : tree[p] \in {store.now[p], Absent}
  BY <1>2, <1>4, <1>6, <1>9 DEF Rooted
<1>11. /\ FS!Reachable(left, "root") <=> left["root"] # Absent
       /\ FS!Reachable(left, "evidence") <=> left["evidence"] # Absent /\ left["root"] # Absent
       /\ \A p \in {"job", "result"} : FS!Reachable(left, p) <=> left[p] # Absent /\ left["root"] # Absent
       /\ \A p \in {"cbor", "json", "ref"} :
            FS!Reachable(left, p) <=> left[p] # Absent /\ left["evidence"] # Absent /\ left["root"] # Absent
  BY Names DEF FS!Reachable
<1>12. /\ \A p \in {"cbor", "json", "ref"} : tree[p] # Absent => tree["evidence"] # Absent
       /\ tree["result"] # Absent => tree["root"] # Absent
  BY <1>6, <1>9, <1>11 DEF Files
<1>13. ASSUME \A p \in Files : store.kept[p] = store.now[p],
              store.kept["evidence"] = store.now["evidence"],
              store.now["evidence"] # Absent, store'.now["root"] # Absent
       PROVE  \A p \in Files : store'.now[p] = store.now[p]
  <2>1. left["root"] # Absent
    BY <1>6, <1>8, <1>9, <1>13
  <2>2. left["evidence"] # Absent
    BY <1>4, <1>9, <1>13
  <2>3. \A p \in Files : left[p] = store.now[p]
    BY <1>4, <1>9, <1>13
  <2>4. \A p \in Files : FS!Reachable(left, p) <=> left[p] # Absent
    BY <1>11, <2>1, <2>2 DEF Files
  <2> QED BY <1>6, <1>8, <1>9, <2>3, <2>4
<1>14. /\ \A p \in Files : store'.now[p] \in {store.now[p], Absent}
       /\ \A p \in {"cbor", "json", "ref"} : store'.now[p] # Absent => store'.now["evidence"] # Absent
       /\ store'.now["result"] # Absent => store'.now["root"] # Absent
  BY <1>8, <1>10, <1>12
<1>15. store' \in Stores /\ store'.kept = store'.now
  BY <1>8
<1> QED BY <1>13, <1>14, <1>15

LEMMA OutageKeeps ==
    ASSUME IInv, Outage
    PROVE  IInv'
<1>1. /\ store' \in Stores /\ store'.kept = store'.now
      /\ \A p \in Files : store'.now[p] \in {store.now[p], Absent}
      /\ \A p \in {"cbor", "json", "ref"} : store'.now[p] # Absent => store'.now["evidence"] # Absent
  BY OutageIs
<1>2. run \in [Runs -> RunState] /\ outages \in 0..MaxOutages /\ Rooted(store)
  BY Typed DEF IInv
<1>3. outages' \in 0..MaxOutages /\ outages' # 0
  <2>1. outages < MaxOutages /\ outages' = outages + 1
    BY DEF Outage
  <2>2. MaxOutages \in Nat
    BY WorkerAssumption
  <2> QED BY <1>2, <2>1, <2>2
<1>4. \A r \in Runs : [run[r] EXCEPT !.step = "dead", !.syncing = FALSE] \in RunState
  BY <1>2 DEF RunState, Ended
<1>5. run' \in [Runs -> RunState]
  BY <1>2, <1>4 DEF Outage
<1>6. \A r \in Runs : /\ run'[r].step \notin Active
                      /\ run[r].step \notin Active => run'[r] = run[r]
                      /\ run[r].step \in Active => run'[r].step = "dead" /\ run'[r].syncing = FALSE
  BY <1>2, Names DEF Outage, RunState
<1>7. TypeOK'
  BY <1>1, <1>3, <1>5 DEF TypeOK, Stores, RunState
<1>8. Writing'
  BY <1>6, Names DEF IInv, Writing, Files
<1>9. Rooted(store)'
  BY <1>1 DEF Rooted
<1>10. ASSUME NEW r \in Runs
       PROVE  AnswerInv(r)'
  <2>1. SUFFICES ASSUME run'[r].step = "answered", Answering(r, run'[r], store')
                 PROVE  Sealed(r, run'[r], store')
    BY <1>3, <1>6 DEF AnswerInv, At, NoneActive
  <2>2. run[r].step = "answered" /\ run'[r] = run[r]
    BY <1>6, <2>1
  <2>3. store'.now["result"] = store.now["result"] /\ store'.now["result"] # Absent
    BY <1>1, <2>1 DEF Answering, Files
  <2>4. Answering(r, run[r], store)
    BY <2>1, <2>2, <2>3 DEF Answering
  <2>5. Sealed(r, run[r], store)
    BY <2>2, <2>4 DEF IInv, AnswerInv, At
  <2>6. store.now["evidence"] # Absent
    BY <1>2, <2>5, SealedHolds DEF Rooted, Files
  <2>7. store'.now["root"] # Absent
    BY <2>3, OutageIs
  <2>8. \A p \in Files : store'.now[p] = store.now[p]
    BY <2>5, <2>6, <2>7, OutageIs DEF Sealed
  <2> QED BY <1>1, <2>2, <2>5, <2>8 DEF Sealed
<1>11. OneActive'
  BY <1>6 DEF OneActive
<1> QED BY <1>6, <1>7, <1>8, <1>9, <1>10, <1>11 DEF IInv

LEMMA StepKeeps == ASSUME ~Overlapping, IInv, [Next]_vars PROVE IInv'
<1>1. CASE UNCHANGED vars
  <2>1. IInv <=> /\ TypeOK /\ OneActive /\ Writing /\ Rooted(store)
                 /\ \A r \in Runs : run[r].step \in Active => Progress(r, run[r], store)
                 /\ \A r \in Runs : AnswerInv(r)
    BY DEF IInv
  <2>2. store' = store /\ run' = run /\ outages' = outages
    BY <1>1 DEF vars
  <2> QED BY <2>2 DEF IInv, TypeOK, OneActive, Writing, AnswerInv, At, NoneActive
<1>2. ASSUME NEW r \in Runs,
             \/ Start(r) \/ Fetch(r) \/ PutBlob(r) \/ Commit(r) \/ Sync(r)
             \/ WriteFails(r) \/ Parse(r) \/ Reload(r) \/ Crash(r)
      PROVE  IInv'
  BY <1>2, StartKeeps, FetchKeeps, PutBlobKeeps, CommitKeeps, SyncKeeps, FailureKeeps, ParseKeeps, ReloadKeeps
<1> QED BY <1>1, <1>2, OutageKeeps DEF Next

LEMMA InitHolds == Init => IInv
<1> SUFFICES ASSUME Init PROVE IInv
  OBVIOUS
<1>1. PICK root \in {Dir, Absent} : store = FS!Bare(root)
  BY DEF Init
<1> DEFINE tree == [p \in Tree |-> IF p = "root" THEN root ELSE Absent]
<1>2. store = [now |-> tree, kept |-> tree]
  BY <1>1 DEF FS!Bare
<1>3. tree \in [Tree -> Contents] /\ \A p \in Tree \ {"root"} : tree[p] = Absent
  BY DEF Contents
<1> HIDE DEF tree
<1>4. store \in Stores /\ store.now = tree /\ store.kept = tree
  BY <1>2, <1>3 DEF Stores
<1>5. \A r \in Runs : run[r] = [step |-> "start", syncing |-> FALSE, body |-> Absent, seen |-> Absent]
  BY DEF Init
<1>6. run \in [Runs -> RunState] /\ \A r \in Runs : run[r].step = "start" /\ run[r].syncing = FALSE
  BY <1>5 DEF Init, RunState
<1>7. TypeOK
  <2>1. outages \in 0..MaxOutages
    BY WorkerAssumption DEF Init
  <2> QED BY <1>4, <1>6, <2>1, Typed
<1>8. Rooted(store)
  BY <1>3, <1>4, Names DEF Rooted, Files
<1> QED BY <1>6, <1>7, <1>8, Names DEF IInv, OneActive, Writing, AnswerInv, At

\* The invariant holds throughout, as long as the runs of a root do not overlap.
THEOREM Inductive == ASSUME ~Overlapping PROVE Spec => []IInv
<1>1. Init => IInv
  BY InitHolds
<1>2. IInv /\ [Next]_vars => IInv'
  BY StepKeeps
<1> QED BY <1>1, <1>2, PTL DEF Spec

(***************************************************************************)
(* What the invariant gives.                                               *)
(***************************************************************************)

\* Every variable keeps its type, as long as the runs are made one at a time.
THEOREM TypeCorrect == ASSUME ~Overlapping PROVE Spec => []TypeOK
<1>1. IInv => TypeOK
  BY DEF IInv
<1> QED BY <1>1, Inductive, PTL

\* The answer of a run passes the offline replay until the power fails,
\* whatever other runs do in the same root after it (Verify over Execute).
THEOREM AnswersVerify == ASSUME ~Overlapping PROVE Spec => []AnswerVerifies
<1>1. ASSUME IInv, outages = 0, NEW r \in Runs, At(r, "answered") PROVE Verified
  <2>1. AnswerInv(r)
    BY <1>1 DEF IInv
  <2>2. store.now[run[r].body] # Absent /\ Sealed(r, run[r], store)
    BY <1>1, <2>1 DEF AnswerInv
  <2> QED BY <2>2, SealedHolds DEF Verified, Now, FS!Present, Sealed
<1>2. IInv => AnswerVerifies
  BY <1>1 DEF AnswerVerifies
<1> QED BY <1>2, Inductive, PTL

\* When the bytes of a response are parsed, its body and its observation can
\* be read back from the output root.
THEOREM EvidenceBefore == ASSUME ~Overlapping PROVE Spec => []EvidenceBeforeParse
<1>1. ASSUME IInv, NEW r \in Runs, run[r].step \in {"parse", "reload", "result"}
      PROVE  /\ FS!Present(store, run[r].body)
             /\ Now("cbor") = Observation(r) /\ Now("json") = Observation(r) /\ Now("ref") = run[r].body
  <2>1. Progress(r, run[r], store)
    BY <1>1, Names DEF IInv
  <2>2. run[r].body \in Bodies /\ store.now[run[r].body] = run[r].body
    BY <1>1, <2>1 DEF Progress, After
  <2>3. Now("cbor") = Observation(r) /\ Now("json") = Observation(r) /\ Now("ref") = run[r].body
    BY <1>1, <2>1 DEF Progress, Done, Said, Seen, After, Files, Now, Observation
  <2> QED BY <2>2, <2>3, NamesAssumption DEF FS!Present
<1>2. IInv => EvidenceBeforeParse
  BY <1>1 DEF EvidenceBeforeParse
<1> QED BY <1>2, Inductive, PTL

\* Beside a sealed answer nothing starts: only the power can change the root.
LEMMA SealedStays ==
    ASSUME IInv, ~Overlapping, Next, NEW r \in Runs, At(r, "answered"), Answering(r, run[r], store)
    PROVE  Sealed(r, run[r], store) /\ (Outage \/ store' = store)
<1>1. NoneActive /\ Sealed(r, run[r], store)
  BY DEF IInv, AnswerInv
<1>2. "job" \in FS!Children("root") /\ FS!Present(store, "job")
  BY <1>1, SealedHolds, Names DEF FS!Children, FS!Present, Files
<1>3. \A q \in Runs : run[q].syncing => run[q].step \in Active
  BY Names DEF IInv, Writing, Files
<1>4. ASSUME NEW q \in Runs,
             \/ Start(q) \/ Fetch(q) \/ PutBlob(q) \/ Commit(q) \/ Sync(q)
             \/ WriteFails(q) \/ Parse(q) \/ Reload(q) \/ Crash(q)
      PROVE  Start(q)
  BY <1>1, <1>3, <1>4, Names
     DEF NoneActive, Fetch, PutBlob, Commit, Sync, WriteFails, Parse, Reload, Crash, At, Files
<1>5. ASSUME NEW q \in Runs, Start(q) PROVE store' = store
  BY <1>2, <1>5 DEF Start
<1> QED BY <1>1, <1>4, <1>5 DEF Next

\* The metadata of an answer outlives a power failure if the output root does,
\* and with the blob the answer still passes the replay.
THEOREM AnswersOutlive == ASSUME ~Overlapping PROVE Spec => AnswerOutlivesOutage
<1> DEFINE Stays == \A r \in Runs :
          /\ At(r, "answered") /\ FS!Present(store, "result")
          /\ Now("result").observation = Observation(r)
          /\ store'.now["root"] # Absent
          => /\ \A p \in {"job", "json", "ref", "cbor", "result"} : store'.now[p] = Now(p)
             /\ store'.now[run[r].body] # Absent => Verified'
<1>1. ASSUME IInv, Next, NEW r \in Runs, At(r, "answered"), FS!Present(store, "result"),
             Now("result").observation = Observation(r), store'.now["root"] # Absent
      PROVE  /\ \A p \in {"job", "json", "ref", "cbor", "result"} : store'.now[p] = Now(p)
             /\ store'.now[run[r].body] # Absent => Verified'
  <2>1. Answering(r, run[r], store)
    BY <1>1 DEF Answering, FS!Present, Now, Observation, Seen
  <2>2. Sealed(r, run[r], store) /\ (Outage \/ store' = store)
    BY <1>1, <2>1, SealedStays
  <2>3. store.now["evidence"] # Absent
    BY <1>1, <2>2, SealedHolds DEF IInv, Rooted
  <2>4. \A p \in Files : store'.now[p] = store.now[p]
    <3>1. CASE Outage
      BY <1>1, <2>2, <2>3, <3>1, OutageIs DEF Sealed
    <3> QED BY <2>2, <3>1
  <2>5. run[r].body \in Parses
    BY <2>2 DEF Sealed
  <2>6. store'.now[run[r].body] # Absent => Verified'
    BY <2>2, <2>4, <2>5, SealedHolds DEF Verified, Now, FS!Present, Files
  <2> QED BY <2>4, <2>6 DEF Files, Now
<1>2. IInv /\ [Next]_vars => [Stays]_vars
  BY <1>1
<1>3. Spec => [][Stays]_vars
  BY <1>2, Inductive, PTL DEF Spec
<1> QED BY <1>3 DEF AnswerOutlivesOutage

\* No step of a run changes what a published evidence file says.
THEOREM NotReplaced == ASSUME ~Overlapping PROVE Spec => EvidenceNotReplaced
<1> DEFINE Stays == \A p \in {"cbor", "json", "ref", "result"} :
                       FS!Present(store, p) => store'.now[p] \in {Now(p), Absent}
<1>1. ASSUME IInv, Next PROVE Stays
  <2>1. store \in Stores
    BY <1>1, Typed DEF IInv
  <2>2. ASSUME NEW r \in Runs, Start(r) PROVE \A p \in Files : store'.now[p] = store.now[p]
    <3>1. "root" \in Tree /\ Files \subseteq Tree \ {"root"}
      BY Names DEF Files
    <3>2. \A p \in Files : FS!MkdirAll(store, "root").now[p] = store.now[p]
      BY <2>1, <3>1, MkdirIs
    <3> QED BY <2>2, <3>2 DEF Start
  <2>3. ASSUME NEW r \in Runs, PutBlob(r) PROVE \A p \in Files : store'.now[p] = store.now[p]
    <3>1. run[r].body \in Bodies
      BY <1>1, <2>3, Names DEF PutBlob, At, IInv, Progress
    <3>2. run[r].body \in Tree /\ run[r].body \in Contents /\ run[r].body \notin Files /\ Files \subseteq Tree \ {"evidence", "cas"}
      BY <3>1, Names DEF Contents, Files
    <3> QED BY <1>1, <2>3, <3>2, EvidenceDirsIs, PutIs DEF PutBlob
  <2>4. ASSUME NEW r \in Runs, Commit(r)
        PROVE  \A p \in Files : store'.now[p] = store.now[p] \/ store.now[p] = Absent
    <3> DEFINE q == run[r].step
               s == FS!MkdirAll(store, Above[q])
    <3>1. q \in Files /\ q \in Tree /\ Above[q] \in {"root", "evidence"} /\ ~run[r].syncing
      BY <2>4, Names DEF Commit, Files
    <3>2. store.now[q] = Absent
      <4>1. Progress(r, run[r], store)
        BY <1>1, <3>1, Names DEF IInv, Files
      <4> QED BY <3>1, <4>1 DEF Progress, Done, Files, After
    <3>3. s \in Stores /\ \A p \in Files : s.now[p] = store.now[p]
      <4>1. Above[q] \in Tree /\ Files \subseteq Tree \ {Above[q]}
        BY <3>1, Names DEF Files
      <4> QED BY <2>1, <4>1, MkdirIs
    <3>4. store' = FS!Put(s, q, Content(r)) /\ Content(r) \in Contents
      BY <1>1, <2>4, <3>1, ContentIs DEF Commit
    <3> HIDE DEF q, s
    <3>5. store'.now[q] = Content(r) /\ \A p \in Tree \ {q} : store'.now[p] = s.now[p]
      BY <3>1, <3>3, <3>4, PutIs
    <3> QED BY <3>2, <3>3, <3>5, Names
  <2>5. ASSUME NEW r \in Runs, Sync(r) PROVE store'.now = store.now
    <3>1. Above[run[r].step] \in Tree
      BY <1>1, <2>5, Names DEF Sync, IInv, Writing, Files
    <3> QED BY <2>1, <2>5, <3>1, SyncIs DEF Sync
  <2>6. ASSUME NEW r \in Runs, WriteFails(r) \/ Crash(r)
        PROVE  \A p \in Files : store'.now[p] = store.now[p]
    <3>1. \/ store' = store
          \/ store' = EvidenceDirs
          \/ store' = FS!Put(store, "temp", Leftover)
      BY <2>6 DEF WriteFails, Crash
    <3>2. Leftover \in Contents /\ "temp" \in Tree /\ Files \subseteq Tree \ {"temp", "evidence", "cas"}
      BY Names DEF Contents, Files
    <3>3. \A p \in Files : FS!Put(store, "temp", Leftover).now[p] = store.now[p]
      BY <2>1, <3>2, PutIs
    <3>4. \A p \in Files : EvidenceDirs.now[p] = store.now[p]
      BY <1>1, <3>2, EvidenceDirsIs
    <3> QED BY <3>1, <3>3, <3>4
  <2>7. ASSUME NEW r \in Runs, Fetch(r) \/ Parse(r) \/ Reload(r) PROVE store' = store
    BY <2>7 DEF Fetch, Parse, Reload
  <2>8. CASE Outage
    BY <1>1, <2>8, OutageIs DEF Files, Now
  <2> QED BY <1>1, <2>2, <2>3, <2>4, <2>5, <2>6, <2>7, <2>8 DEF Next, Files, Now, FS!Present
<1>2. IInv /\ [Next]_vars => [Stays]_vars
  BY <1>1
<1>3. Spec => [][Stays]_vars
  BY <1>2, Inductive, PTL DEF Spec
<1> QED BY <1>3 DEF EvidenceNotReplaced
=============================================================================
