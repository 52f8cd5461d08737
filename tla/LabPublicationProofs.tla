------------------------ MODULE LabPublicationProofs ------------------------
(***************************************************************************)
(* What processes that share a results directory keep, for any number of   *)
(* processes, requests, results and artifacts: one writer of a result, all *)
(* of a bundle or nothing, and nothing taken back.                         *)
(***************************************************************************)
EXTENDS LabPublication, TLAPS

(***************************************************************************)
(* The inductive invariant.  The exclusive Mkdir makes a handler the only  *)
(* writer of its directory; while it writes, the directory holds exactly   *)
(* the entries written so far; when it stops without removing it, the      *)
(* directory is complete or its result is one of the interrupted.          *)
(***************************************************************************)
Holding == {"mkdir", "write", "clean", "existing", "verify"}
Written(h) == IF handler[h].syncing THEN handler[h].next ELSE handler[h].next - 1

HandlerInv(h) ==
    /\ ~At(h, "idle") => ResultOf(h) \in Results
    /\ handler[h].step \in Holding => holder[ProcessOf[h]] = h
    /\ Working(h) => 0 \in Bundle(h)
    /\ At(h, "write") => handler[h].next \in 1..Manifest /\ Bundle(h) = 0..Written(h)
ResultInv(r) ==
    /\ r \in interrupted => 0 \in bundle[r] /\ ~Publishing(r)
    /\ r \notin interrupted /\ ~Publishing(r) => bundle[r] \in {{}, Complete}

IInv == /\ TypeOK
        /\ OneWriter
        /\ ReportedStays
        /\ \A h \in Handlers : HandlerInv(h)
        /\ \A r \in Results : ResultInv(r)

LEMMA ManifestIsNat == Manifest \in Nat /\ Manifest > 1 /\ Complete = 0..Manifest /\ {0, 1, Manifest} \subseteq Complete
BY LabAssumption DEF Manifest, Complete

HandlerState ==
    [step : Steps, result : Results \cup {NoOne}, next : Nat, syncing : BOOLEAN, reply : Replies]

\* What Goto and Reply leave of a handler's state, and of the mutexes.
LEMMA GotoType ==
    ASSUME TypeOK, NEW h \in Handlers, NEW s \in Steps, NEW n \in Nat, Goto(h, s, n)
    PROVE  /\ handler' \in [Handlers -> HandlerState]
           /\ handler'[h].step = s /\ handler'[h].next = n /\ handler'[h].syncing = FALSE
           /\ ResultOf(h)' = ResultOf(h)
           /\ \A g \in Handlers \ {h} : handler'[g] = handler[g]
<1> DEFINE new == [handler[h] EXCEPT !.step = s, !.next = n, !.syncing = FALSE]
<1>1. handler \in [Handlers -> HandlerState]
  BY DEF TypeOK, HandlerState
<1>2. /\ new \in HandlerState
      /\ new.step = s /\ new.next = n /\ new.syncing = FALSE /\ new.result = handler[h].result
  BY <1>1 DEF HandlerState
<1>3. handler' = [handler EXCEPT ![h] = new]
  BY <1>1 DEF Goto
<1> QED BY <1>1, <1>2, <1>3 DEF ResultOf

LEMMA ReplyType ==
    ASSUME TypeOK, NEW h \in Handlers, NEW answer \in Replies, Reply(h, answer)
    PROVE  /\ handler' \in [Handlers -> HandlerState]
           /\ handler'[h].step = "idle"
           /\ \A g \in Handlers \ {h} : handler'[g] = handler[g]
           /\ holder' \in [Processes -> Handlers \cup {NoOne}]
           /\ \A g \in Handlers \ {h} : holder[ProcessOf[g]] = g => holder'[ProcessOf[g]] = g
<1> DEFINE new == [Idle EXCEPT !.result = ResultOf(h), !.reply = answer]
<1>1. handler \in [Handlers -> HandlerState]
  BY DEF TypeOK, HandlerState
<1>2. ResultOf(h) \in Results \cup {NoOne} /\ Idle \in HandlerState /\ Idle.step = "idle"
  BY <1>1, ManifestIsNat DEF HandlerState, ResultOf, Steps, Replies, Idle
<1>3. new \in HandlerState /\ new.step = "idle"
  BY <1>2 DEF HandlerState
<1>4. handler' = [handler EXCEPT ![h] = new]
  BY DEF Reply
<1>5. /\ holder' \in [Processes -> Handlers \cup {NoOne}]
      /\ \A g \in Handlers \ {h} : holder[ProcessOf[g]] = g => holder'[ProcessOf[g]] = g
  BY LabAssumption DEF TypeOK, Reply
<1> QED BY <1>1, <1>3, <1>4, <1>5

LEMMA InitHolds == Init => IInv
<1> SUFFICES ASSUME Init PROVE IInv
  OBVIOUS
<1>1. TypeOK
  BY ManifestIsNat DEF Init, TypeOK, Idle, Steps, Replies
<1>2. \A h \in Handlers : At(h, "idle") /\ ~Working(h)
  BY DEF Init, Idle, At, Working
<1> QED BY <1>1, <1>2 DEF Init, Idle, IInv, OneWriter, ReportedStays, HandlerInv, ResultInv, At, Holding, Publishing

(***************************************************************************)
(* Steps that change neither a directory nor who works on one.             *)
(***************************************************************************)
LEMMA StepsAside ==
    ASSUME IInv, NEW h \in Handlers, ~Working(h), TypeOK', UNCHANGED <<bundle, interrupted, reported>>,
           \A g \in Handlers \ {h} : handler'[g] = handler[g],
           \A g \in Handlers \ {h} : holder[ProcessOf[g]] = g => holder'[ProcessOf[g]] = g,
           ~Working(h)',
           ~At(h, "idle")' => ResultOf(h)' \in Results,
           handler'[h].step \in Holding => holder'[ProcessOf[h]] = h
    PROVE  IInv'
<1>1. \A g \in Handlers : Working(g)' <=> Working(g)
  BY DEF Working
<1>2. \A g \in Handlers : Working(g) => ResultOf(g)' = ResultOf(g)
  BY DEF Working, ResultOf
<1>3. \A r \in Results : Publishing(r)' <=> Publishing(r)
  BY <1>1, <1>2 DEF Publishing
<1>4. OneWriter' /\ ReportedStays'
  BY <1>1, <1>2 DEF IInv, OneWriter, ReportedStays
<1>5. \A g \in Handlers \ {h} : HandlerInv(g)'
  BY DEF IInv, HandlerInv, At, ResultOf, Bundle, Working, Written
<1>6. HandlerInv(h)'
  BY DEF HandlerInv, At, Working
<1>7. \A r \in Results : ResultInv(r)'
  BY <1>3 DEF IInv, ResultInv
<1> QED BY <1>4, <1>5, <1>6, <1>7 DEF IInv

LEMMA AskKeeps ==
    ASSUME IInv, NEW h \in Handlers, NEW r \in Results, NEW what \in {"lock", "load"}, Ask(h, r, what)
    PROVE  IInv'
<1> DEFINE at == IF what = "load" THEN 1 ELSE 0
           new == [Idle EXCEPT !.step = what, !.result = r, !.next = at]
<1>1. handler \in [Handlers -> HandlerState] /\ Idle \in HandlerState
  BY ManifestIsNat DEF IInv, TypeOK, HandlerState, Steps, Replies, Idle
<1>2. new \in HandlerState /\ new.step = what /\ new.result = r
  <2>1. at \in Nat /\ what \in Steps
    BY ManifestIsNat DEF Steps
  <2> HIDE DEF at
  <2> QED BY <1>1, <2>1 DEF HandlerState
<1>3. handler' = [handler EXCEPT ![h] = new]
  BY DEF Ask
<1>4. TypeOK'
  BY <1>1, <1>2, <1>3 DEF IInv, TypeOK, HandlerState, Ask
<1>5. handler'[h].step = what /\ ResultOf(h)' = r
  BY <1>1, <1>2, <1>3 DEF ResultOf
<1>6. ~Working(h) /\ ~Working(h)'
  BY <1>5 DEF Ask, At, Working
<1> QED BY <1>1, <1>3, <1>4, <1>5, <1>6, StepsAside DEF Ask, At, Holding

LEMMA LockKeeps ==
    ASSUME IInv, NEW h \in Handlers, Lock(h)
    PROVE  IInv'
<1>1. /\ handler' \in [Handlers -> HandlerState]
      /\ handler'[h].step = "mkdir" /\ ResultOf(h)' = ResultOf(h)
      /\ \A g \in Handlers \ {h} : handler'[g] = handler[g]
  <2>1. Goto(h, "mkdir", 0) /\ "mkdir" \in Steps /\ 0 \in Nat
    BY ManifestIsNat DEF Lock, Steps
  <2> QED BY <2>1, GotoType DEF IInv
<1>2. TypeOK'
  BY <1>1, LabAssumption DEF IInv, TypeOK, HandlerState, Lock
<1>3. ~Working(h) /\ ~Working(h)' /\ ResultOf(h) \in Results
  BY <1>1 DEF IInv, HandlerInv, Lock, At, Working
<1>4. \A g \in Handlers \ {h} : holder[ProcessOf[g]] = g => holder'[ProcessOf[g]] = g
  BY LabAssumption DEF IInv, TypeOK, Lock
<1>5. holder'[ProcessOf[h]] = h
  BY LabAssumption DEF IInv, TypeOK, Lock
<1> QED BY <1>1, <1>2, <1>3, <1>4, <1>5, StepsAside DEF Lock

LEMMA InspectNextKeeps ==
    ASSUME IInv, NEW h \in Handlers, InspectNext(h)
    PROVE  IInv'
<1>1. handler[h].next + 1 \in Nat /\ handler[h].step \in Steps
  BY DEF IInv, TypeOK
<1>2. /\ handler' \in [Handlers -> HandlerState]
      /\ handler'[h].step = handler[h].step /\ ResultOf(h)' = ResultOf(h)
      /\ \A g \in Handlers \ {h} : handler'[g] = handler[g]
  BY <1>1, GotoType DEF IInv, InspectNext
<1>3. TypeOK'
  BY <1>2 DEF IInv, TypeOK, HandlerState, InspectNext
<1>4. ~Working(h) /\ ~Working(h)'
  BY <1>2 DEF InspectNext, Inspecting, Working
<1>5. ResultOf(h) \in Results
  BY DEF IInv, HandlerInv, InspectNext, Inspecting, At
<1>6. handler[h].step \in Holding => holder'[ProcessOf[h]] = h
  BY DEF IInv, HandlerInv, InspectNext
<1> QED BY <1>2, <1>3, <1>4, <1>5, <1>6, StepsAside DEF InspectNext

\* A request that has inspected the last artifact verifies again, or answers; what it
\* reports published, no handler of its process is writing, as it holds the mutex.
LEMMA AcceptKeeps ==
    ASSUME IInv, NEW h \in Handlers, Accept(h)
    PROVE  IInv'
<1>1. ~Working(h) /\ ResultOf(h) \in Results
  BY DEF IInv, HandlerInv, Accept, Inspecting, At, Working
<1>2. CASE At(h, "existing")
  <2>1. /\ handler' \in [Handlers -> HandlerState]
        /\ handler'[h].step = "verify" /\ ResultOf(h)' = ResultOf(h)
        /\ \A g \in Handlers \ {h} : handler'[g] = handler[g]
    <3>1. Goto(h, "verify", 1) /\ "verify" \in Steps
      BY <1>2, ManifestIsNat DEF Accept, Steps
    <3> QED BY <3>1, GotoType DEF IInv
  <2>2. TypeOK'
    BY <1>2, <2>1 DEF IInv, TypeOK, HandlerState, Accept
  <2>3. holder'[ProcessOf[h]] = h
    BY <1>2 DEF IInv, HandlerInv, Accept, At, Holding
  <2>4. ~Working(h)'
    BY <2>1 DEF Working
  <2> QED BY <1>1, <1>2, <2>1, <2>2, <2>3, <2>4, StepsAside DEF Accept
<1>3. CASE At(h, "load")
  <2>1. Reply(h, "read")
    BY <1>3 DEF Accept, At
  <2>2. /\ handler' \in [Handlers -> HandlerState] /\ handler'[h].step = "idle"
        /\ \A g \in Handlers \ {h} : handler'[g] = handler[g]
        /\ holder' \in [Processes -> Handlers \cup {NoOne}]
        /\ \A g \in Handlers \ {h} : holder[ProcessOf[g]] = g => holder'[ProcessOf[g]] = g
    BY <2>1, ReplyType DEF IInv, Replies
  <2>3. reported' = reported
    BY <2>1 DEF Reply
  <2>4. TypeOK' /\ ~Working(h)'
    BY <2>2, <2>3 DEF IInv, TypeOK, HandlerState, Accept, Working
  <2> QED BY <1>1, <2>2, <2>3, <2>4, StepsAside DEF Accept, At, Holding
<1>4. CASE At(h, "verify")
  <2>1. Reply(h, "ok")
    BY <1>4 DEF Accept, At
  <2>2. /\ handler' \in [Handlers -> HandlerState] /\ handler'[h].step = "idle"
        /\ \A g \in Handlers \ {h} : handler'[g] = handler[g]
        /\ holder' \in [Processes -> Handlers \cup {NoOne}]
        /\ \A g \in Handlers \ {h} : holder[ProcessOf[g]] = g => holder'[ProcessOf[g]] = g
    BY <2>1, ReplyType DEF IInv, Replies
  <2>3. reported' = [reported EXCEPT ![ResultOf(h)] = @ \cup {ProcessOf[h]}]
    BY <2>1 DEF Reply
  <2>4. TypeOK'
    BY <1>1, <2>2, <2>3, LabAssumption DEF IInv, TypeOK, HandlerState, Accept
  <2>5. \A g \in Handlers : (Working(g)' <=> Working(g)) /\ (Working(g) => ResultOf(g)' = ResultOf(g))
    BY <1>1, <2>2 DEF Working, ResultOf
  <2>6. \A g \in Handlers : Working(g) => ProcessOf[g] # ProcessOf[h]
    BY <1>1, <1>4 DEF IInv, HandlerInv, Holding, Working, At
  <2>7. OneWriter' /\ ReportedStays'
    BY <1>1, <2>3, <2>5, <2>6 DEF IInv, TypeOK, OneWriter, ReportedStays
  <2>8. \A g \in Handlers \ {h} : HandlerInv(g)'
    BY <2>2 DEF IInv, HandlerInv, Accept, At, ResultOf, Bundle, Working, Written
  <2>9. HandlerInv(h)'
    BY <2>2 DEF HandlerInv, At, Working, Holding
  <2>10. \A r \in Results : Publishing(r)' <=> Publishing(r)
    BY <2>5 DEF Publishing
  <2>11. \A r \in Results : ResultInv(r)'
    BY <2>10 DEF IInv, ResultInv, Accept
  <2> QED BY <2>4, <2>7, <2>8, <2>9, <2>11 DEF IInv
<1> QED BY <1>2, <1>3, <1>4 DEF Accept, Inspecting, At

LEMMA RefuseKeeps ==
    ASSUME IInv, NEW h \in Handlers, Refuse(h)
    PROVE  IInv'
<1>1. PICK answer \in {"invalid", "failed"} : Reply(h, answer)
  BY DEF Refuse
<1>2. /\ handler' \in [Handlers -> HandlerState] /\ handler'[h].step = "idle"
      /\ \A g \in Handlers \ {h} : handler'[g] = handler[g]
      /\ holder' \in [Processes -> Handlers \cup {NoOne}]
      /\ \A g \in Handlers \ {h} : holder[ProcessOf[g]] = g => holder'[ProcessOf[g]] = g
  BY <1>1, ReplyType DEF IInv, Replies
<1>3. reported' = reported
  BY <1>1 DEF Reply
<1>4. TypeOK'
  BY <1>2, <1>3 DEF IInv, TypeOK, HandlerState, Refuse
<1>5. ~Working(h) /\ ~Working(h)'
  BY <1>2 DEF Refuse, Inspecting, Working
<1> QED BY <1>2, <1>3, <1>4, <1>5, StepsAside DEF Refuse, At, Holding

(***************************************************************************)
(* Steps of the one writer of a directory.                                 *)
(***************************************************************************)
\* Nobody else works on the result of a handler that works on it, or finds no directory.
LEMMA Alone ==
    ASSUME IInv, NEW h \in Handlers, Working(h) \/ 0 \notin Bundle(h)
    PROVE  \A g \in Handlers \ {h} : Working(g) => ResultOf(g) # ResultOf(h)
BY DEF IInv, OneWriter, HandlerInv, Bundle

LEMMA WriterStep ==
    ASSUME IInv, NEW h \in Handlers, NEW r \in Results, r = ResultOf(h), Working(h) \/ 0 \notin Bundle(h),
           TypeOK', \A q \in Results \ {r} : bundle'[q] = bundle[q] /\ reported'[q] = reported[q],
           interrupted' \in {interrupted, interrupted \cup {r}},
           \A g \in Handlers \ {h} : handler'[g] = handler[g],
           \A g \in Handlers \ {h} : holder[ProcessOf[g]] = g => holder'[ProcessOf[g]] = g,
           HandlerInv(h)', Working(h)' => ResultOf(h)' = r /\ ProcessOf[h] \notin reported'[r],
           r \in interrupted' => 0 \in bundle'[r] /\ ~Working(h)',
           r \notin interrupted' /\ ~Working(h)' => bundle'[r] \in {{}, Complete}
    PROVE  IInv'
<1>1. \A g \in Handlers \ {h} : Working(g) => ResultOf(g) # r
  BY Alone
<1>2. \A g \in Handlers \ {h} : (Working(g)' <=> Working(g)) /\ ResultOf(g)' = ResultOf(g)
  BY DEF Working, ResultOf
<1>3. \A g \in Handlers : Working(g) => ResultOf(g) \in Results
  BY DEF IInv, HandlerInv, Working, At
<1>4. OneWriter'
  BY <1>1, <1>2 DEF IInv, OneWriter
<1>5. ReportedStays'
  BY <1>1, <1>2, <1>3 DEF IInv, ReportedStays
<1>6. \A g \in Handlers \ {h} : HandlerInv(g)'
  BY <1>1, <1>3 DEF IInv, HandlerInv, At, ResultOf, Bundle, Working, Written
<1>7. \A q \in Results \ {r} : Publishing(q)' <=> Publishing(q)
  BY <1>1, <1>2 DEF Publishing
<1>8. Publishing(r)' <=> Working(h)'
  BY <1>1, <1>2 DEF Publishing
<1>9. \A q \in Results : ResultInv(q)'
  BY <1>7, <1>8 DEF IInv, ResultInv
<1> QED BY <1>4, <1>5, <1>6, <1>9 DEF IInv

LEMMA MkdirKeeps ==
    ASSUME IInv, NEW h \in Handlers, Mkdir(h)
    PROVE  IInv'
<1>1. ~Working(h) /\ ResultOf(h) \in Results /\ holder[ProcessOf[h]] = h
  BY DEF IInv, HandlerInv, Mkdir, At, Working, Holding
<1>2. CASE 0 \in Bundle(h)
  <2>1. Goto(h, "existing", 1) /\ "existing" \in Steps
    BY <1>2, ManifestIsNat DEF Mkdir, Steps
  <2>2. /\ handler' \in [Handlers -> HandlerState]
        /\ handler'[h].step = "existing" /\ ResultOf(h)' = ResultOf(h)
        /\ \A g \in Handlers \ {h} : handler'[g] = handler[g]
    BY <2>1, GotoType DEF IInv
  <2>3. TypeOK' /\ ~Working(h)'
    BY <1>2, <2>2 DEF IInv, TypeOK, HandlerState, Mkdir, Working
  <2> QED BY <1>1, <1>2, <2>2, <2>3, StepsAside DEF Mkdir
<1>3. CASE 0 \notin Bundle(h)
  <2>1. Goto(h, "write", 1) /\ "write" \in Steps /\ 1 \in Complete
    BY <1>3, ManifestIsNat DEF Mkdir, Steps
  <2>2. /\ handler' \in [Handlers -> HandlerState]
        /\ handler'[h].step = "write" /\ handler'[h].next = 1 /\ handler'[h].syncing = FALSE
        /\ ResultOf(h)' = ResultOf(h)
        /\ \A g \in Handlers \ {h} : handler'[g] = handler[g]
    BY <2>1, GotoType DEF IInv
  <2>3. /\ bundle' = [bundle EXCEPT ![ResultOf(h)] = {0}]
        /\ reported' = [reported EXCEPT ![ResultOf(h)] = {}]
        /\ UNCHANGED <<holder, interrupted>>
    BY <1>3 DEF Mkdir
  <2>4. bundle'[ResultOf(h)] = {0} /\ reported'[ResultOf(h)] = {}
    BY <1>1, <2>3 DEF IInv, TypeOK
  <2>5. TypeOK'
    BY <2>2, <2>3, ManifestIsNat DEF IInv, TypeOK, HandlerState
  <2>6. HandlerInv(h)'
    <3>1. Bundle(h)' = {0} /\ Written(h)' = 0 /\ {0} = 0..0
      BY <2>2, <2>4 DEF Bundle, Written
    <3>2. holder'[ProcessOf[h]] = h /\ 1 \in 1..Manifest
      BY <1>1, <2>3, ManifestIsNat
    <3> QED BY <1>1, <2>2, <3>1, <3>2 DEF HandlerInv, At, Working
  <2>7. ResultOf(h) \notin interrupted /\ Working(h)'
    BY <1>1, <1>3, <2>2 DEF IInv, ResultInv, Bundle, Working
  <2>8. \A q \in Results \ {ResultOf(h)} : bundle'[q] = bundle[q] /\ reported'[q] = reported[q]
    BY <2>3 DEF IInv, TypeOK
  <2> QED BY <1>1, <1>3, <2>2, <2>3, <2>4, <2>5, <2>6, <2>7, <2>8, WriterStep
<1> QED BY <1>2, <1>3

\* What is true of a handler that writes or cleans up.
LEMMA AtWork ==
    ASSUME IInv, NEW h \in Handlers, Working(h)
    PROVE  /\ ResultOf(h) \in Results /\ holder[ProcessOf[h]] = h /\ 0 \in Bundle(h)
           /\ ProcessOf[h] \notin reported[ResultOf(h)] /\ ResultOf(h) \notin interrupted
           /\ Bundle(h) \subseteq Complete
BY DEF IInv, TypeOK, HandlerInv, ReportedStays, ResultInv, Publishing, Working, At, Holding, Bundle

LEMMA CommitKeeps ==
    ASSUME IInv, NEW h \in Handlers, Commit(h)
    PROVE  IInv'
<1>1. Working(h) /\ At(h, "write")
  BY DEF Commit, Working, At
<1>2. handler \in [Handlers -> HandlerState]
  BY DEF IInv, TypeOK, HandlerState
<1>3. /\ handler' \in [Handlers -> HandlerState]
      /\ handler'[h].step = "write" /\ handler'[h].next = handler[h].next /\ handler'[h].syncing = TRUE
      /\ ResultOf(h)' = ResultOf(h)
      /\ \A g \in Handlers \ {h} : handler'[g] = handler[g]
  <2> DEFINE new == [handler[h] EXCEPT !.syncing = TRUE]
  <2>1. /\ new \in HandlerState
        /\ new.step = handler[h].step /\ new.next = handler[h].next /\ new.syncing = TRUE
        /\ new.result = handler[h].result
    BY <1>2 DEF HandlerState
  <2>2. handler' = [handler EXCEPT ![h] = new]
    BY <1>2 DEF Commit
  <2> QED BY <1>1, <1>2, <2>1, <2>2 DEF At, ResultOf
<1>4. bundle' = [bundle EXCEPT ![ResultOf(h)] = Bundle(h) \cup {handler[h].next}]
  BY DEF Commit, Bundle
<1>5. handler[h].next \in 1..Manifest /\ Bundle(h) = 0..(handler[h].next - 1)
  BY <1>1 DEF IInv, HandlerInv, Commit, Written
<1>6. Bundle(h) \cup {handler[h].next} = 0..handler[h].next
  BY <1>5, ManifestIsNat
<1>7. bundle'[ResultOf(h)] = 0..handler[h].next
  BY <1>1, <1>4, <1>6, AtWork DEF IInv, TypeOK
<1>8. TypeOK'
  <2>1. 0..handler[h].next \subseteq Complete
    BY <1>5, ManifestIsNat
  <2>2. bundle' \in [Results -> SUBSET Complete]
    BY <1>4, <1>6, <2>1 DEF IInv, TypeOK
  <2>3. UNCHANGED <<holder, reported, interrupted>>
    BY DEF Commit
  <2> QED BY <1>3, <2>2, <2>3 DEF IInv, TypeOK, HandlerState
<1>9. HandlerInv(h)'
  BY <1>1, <1>3, <1>5, <1>7, AtWork, ManifestIsNat DEF HandlerInv, At, Working, Bundle, Written, Commit
<1>10. \A q \in Results \ {ResultOf(h)} : bundle'[q] = bundle[q]
  BY <1>4 DEF IInv, TypeOK
<1>11. Working(h)'
  BY <1>3 DEF Working
<1> QED BY <1>1, <1>3, <1>8, <1>9, <1>10, <1>11, AtWork, WriterStep DEF Commit

LEMMA SyncKeeps ==
    ASSUME IInv, NEW h \in Handlers, Sync(h)
    PROVE  IInv'
<1>1. Working(h) /\ At(h, "write")
  BY DEF Sync, Working, At
<1>2. handler[h].next \in 1..Manifest /\ Bundle(h) = 0..handler[h].next
  BY <1>1 DEF IInv, HandlerInv, Sync, Written
<1>3. CASE handler[h].next = Manifest
  <2>1. Goto(h, "verify", 1) /\ "verify" \in Steps
    BY <1>3, ManifestIsNat DEF Sync, Steps
  <2>2. /\ handler' \in [Handlers -> HandlerState]
        /\ handler'[h].step = "verify" /\ ResultOf(h)' = ResultOf(h)
        /\ \A g \in Handlers \ {h} : handler'[g] = handler[g]
    BY <2>1, GotoType DEF IInv
  <2>3. TypeOK' /\ ~Working(h)'
    BY <2>2 DEF IInv, TypeOK, HandlerState, Sync, Working
  <2>4. HandlerInv(h)'
    BY <1>1, <2>2, AtWork DEF HandlerInv, At, Working, Sync
  <2>5. bundle'[ResultOf(h)] = Complete
    BY <1>2, <1>3, ManifestIsNat DEF Sync, Bundle
  <2> QED BY <1>1, <2>2, <2>3, <2>4, <2>5, AtWork, WriterStep DEF Sync
<1>4. CASE handler[h].next # Manifest
  <2> DEFINE n == handler[h].next + 1
  <2>1. Goto(h, "write", n) /\ "write" \in Steps /\ n \in Nat /\ n \in 1..Manifest
    BY <1>2, <1>4, ManifestIsNat DEF Sync, Steps
  <2>2. /\ handler' \in [Handlers -> HandlerState]
        /\ handler'[h].step = "write" /\ handler'[h].next = n /\ handler'[h].syncing = FALSE
        /\ ResultOf(h)' = ResultOf(h)
        /\ \A g \in Handlers \ {h} : handler'[g] = handler[g]
    <3> HIDE DEF n
    <3> QED BY <2>1, GotoType DEF IInv
  <2>3. TypeOK' /\ Working(h)'
    BY <2>2 DEF IInv, TypeOK, HandlerState, Sync, Working
  <2>4. Bundle(h)' = 0..(n - 1)
    BY <1>2, <2>2, ManifestIsNat DEF Sync, Bundle
  <2>5. HandlerInv(h)'
    BY <1>1, <2>1, <2>2, <2>4, AtWork, ManifestIsNat DEF HandlerInv, At, Working, Sync, Written
  <2> QED BY <1>1, <2>2, <2>3, <2>5, AtWork, WriterStep DEF Sync
<1> QED BY <1>3, <1>4

LEMMA WriteFailsKeeps ==
    ASSUME IInv, NEW h \in Handlers, WriteFails(h)
    PROVE  IInv'
<1>1. Working(h) /\ At(h, "write")
  BY DEF WriteFails, Working, At
<1>2. Goto(h, "clean", 0) /\ "clean" \in Steps /\ 0 \in Nat
  BY ManifestIsNat DEF WriteFails, Steps
<1>3. /\ handler' \in [Handlers -> HandlerState]
      /\ handler'[h].step = "clean" /\ ResultOf(h)' = ResultOf(h)
      /\ \A g \in Handlers \ {h} : handler'[g] = handler[g]
  BY <1>2, GotoType DEF IInv
<1>4. TypeOK' /\ Working(h)'
  BY <1>3 DEF IInv, TypeOK, HandlerState, WriteFails, Working
<1>5. HandlerInv(h)'
  BY <1>1, <1>3, AtWork DEF HandlerInv, At, Working, WriteFails, Bundle
<1> QED BY <1>1, <1>3, <1>4, <1>5, AtWork, WriterStep DEF WriteFails

LEMMA CleanKeeps ==
    ASSUME IInv, NEW h \in Handlers, Clean(h)
    PROVE  IInv'
<1>1. Working(h) /\ At(h, "clean")
  BY DEF Clean, Working, At
<1>2. CASE Bundle(h) \ {0} # {}
  <2>1. PICK e \in Bundle(h) \ {0} : bundle' = [bundle EXCEPT ![ResultOf(h)] = Bundle(h) \ {e}]
    BY <1>2 DEF Clean, Bundle
  <2>2. UNCHANGED <<handler, holder, reported, interrupted>>
    BY <1>2 DEF Clean
  <2>3. bundle'[ResultOf(h)] = Bundle(h) \ {e}
    BY <1>1, <2>1, AtWork DEF IInv, TypeOK
  <2>4. TypeOK'
    BY <1>1, <2>1, <2>2, AtWork DEF IInv, TypeOK
  <2>5. HandlerInv(h)' /\ Working(h)'
    BY <1>1, <2>2, <2>3, AtWork DEF HandlerInv, At, Working, Bundle, ResultOf
  <2>6. \A q \in Results \ {ResultOf(h)} : bundle'[q] = bundle[q]
    BY <2>1 DEF IInv, TypeOK
  <2>7. ResultOf(h)' = ResultOf(h)
    BY <2>2 DEF ResultOf
  <2> QED BY <1>1, <2>2, <2>4, <2>5, <2>6, <2>7, AtWork, WriterStep
<1>3. CASE Bundle(h) \ {0} = {}
  <2>1. Reply(h, "failed") /\ bundle' = [bundle EXCEPT ![ResultOf(h)] = {}] /\ UNCHANGED interrupted
    BY <1>3 DEF Clean
  <2>2. /\ handler' \in [Handlers -> HandlerState] /\ handler'[h].step = "idle"
        /\ \A g \in Handlers \ {h} : handler'[g] = handler[g]
        /\ holder' \in [Processes -> Handlers \cup {NoOne}]
        /\ \A g \in Handlers \ {h} : holder[ProcessOf[g]] = g => holder'[ProcessOf[g]] = g
    BY <2>1, ReplyType DEF IInv, Replies
  <2>3. reported' = reported
    BY <2>1 DEF Reply
  <2>4. TypeOK' /\ ~Working(h)'
    BY <2>1, <2>2, <2>3 DEF IInv, TypeOK, HandlerState, Working
  <2>5. HandlerInv(h)'
    BY <2>2 DEF HandlerInv, At, Working, Holding
  <2>6. bundle'[ResultOf(h)] = {} /\ \A q \in Results \ {ResultOf(h)} : bundle'[q] = bundle[q]
    BY <1>1, <2>1, AtWork DEF IInv, TypeOK
  <2> QED BY <1>1, <2>1, <2>2, <2>3, <2>4, <2>5, <2>6, AtWork, WriterStep
<1> QED BY <1>2, <1>3

LEMMA CleanFailsKeeps ==
    ASSUME IInv, NEW h \in Handlers, CleanFails(h)
    PROVE  IInv'
<1>1. Working(h) /\ At(h, "clean")
  BY DEF CleanFails, Working, At
<1>2. Reply(h, "failed")
  BY DEF CleanFails
<1>3. /\ handler' \in [Handlers -> HandlerState] /\ handler'[h].step = "idle"
      /\ \A g \in Handlers \ {h} : handler'[g] = handler[g]
      /\ holder' \in [Processes -> Handlers \cup {NoOne}]
      /\ \A g \in Handlers \ {h} : holder[ProcessOf[g]] = g => holder'[ProcessOf[g]] = g
  BY <1>2, ReplyType DEF IInv, Replies
<1>4. reported' = reported
  BY <1>2 DEF Reply
<1>5. TypeOK' /\ ~Working(h)'
  BY <1>1, <1>3, <1>4, AtWork DEF IInv, TypeOK, HandlerState, Working, CleanFails
<1>6. HandlerInv(h)'
  BY <1>3 DEF HandlerInv, At, Working, Holding
<1> QED BY <1>1, <1>3, <1>4, <1>5, <1>6, AtWork, WriterStep DEF CleanFails, Bundle

(***************************************************************************)
(* A process dies: what its handlers worked on joins the interrupted.      *)
(***************************************************************************)
LEMMA KillKeeps ==
    ASSUME IInv, NEW p \in Processes, Kill(p)
    PROVE  IInv'
<1> DEFINE mine == {h \in Handlers : ProcessOf[h] = p}
           cut  == {ResultOf(h) : h \in {g \in mine : Working(g)}}
<1>1. /\ interrupted' = interrupted \cup cut
      /\ handler' = [h \in Handlers |-> IF h \in mine THEN Idle ELSE handler[h]]
      /\ holder' = [holder EXCEPT ![p] = NoOne]
      /\ UNCHANGED <<bundle, reported>>
  BY DEF Kill
<1>2. Idle \in HandlerState /\ Idle.step = "idle"
  BY ManifestIsNat DEF HandlerState, Steps, Replies, Idle
<1>3. cut \subseteq Results
  BY AtWork
<1>4. TypeOK'
  BY <1>1, <1>2, <1>3 DEF IInv, TypeOK, HandlerState
<1>5. /\ \A g \in mine : handler'[g].step = "idle" /\ ~Working(g)'
      /\ \A g \in Handlers \ mine : handler'[g] = handler[g]
  BY <1>1, <1>2 DEF Working
<1>6. \A g \in Handlers : Working(g)' => Working(g) /\ ResultOf(g)' = ResultOf(g)
  BY <1>5 DEF Working, ResultOf
<1>7. OneWriter' /\ ReportedStays'
  BY <1>1, <1>6 DEF IInv, OneWriter, ReportedStays
<1>8. \A g \in Handlers : HandlerInv(g)'
  <2> SUFFICES ASSUME NEW g \in Handlers PROVE HandlerInv(g)'
    OBVIOUS
  <2>1. CASE g \in mine
    BY <1>5, <2>1 DEF HandlerInv, At, Holding
  <2>2. CASE g \notin mine
    <3>1. holder'[ProcessOf[g]] = holder[ProcessOf[g]]
      BY <1>1, <2>2, LabAssumption DEF IInv, TypeOK
    <3> QED BY <1>1, <1>5, <2>2, <3>1 DEF IInv, HandlerInv, At, ResultOf, Bundle, Working, Written
  <2> QED BY <2>1, <2>2
<1>9. ASSUME NEW h \in mine, Working(h)
      PROVE  0 \in bundle[ResultOf(h)] /\ ~ \E g \in Handlers : Working(g)' /\ ResultOf(g)' = ResultOf(h)
  <2>1. 0 \in bundle[ResultOf(h)]
    BY <1>9, AtWork DEF Bundle
  <2>2. \A g \in Handlers \ {h} : Working(g) => ResultOf(g) # ResultOf(h)
    BY <1>9, Alone
  <2> QED BY <1>5, <1>6, <1>9, <2>1, <2>2
<1>10. ASSUME NEW r \in Results, r \notin cut
       PROVE  Publishing(r)' <=> Publishing(r)
  BY <1>5, <1>6, <1>10 DEF Publishing, Working, ResultOf
<1>11. \A r \in Results : ResultInv(r)'
  <2> SUFFICES ASSUME NEW r \in Results PROVE ResultInv(r)'
    OBVIOUS
  <2>1. CASE r \in cut
    <3>1. PICK h \in mine : Working(h) /\ ResultOf(h) = r
      BY <2>1
    <3>2. 0 \in bundle[r] /\ ~Publishing(r)'
      BY <1>9, <3>1 DEF Publishing
    <3> QED BY <1>1, <2>1, <3>2 DEF ResultInv
  <2>2. CASE r \notin cut
    BY <1>1, <1>10, <2>2 DEF IInv, ResultInv
  <2> QED BY <2>1, <2>2
<1> QED BY <1>4, <1>7, <1>8, <1>11 DEF IInv

LEMMA StepKeeps ==
    ASSUME IInv, [Next]_vars
    PROVE  IInv'
<1>1. CASE UNCHANGED vars
  BY <1>1 DEF vars, IInv, TypeOK, OneWriter, ReportedStays, HandlerInv, ResultInv, At, ResultOf, Bundle,
              Working, Publishing, Written
<1>2. ASSUME NEW h \in Handlers, NEW r \in Results, NEW what \in {"lock", "load"}, Ask(h, r, what)
      PROVE  IInv'
  BY <1>2, AskKeeps
<1>3. ASSUME NEW h \in Handlers, Lock(h) \/ Step(h)
      PROVE  IInv'
  BY <1>3, LockKeeps, MkdirKeeps, CommitKeeps, SyncKeeps, WriteFailsKeeps, CleanKeeps, CleanFailsKeeps,
     InspectNextKeeps, AcceptKeeps, RefuseKeeps DEF Step
<1>4. ASSUME NEW p \in Processes, Kill(p)
      PROVE  IInv'
  BY <1>4, KillKeeps
<1> QED BY <1>1, <1>2, <1>3, <1>4 DEF Next

LEMMA AlwaysIInv == Spec => []IInv
<1>1. IInv /\ [Next]_vars => IInv'
  BY StepKeeps
<1> QED BY <1>1, InitHolds, PTL DEF Spec

(***************************************************************************)
(* The theorems.                                                           *)
(***************************************************************************)
\* Every variable keeps its type: a directory never holds an entry the bundle does not
\* have, and a mutex is held by a handler or by no one.
THEOREM TypeCorrect == Spec => []TypeOK
<1>1. IInv => TypeOK
  BY DEF IInv
<1> QED BY <1>1, AlwaysIInv, PTL

\* The exclusive Mkdir of Invoke is enough to keep every other writer out, those of
\* the other processes too, which the mutex does not reach.
THEOREM WritersExclude == Spec => []OneWriter
<1>1. IInv => OneWriter
  BY DEF IInv
<1> QED BY <1>1, AlwaysIInv, PTL

\* A process that has answered with a bundle never writes in it or removes it again.
THEOREM ReportsStay == Spec => []ReportedStays
<1>1. IInv => ReportedStays
  BY DEF IInv
<1> QED BY <1>1, AlwaysIInv, PTL

\* Publish is all or nothing, failures of its writes included, but for a kill or a
\* cleanup that fails; and the manifest is the last entry to come.
THEOREM NothingHalfDone == Spec => []AllOrNothing
<1>1. IInv => AllOrNothing
  <2> SUFFICES ASSUME IInv, NEW r \in Results \ interrupted
               PROVE  /\ ~Publishing(r) => bundle[r] \in {{}, Complete}
                      /\ (\A h \in Handlers : At(h, "clean") => ResultOf(h) # r)
                         => (Manifest \in bundle[r] => bundle[r] = Complete)
    BY DEF AllOrNothing
  <2>1. ~Publishing(r) => bundle[r] \in {{}, Complete}
    BY DEF IInv, ResultInv
  <2>2. ASSUME NEW h \in Handlers, At(h, "write"), ResultOf(h) = r, Manifest \in bundle[r]
        PROVE  bundle[r] = Complete
    <3>1. handler[h].next \in 1..Manifest /\ bundle[r] = 0..Written(h)
      BY <2>2 DEF IInv, HandlerInv, Bundle
    <3>2. Written(h) \in Nat /\ Written(h) <= Manifest /\ Manifest <= Written(h)
      BY <2>2, <3>1, ManifestIsNat DEF Written
    <3> QED BY <3>1, <3>2, ManifestIsNat
  <2> QED BY <2>1, <2>2 DEF Publishing, Working, At
<1> QED BY <1>1, AlwaysIInv, PTL

\* A directory that nobody is publishing, whole or cut off, is never touched or taken up
\* again, by any handler of any process: Mkdir finds it there, and nobody else writes or
\* removes.
THEOREM SettledStays == Spec => SettledIsFinal
<1>1. IInv /\ [Next]_vars =>
        [\A r \in Results : 0 \in bundle[r] /\ ~Publishing(r) =>
            bundle'[r] = bundle[r] /\ ~Publishing(r)']_vars
  <2> SUFFICES ASSUME IInv, Next, NEW r \in Results, 0 \in bundle[r], ~Publishing(r)
               PROVE  bundle'[r] = bundle[r] /\ ~Publishing(r)'
    OBVIOUS
  <2>1. /\ bundle \in [Results -> SUBSET Complete]
        /\ handler \in [Handlers -> HandlerState]
        /\ \A h \in Handlers : Working(h) => ResultOf(h) # r
    BY DEF IInv, TypeOK, HandlerState, Publishing
  <2>2. ASSUME NEW h \in Handlers,
               \A g \in Handlers \ {h} : handler'[g] = handler[g],
               ~Working(h)' \/ (ResultOf(h)' = ResultOf(h) /\ ResultOf(h) # r)
        PROVE  ~Publishing(r)'
    BY <2>1, <2>2 DEF Publishing, Working, ResultOf
  <2>3. ASSUME NEW h \in Handlers, NEW q \in Results, NEW what \in {"lock", "load"}, Ask(h, q, what)
        PROVE  bundle'[r] = bundle[r] /\ ~Publishing(r)'
    <3> DEFINE new == [Idle EXCEPT !.step = what, !.result = q, !.next = IF what = "load" THEN 1 ELSE 0]
    <3>1. new.step = what
      BY DEF Idle
    <3>2. handler'[h].step = what /\ \A g \in Handlers \ {h} : handler'[g] = handler[g]
      BY <2>1, <2>3, <3>1 DEF Ask
    <3> QED BY <2>2, <2>3, <3>2 DEF Ask, Working
  <2>4. ASSUME NEW h \in Handlers, Lock(h) \/ Step(h)
        PROVE  bundle'[r] = bundle[r] /\ ~Publishing(r)'
    <3>1. ASSUME NEW s \in Steps, NEW n \in Nat, Goto(h, s, n),
                 s \notin {"write", "clean"} \/ ResultOf(h) # r
          PROVE  ~Publishing(r)'
      BY <2>2, <3>1, GotoType DEF IInv, Working
    <3>2. ASSUME NEW answer \in Replies, Reply(h, answer)
          PROVE  ~Publishing(r)'
      BY <2>2, <3>2, ReplyType DEF IInv, Working
    <3>3. CASE Lock(h)
      BY <3>1, <3>3 DEF Lock, Steps
    <3>4. CASE Mkdir(h)
      <4>1. CASE 0 \in Bundle(h)
        BY <3>1, <3>4, <4>1 DEF Mkdir, Steps
      <4>2. CASE 0 \notin Bundle(h)
        <5>1. ResultOf(h) # r
          BY <4>2 DEF Bundle
        <5> QED BY <2>1, <3>1, <3>4, <4>2, <5>1 DEF Mkdir, Steps
      <4> QED BY <4>1, <4>2
    <3>5. CASE Commit(h)
      <4>1. ResultOf(h) # r
        BY <2>1, <3>5 DEF Commit, Working, At
      <4>2. ResultOf(h)' = ResultOf(h) /\ \A g \in Handlers \ {h} : handler'[g] = handler[g]
        BY <2>1, <3>5 DEF Commit, ResultOf, HandlerState
      <4> QED BY <2>1, <2>2, <3>5, <4>1, <4>2 DEF Commit
    <3>6. CASE Sync(h) \/ WriteFails(h)
      <4>1. ResultOf(h) # r
        BY <2>1, <3>6 DEF Sync, WriteFails, Working, At
      <4>2. handler[h].next + 1 \in Nat /\ {"write", "clean", "verify"} \subseteq Steps
        BY <2>1 DEF HandlerState, Steps
      <4> QED BY <3>1, <3>6, <4>1, <4>2 DEF Sync, WriteFails
    <3>7. CASE Clean(h) \/ CleanFails(h)
      <4>1. ResultOf(h) # r
        BY <2>1, <3>7 DEF Clean, CleanFails, Working, At
      <4>2. bundle'[r] = bundle[r]
        BY <2>1, <3>7, <4>1 DEF Clean, CleanFails
      <4>3. CASE Reply(h, "failed")
        BY <3>2, <4>2, <4>3 DEF Replies
      <4>4. CASE UNCHANGED handler
        BY <2>2, <4>1, <4>2, <4>4 DEF ResultOf
      <4> QED BY <3>7, <4>3, <4>4 DEF Clean, CleanFails
    <3>8. CASE InspectNext(h)
      <4>1. /\ handler[h].next + 1 \in Nat /\ handler[h].step \in Steps
            /\ handler[h].step \notin {"write", "clean"}
        BY <2>1, <3>8 DEF HandlerState, InspectNext, Inspecting
      <4> QED BY <3>1, <3>8, <4>1 DEF InspectNext
    <3>9. CASE Accept(h) \/ Refuse(h)
      <4>1. UNCHANGED bundle
        BY <3>9 DEF Accept, Refuse
      <4>2. CASE Goto(h, "verify", 1)
        BY <3>1, <4>1, <4>2 DEF Steps
      <4>3. CASE \E answer \in Replies : Reply(h, answer)
        BY <3>2, <4>1, <4>3
      <4> QED BY <3>9, <4>2, <4>3 DEF Accept, Refuse, Replies
    <3> QED BY <2>4, <3>3, <3>4, <3>5, <3>6, <3>7, <3>8, <3>9 DEF Step
  <2>5. ASSUME NEW p \in Processes, Kill(p)
        PROVE  bundle'[r] = bundle[r] /\ ~Publishing(r)'
    <3>1. \A h \in Handlers : handler'[h] \in {Idle, handler[h]}
      BY <2>5 DEF Kill
    <3>2. Idle.step = "idle"
      BY DEF Idle
    <3> QED BY <2>1, <2>5, <3>1, <3>2 DEF Kill, Publishing, Working, ResultOf
  <2> QED BY <2>3, <2>4, <2>5 DEF Next
<1> QED BY <1>1, AlwaysIInv, PTL DEF Spec, SettledIsFinal
=============================================================================
