---------------------------- MODULE MCSnapshot ----------------------------
(***************************************************************************)
(* Two builds given one directory, two operations (one of them a fixture),  *)
(* three acquisitions: one page captured twice, two pages of the same       *)
(* origin captured out of order, one page of an origin that may not be      *)
(* selected and is read by the first one's operation.                       *)
(***************************************************************************)
EXTENDS SnapshotRuntime

Field(id, semantic, lexical, measured) ==
    [id |-> id, semantic |-> semantic, resolved |-> lexical # "", lexical |-> lexical, measured |-> measured]

MCReplays ==
    <<[id |-> "op1", operation |-> "op1", origin |-> "o1", fixture |-> FALSE, resource |-> "c:Observation", at |-> 2,
       fields |-> {Field("value", "s:value", "7", TRUE), Field("year", "s:year", "", FALSE)}],
      [id |-> "op2", operation |-> "op2", origin |-> "lab", fixture |-> TRUE, resource |-> "c:Offer", at |-> 1,
       fields |-> {Field("value", "s:value", "9", TRUE)}]>>

Capture(route, title, at) == [route |-> route, title |-> title, at |-> at]

Archived(id, origin, operation, captures) ==
    [id |-> id, origin |-> origin, operation |-> operation, subject |-> origin, captures |-> captures]

MCAcquisition ==
    <<Archived(1, "o2", "homepage-title", <<Capture("/", "A", 1), Capture("/", "B", 4)>>),
      Archived(2, "o2", "site-title", <<Capture("/", "C", 3), Capture("/about", "D", 1), Capture("/", "C", 4)>>),
      Archived(3, "o3", "homepage-title", <<Capture("/", "E", 1)>>)>>

Option(scale, acquisitions, createdAt) ==
    [scale |-> scale, acquisitions |-> acquisitions, createdAt |-> createdAt]

MCOptionSet ==
    <<{Option(0, <<>>, 2), Option(2, <<1>>, 4), Option(0, <<2, 3>>, 5), Option(1, <<1, 2>>, 4),
       Option(0, <<2, 1>>, 5), Option(0, <<1, 3>>, 5), Option(0, <<1>>, 3), Option(3, <<>>, 5), Option(4, <<>>, 5)},
      {Option(1, <<3>>, 4)}>>

MCScaleFields == <<"f1", "f2", "f3", "f4">>

MCSelections == {{"o1", "o2", "o3"}, {"o1", "o2", "o4"}}

\* The digests order the packets otherwise than their sources.
PacketRank(p) ==
    CASE p.source[1] = "bundle"  -> IF p.field = "year" THEN 4 ELSE IF p.origin = "o1" THEN 19 ELSE 10
      [] p.source[1] = "scale"   -> [f1 |-> 25, f2 |-> 1, f3 |-> 2, f4 |-> 5][p.field]
      [] p.source[1] = "capture" -> <<<<16, 7>>, <<22, 13, 3>>, <<28>>>>[p.source[2]][p.source[3]]

MCRank(e) == IF "batch" \in DOMAIN e THEN 1000 * PacketRank(e.after) + PacketRank(e.before) ELSE PacketRank(e)

MCSize(p) == IF p.class = "archive_observation" THEN 2 ELSE 1

Query(select, minimum, results, proofBytes) ==
    [select |-> select, concept |-> "", subjects |-> {"op1", "op2", "o2", "o3", "fixture"}, origins |-> {},
     lanes |-> {"attested_semantic", "observed_native"}, from |-> 0, until |-> 0, excludeStale |-> FALSE, age |-> 0,
     minimum |-> minimum, results |-> results, proofBytes |-> proofBytes]

All == {"value", "year", "title", "f1"}

MCQueries ==
    {Query(All, 1, 9, 99), Query(All, 2, 2, 99), Query(All, 1, 9, 4), Query(All, 1, 9, 1), Query({"title"}, 2, 9, 99),
     [Query({"s:value"}, 1, 9, 99) EXCEPT !.concept = "c:Offer"],
     [Query({"title", "s:value"}, 1, 1, 99) EXCEPT !.origins = {"o2", "lab"}],
     [Query(All, 1, 9, 99) EXCEPT !.lanes = {"attested_semantic"}, !.age = 2],
     [Query({"title"}, 1, 9, 99) EXCEPT !.from = 2, !.until = 4],
     [Query(All, 1, 9, 99) EXCEPT !.excludeStale = TRUE]}
=============================================================================
