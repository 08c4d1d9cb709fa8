--------------------------- MODULE MCEvaluations ---------------------------
(***************************************************************************)
(* Pipeline: two items, a baseline and a candidate, one of four shapes of  *)
(* stages and pins.  The baseline answers right, is truncated or fails;    *)
(* the candidate also answers wrong, and says so in a malformed document.  *)
(* Analyzer: two modes of one language, two items of it and one of another *)
(* language that no mode covers.                                           *)
(***************************************************************************)
EXTENDS Evaluations

CONSTANTS i1, i2, i3, vOld, vNew, site

Response(class, conf0, fits) ==
  [class |-> class, conf |-> conf0, fits |-> fits, lines |-> {1}, mentions |-> {"retry"}]
Envelope0(response, final, first, cost) ==
  [response |-> response, final |-> final, first |-> first, cost |-> cost, hit |-> FALSE, duration |-> cost + 1]

Says(class) == Envelope0(Response(class, 8, TRUE), FALSE, "valid", 1)
Malformed == Envelope0(Response("ok", 10, FALSE), FALSE, "invalid", 1)
GivenUp == Envelope0([Response("provider_error", 0, FALSE) EXCEPT !.lines = {}], TRUE, "invalid", 0)
Unclear == Envelope0(Response("unclear", 3, TRUE), TRUE, "valid", 2)

MCAnswers(i, v) ==
  IF v = vOld THEN {{}, {Says("ok")}, {Unclear}}
  ELSE {{}, {Says("ok")}, {Says("bug")}, {Malformed}} \cup IF i = i1 THEN {{GivenUp}} ELSE {}

Targets(type, pin) == [name |-> "targets", type |-> type, pin |-> pin]
Observation(pin) == [name |-> "observation", type |-> "harness", pin |-> pin]
Classify(pin) == [name |-> "classify", type |-> "llm", pin |-> pin]
Confirm == [name |-> "confirm", type |-> "llm", pin |-> "never"]

Pins(targets, observation, classify) ==
  [targets |-> targets, observation |-> observation, classify |-> classify, confirm |-> "unpinned"]
AllPinned == Pins("good", "good", "unpinned")

(* first and second: the declarations of the two items. *)
PipelineConf(stages0, first, second, cap, fits) ==
  [stages |-> stages0, versions |-> <<vOld, vNew>>, baseline |-> vOld, samples |-> 1, cap |-> cap,
   items |-> <<i1, i2>>, decl |-> (i1 :> first @@ i2 :> second), fits |-> (i1 :> TRUE @@ i2 :> fits),
   pinned |-> (i1 :> Response("ok", 9, first.classify # "odd")
               @@ i2 :> Response("ok", 9, second.classify # "odd")),
   classes |-> {"ok", "bug"}, truth |-> (i1 :> "ok" @@ i2 :> "bug"),
   band |-> (i1 :> "low" @@ i2 :> "high"),
   expected |-> (i1 :> [label |-> "ok", patterns |-> {"retry"}, lines |-> {1}]
                 @@ i2 :> [label |-> "bug", patterns |-> {}, lines |-> {2}]),
   snapshot |-> [i \in {i1, i2} |-> [rendered |-> {1, 2}]],
   asserts |-> <<[type |-> "schema"],
                 [type |-> "label", mode |-> "ordinal", order |-> <<"ok", "bug">>, tolerance |-> 0],
                 [type |-> "evidence"],
                 [type |-> "consistency", samples |-> 1, share |-> <<1, 1>>],
                 [type |-> "cost_latency", population |-> "version", maxCost |-> 1, maxP95 |-> 2]>>]

Smoke == <<Targets("prism", "from_item"), Observation("from_item"), Classify("never")>>
Live == <<Targets("prism", "if_absent"), Observation("if_absent"), Classify("if_absent")>>
Filed == <<Targets("file", "if_absent"), Observation("from_item"), Classify("from_item")>>
Twice == <<Targets("file", "from_item"), Observation("from_item"), Classify("never"), Confirm>>

MCPipelineConfs ==
  {PipelineConf(Smoke, AllPinned, AllPinned, cap, TRUE) : cap \in {3, 9}}
  \cup {PipelineConf(Smoke, AllPinned, [AllPinned EXCEPT !.targets = t], 9, TRUE) : t \in {"odd", "gone", "absent"}}
  \cup {PipelineConf(Smoke, AllPinned, AllPinned, 9, FALSE),
        PipelineConf(Live, [AllPinned EXCEPT !.targets = "unpinned"], Pins("good", "good", "good"), 9, TRUE),
        PipelineConf(Live, AllPinned, [AllPinned EXCEPT !.targets = "unpinned"], 9, FALSE),
        PipelineConf(Live, Pins("good", "unpinned", "unpinned"), AllPinned, 9, TRUE),
        PipelineConf(Filed, Pins("good", "good", "good"), Pins("good", "good", "odd"), 0, TRUE),
        PipelineConf(Filed, Pins("good", "good", "good"), Pins("unpinned", "good", "good"), 0, TRUE),
        PipelineConf(Twice, AllPinned, AllPinned, 2, TRUE),
        PipelineConf([Smoke EXCEPT ![2] = Observation("never")], AllPinned, AllPinned, 9, TRUE),
        [PipelineConf(Filed, Pins("good", "good", "good"), Pins("good", "good", "good"), 0, TRUE)
           EXCEPT !.truth = [i \in {i1, i2} |-> "untold"]]}

-----------------------------------------------------------------------------
Finding(line, tier) == [site |-> site, line |-> line, tier |-> tier]
Fast == [version |-> vOld, language |-> "python", resolution |-> "fast"]
Deep == [version |-> vNew, language |-> "python", resolution |-> "deep"]
MCAnalyzerConfs ==
  {[modes |-> modes,
    baseline |-> vOld, items |-> <<i1, i2, i3>>,
    language |-> [i \in {i1, i2, i3} |-> IF i = i3 THEN "go" ELSE "python"],
    labels |-> [i \in {i1, i2, i3} |-> IF i = i1 THEN <<Finding(10, "asserted"), Finding(12, "candidate")>>
                                       ELSE <<Finding(5, "asserted")>>],
    negatives |-> [i \in {i1, i2, i3} |-> {Finding(16, "asserted")}],
    maximum |-> [i \in {i1, i2, i3} |-> 2], tolerance |-> 3] :
     modes \in {<<Fast, Deep>>, <<Fast, Fast>>}}

Document(contract, resolution, findings) ==
  [contract |-> contract, resolution |-> resolution, findings |-> findings]
MCDocuments(i, mode) ==
  LET Prints(findings) == {Document("sarif-2.1.0", mode.resolution, findings)}
  IN IF i = i1
     THEN {{}, Prints(<<>>), Prints(<<Finding(12, "asserted"), Finding(10, "asserted")>>),
           Prints(<<Finding(12, "candidate"), Finding(13, "candidate"), Finding(17, "asserted")>>),
           Prints(<<Finding(10, "asserted"), Finding(12, "candidate")>>),
           {Document("none", mode.resolution, <<>>)}, {Document("targets-1.0", "none", <<>>)}}
     ELSE {{}, Prints(<<>>), Prints(<<Finding(5, "asserted")>>), Prints(<<Finding(5, "untold")>>)}

=============================================================================
