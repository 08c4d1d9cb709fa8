---------------------------- MODULE MCTwoArmRun ----------------------------
(***************************************************************************)
(* Two runs over one directory, a seeded and a clean item.  In the first   *)
(* the executor rejects or breaks the format, in the second it approves or *)
(* fails, once or for good; broken reviews are long and can exceed the     *)
(* budget.  The second run has other items, or a judge of the executor's   *)
(* family; a first has a template slot left.  The truth of the seeded item *)
(* is corrected before a rescore.                                          *)
(***************************************************************************)
EXTENDS TwoArmRun

CONSTANTS s1, c1

Review(v, f, n, cost) ==
  [marker |-> TRUE, verdict |-> v, findings |-> f, none |-> n, labels |-> {"verify"}, cost |-> cost]
Prints(v) == [end |-> "answer", review |-> {v}]
Fails == [end |-> "nonzero", review |-> {}]
Rejects == Review("reject", TRUE, FALSE, 1)
Broken == Review("reject", FALSE, TRUE, 3)
Approves == Review("approve", FALSE, TRUE, 1)

Answer(form, found, false) ==
  [form |-> form, ids |-> {"d1", "d2"}, found |-> found, false |-> false, neutral |-> 0, tokens |-> {}]
Hit == Answer("good", {"d1"}, 0)
NewHit == Answer("good", {"d2"}, 0)
Missed == Answer("good", {}, 1)
Odd == Answer("odd", {}, 0)
Bad == Answer("malformed", {}, 0)

Config(items, provider, missing, slot) ==
  [missing |-> missing, shape |-> "ablation", form |-> "skill", provider |-> provider,
   judgeProvider |-> "codex", allowSameFamily |-> items = 1, baselines |-> 1, elements |-> 1,
   absent |-> {}, maxItems |-> items, maxCost |-> 8, slot |-> slot, priced |-> TRUE,
   negativeControl |-> TRUE]

MCManifest == <<s1, c1>>
MCIdOrder == <<c1, s1>>
MCSeeded == {s1}
MCTruth == [t \in {s1, c1} |-> IF t = s1 THEN {"d1"} ELSE {}]
MCRevised == [t \in {s1, c1} |-> IF t = s1 THEN {"d2"} ELSE {}]
MCConfigs == [r \in 1..2 |->
  IF r = 1 THEN {Config(2, "claude", {}, FALSE), Config(2, "claude", {}, TRUE)}
           ELSE {Config(1, "codex", {}, FALSE), Config(2, "claude", {}, FALSE),
                 Config(2, "codex", {}, FALSE)}]
MCOutputs == [r \in 1..2 |-> 
  IF r = 1 THEN {Prints(Rejects), Prints(Broken)} ELSE {Prints(Approves), Fails}]
MCAnswers == [r \in 1..2 |-> IF r = 1 THEN {Hit, Odd, Bad} ELSE {Hit}]
MCRegrades == {NewHit, Missed, Bad}
=============================================================================
