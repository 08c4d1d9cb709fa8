--------------------------- MODULE TwoArmMetrics ---------------------------
(***************************************************************************)
(* The graded half of the two-arm harness, as operators: from an executor's *)
(* output to its judge record (judge_assert.py, judge.py), and from the     *)
(* records of a results directory to the summary of the run (metrics.py,    *)
(* report.py).  A rate is the pair of its numerator and denominator.        *)
(*                                                                         *)
(* A review is an executor's output: whether it has the findings marker,   *)
(* its verdict, whether findings can be extracted, whether it says "No     *)
(* findings.", and the workspace labels.  An answer is the judge's: its     *)
(* form, and when that is an object with every key the ids it lists, those *)
(* it found, the false and the neutral findings and the tokens.            *)
(***************************************************************************)
EXTENDS Integers, Sequences, FiniteSets, FiniteSetsExt, SequencesExt, Combinatorics

CONSTANT IdOrder  \* the task ids as they sort

Arms == {"baseline", "treatment"}
Labels == {"checklist", "disconfirm", "verify"}

-----------------------------------------------------------------------------
(* The executor.  An attempt of the CLI ends in one of the ways "timeout",
   "unstarted", "nonzero", "garbage" (or an error in good JSON), "answer", and
   the last has a review.  What is returned is the set of reviews: none for a
   ProviderError. *)

(* Only a nonzero exit is tried again. *)
RunClaude(first, second) == IF first.end = "nonzero" THEN second.review ELSE first.review
RunCodex(first) == first.review

-----------------------------------------------------------------------------
(* The judge record of one review. *)

Verdict(v) == IF v.marker THEN v.verdict ELSE "none"
Adherence(v) == v.labels

(* normalize_block: a rejection that lists nothing and an approval that neither
   lists findings nor says there are none are no usable surface. *)
Parses(v) ==
  /\ Verdict(v) # "none"
  /\ v.findings \/ (Verdict(v) = "approve" /\ v.none)

Flagged(v) == Verdict(v) = "reject"

(* _parse_and_validate: false_findings is required and not looked at. *)
Valid(a) == a.form \in {"good", "odd"}

(* judge_review: what two attempts give, {} when neither is valid. *)
JudgeReview(first, second) ==
  IF Valid(first) THEN {first} ELSE IF Valid(second) THEN {second} ELSE {}

ItemPass(seeded, truth, found, false, flagged) ==
  IF seeded THEN truth # {} /\ truth \subseteq found /\ false = 0 /\ flagged
            ELSE false = 0 /\ ~flagged

(* A judge record: what is known of the item, what the judge says, and the
   outcome. *)
Record(base, judged, parse, flagged, pass, error) ==
  [arm |-> base.arm, task |-> base.task, seeded |-> base.seeded, truth |-> base.truth,
   labels |-> base.labels,
   ids |-> judged.ids, found |-> judged.found, false |-> judged.false,
   neutral |-> judged.neutral, tokens |-> judged.tokens,
   parse |-> parse, flagged |-> flagged, pass |-> pass, error |-> error]

Ungraded == [ids |-> {}, found |-> {}, false |-> 0, neutral |-> 0, tokens |-> {}]
ParseFailure(base) == Record(base, Ungraded, FALSE, FALSE, FALSE, FALSE)
JudgeFailure(base, flagged) == Record(base, Ungraded, TRUE, flagged, FALSE, TRUE)
Graded(base, flagged, a) ==
  Record(base, a, TRUE, flagged,
         ItemPass(base.seeded, base.truth, a.found, a.false, flagged), FALSE)

(* get_assert: the record it writes.  An answer with a false_findings that is
   no number raises instead, and so leaves none. *)
JudgeRecords(base, v, first, second) ==
  IF ~Parses(v) THEN {ParseFailure(base)}
  ELSE IF JudgeReview(first, second) = {} THEN {JudgeFailure(base, Flagged(v))}
  ELSE {Graded(base, Flagged(v), a) : a \in {b \in JudgeReview(first, second) : b.form = "good"}}

-----------------------------------------------------------------------------
(* Reductions of a set of records. *)

Of(rows, arm) == {r \in rows : r.arm = arm}
Scored(rows, arm) == {r \in Of(rows, arm) : ~r.error}
Rate(k, n) == <<k, IF n = 0 THEN 1 ELSE n>>
Above(p, q) == p[1] * q[2] > q[1] * p[2]

PassRate(rows, arm) ==
  LET scored == Scored(rows, arm)
      k == Quantify(scored, LAMBDA r : r.pass)
  IN [k |-> k, n |-> Cardinality(scored), rate |-> Rate(k, Cardinality(scored)),
      errors |-> Cardinality(Of(rows, arm)) - Cardinality(scored)]

(* codex reports one token total only: its fields count as 0 here. *)
TokenTotals(calls, arm) ==
  [logical |-> MapThenSumSet(LAMBDA c : c.logical, Of(calls, arm)),
   cost |-> MapThenSumSet(LAMBDA c : c.cost, Of(calls, arm))]

JudgeTokenTotals(rows, arm) ==
  LET known == {r \in Of(rows, arm) : r.tokens # {}}
  IN [total |-> MapThenSumSet(LAMBDA r : CHOOSE n \in r.tokens : TRUE, known),
      missing |-> Cardinality(Of(rows, arm)) - Cardinality(known)]

(* The difference, and the percentage as a pair when there is something to
   take it of. *)
Delta(b, t) == [abs |-> t - b, pct |-> IF b = 0 THEN {} ELSE {<<(t - b) * 100, b>>}]

Confusion(rows, arm) ==
  LET scored == Scored(rows, arm)
      seeded == {r \in scored : r.seeded}
      Count(s, f) == Quantify(scored, LAMBDA r : r.seeded = s /\ r.flagged = f)
  IN [tp |-> Count(TRUE, TRUE), fp |-> Count(FALSE, TRUE),
      tn |-> Count(FALSE, FALSE), fn |-> Count(TRUE, FALSE), n |-> Cardinality(scored),
      found |-> MapThenSumSet(LAMBDA r : Cardinality(r.truth \cap r.found), seeded),
      total |-> MapThenSumSet(LAMBDA r : Cardinality(r.truth), seeded),
      mismatches |-> MapThenSumSet(LAMBDA r : Cardinality(r.ids \ r.truth), seeded),
      false |-> MapThenSumSet(LAMBDA r : r.false, scored),
      neutral |-> MapThenSumSet(LAMBDA r : r.neutral, scored)]

(* Only ids that both arms have a graded record of. *)
PairedFlips(rows) ==
  LET Passes(arm) == {r.task : r \in {s \in Scored(rows, arm) : s.pass}}
      Fails(arm) == {r.task : r \in {s \in Scored(rows, arm) : ~s.pass}}
      Both(B, T) == Cardinality(B \cap T)
  IN [bothPass |-> Both(Passes("baseline"), Passes("treatment")),
      bothFail |-> Both(Fails("baseline"), Fails("treatment")),
      onlyBaseline |-> Both(Passes("baseline"), Fails("treatment")),
      onlyTreatment |-> Both(Fails("baseline"), Passes("treatment"))]

(* mcnemar_p, as a fraction of 2^n: twice the smaller binomial tail, at most 1. *)
McNemar(b, c) ==
  LET n == b + c
      Below(k) == MapThenSumSet(LAMBDA i : choose(n, i), 0..k)
      tails == {Below(Min({b, c})), 2^n - Below(Max({b, c}) - 1)}
  IN IF n = 0 THEN <<1, 1>> ELSE <<Min({2 * Min(tails), 2^n}), 2^n>>

AdherenceRates(rows) ==
  LET of == Of(rows, "treatment")
      Hits(ls) == Rate(Quantify(of, LAMBDA r : ls \subseteq r.labels), Cardinality(of))
  IN [ls \in {{l} : l \in Labels} \union {Labels} |-> Hits(ls)]

Floor == <<15, 100>>
Flags(b, t, pct, negativeControl) ==
  LET win == Above(t, b) IN
  [costAdjusted |-> win /\ \E p \in pct : Above(p, <<20, 1>>),
   harnessBroken |-> negativeControl /\ win,
   floored |-> Above(Floor, b) /\ Above(Floor, t)]

Summarize(calls, rows, negativeControl) ==
  LET b == PassRate(rows, "baseline")
      t == PassRate(rows, "treatment")
      flips == PairedFlips(rows)
      tokens == [a \in Arms |-> TokenTotals(calls, a)]
      delta == Delta(tokens["baseline"].logical, tokens["treatment"].logical)
  IN [pass |-> [a \in Arms |-> IF a = "baseline" THEN b ELSE t],
      tokens |-> tokens, delta |-> delta,
      confusion |-> [a \in Arms |-> Confusion(rows, a)],
      flips |-> flips, p |-> McNemar(flips.onlyBaseline, flips.onlyTreatment),
      adherence |-> AdherenceRates(rows),
      judgeTokens |-> [a \in Arms |-> JudgeTokenTotals(rows, a)],
      flags |-> Flags(b.rate, t.rate, delta.pct, negativeControl),
      judgeErrors |-> b.errors + t.errors,
      parseFailures |-> Quantify(rows, LAMBDA r : ~r.error /\ ~r.parse)]

-----------------------------------------------------------------------------
(* What the report says beside the numbers. *)

AtCeiling(c) == c.total > 0 /\ c.found = c.total
RecallCeilings(s) == {a \in Arms : AtCeiling(s.confusion[a])}

(* One of the two noise screens; the Wilson intervals are the other. *)
FlipsAreNoise(s) == Above(s.p, <<5, 100>>)

(* The numbers that the report's blocks print. *)
Blocks(s) ==
  [arms |-> [a \in Arms |-> <<s.pass[a], s.tokens[a]>>], judgeTokens |-> s.judgeTokens,
   deltas |-> s.delta, confusion |-> s.confusion, flips |-> <<s.flips, s.p>>,
   adherence |-> s.adherence, flags |-> <<s.flags, s.judgeErrors, s.parseFailures>>]

(* With both arms at the floor the confusion block leads. *)
Leads(s) == IF s.flags.floored THEN "confusion" ELSE "arms"

ReportOf(s) ==
  [blocks |-> Blocks(s), ceilings |-> RecallCeilings(s), noise |-> FlipsAreNoise(s),
   leads |-> Leads(s)]

SeededQuota == 7
CleanQuota == 3

Before(t, u) ==
  \E i, j \in DOMAIN IdOrder : i < j /\ IdOrder[i] = t /\ IdOrder[j] = u

(* The rows of a set that an id puts before a row, the first of them, and all
   in the order of their ids: no two rows of an arm have the same one. *)
Earlier(S, r) == {q \in S : Before(q.task, r.task)}
First(S, n) == {r \in S : Cardinality(Earlier(S, r)) < n}
Sorted(S) == [i \in 1..Cardinality(S) |-> CHOOSE r \in S : Cardinality(Earlier(S, r)) = i - 1]

(* The rows the judge could grade, seeded or clean. *)
Stratum(rows, arm, seeded) == {r \in Scored(rows, arm) : r.parse /\ r.seeded = seeded}

(* A lane of the human's sample: the first seeded and the first clean rows. *)
Lane(rows, arm) ==
  Sorted(First(Stratum(rows, arm, TRUE), SeededQuota)
         \union First(Stratum(rows, arm, FALSE), CleanQuota))

(* The rounds in which both lanes have a row. *)
Rounds(b, t) == IF Len(b) < Len(t) THEN Len(b) ELSE Len(t)
Turn(b, t, n) == IF n % 2 = 1 THEN b[(n + 1) \div 2] ELSE t[n \div 2]

(* Variant: the round robin ends with the shorter lane. *)
SampleByZip(rows) ==
  LET b == Lane(rows, "baseline")
      t == Lane(rows, "treatment")
  IN [n \in 1..2 * Rounds(b, t) |-> Turn(b, t, n)]

(* Round robin over the arms: in turn, and then what the longer lane has left. *)
SampleItems(rows) ==
  LET b == Lane(rows, "baseline")
      t == Lane(rows, "treatment")
      rest == IF Len(b) > Len(t) THEN b ELSE t
  IN [n \in 1..Len(b) + Len(t) |->
        IF n <= 2 * Rounds(b, t) THEN Turn(b, t, n) ELSE rest[n - Rounds(b, t)]]

(* The sheet the human fills in. *)
SpotSheet(rows) ==
  LET sample == SampleItems(rows)
      copied == {"arm", "task", "seeded", "flagged", "found", "false", "pass"}
  IN [i \in DOMAIN sample |->
        [f \in copied \union {"agree"} |-> IF f \in copied THEN sample[i][f] ELSE {}]]
=============================================================================
