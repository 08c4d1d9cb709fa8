----------------------------- MODULE Reduction -----------------------------
(***************************************************************************)
(* The reduction of the records of one structured or pipeline run to its   *)
(* metrics: population, per-version summary, risk bands, recomputed         *)
(* assertions, paired comparison and promotion.                            *)
(*                                                                         *)
(* A run is a record [versions, baseline, items, calls, classes, truth,    *)
(* band, samples, asserts, expected, snapshot]: versions, items (sorted)   *)
(* and calls are sequences, the others functions of the item.              *)
(***************************************************************************)
EXTENDS Scoring

VersionNames(run) == ToSet(run.versions)
Candidates(run) == VersionNames(run) \ {run.baseline}

Identity(call) == <<call.version, call.item, call.sample>>

(* Exactly one call for every version, item and sample, or an exception. *)
PopulationIsExact(run) ==
  LET seen == {Identity(run.calls[n]) : n \in DOMAIN run.calls}
  IN /\ seen = VersionNames(run) \X ToSet(run.items) \X (0..run.samples - 1)
     /\ Cardinality(seen) = Len(run.calls)

(* The calls of an exact population: item by item and by sample within one. *)
Calls(run, v, items) ==
  LET Call(i, k) == CHOOSE c \in Range(run.calls) : Identity(c) = <<v, i, k>>
  IN [n \in 1..Len(items) * run.samples |->
        Call(items[(n - 1) \div run.samples + 1], (n - 1) % run.samples)]

NormalizedCall(run, call) == ScoredSample(call, run.truth[call.item])
Rows(run, v, items) ==
  LET calls == Calls(run, v, items) IN [n \in DOMAIN calls |-> NormalizedCall(run, calls[n])]

(* One stage error takes all samples of the item out of the version's scores. *)
StageErrorItemIds(run, v) == StageErrorItems(OfVersion(run.calls, v))
Complete(run, v, items) == Kept(items, Range(items) \ StageErrorItemIds(run, v))

(* What the reducers raise at: a truth that is no class, a confidence that is
   none, and no classes at all. *)
Reducible(run) ==
  /\ run.classes # {}
  /\ \A v \in VersionNames(run) :
       LET rows == Rows(run, v, Complete(run, v, run.items)) IN
       \A n \in DOMAIN rows : rows[n].truth \in run.classes /\ rows[n].conf \in 0..10

Scores(run, v, items) ==
  LET rows == Rows(run, v, Complete(run, v, items))
  IN [rows |-> Len(rows), classification |-> Classification(rows, run.classes), calibration |-> Brier(rows),
      stageErrors |-> [calls |-> Tally(Calls(run, v, items), LAMBDA c : c.error # {}),
                       items |-> StageErrorItemIds(run, v) \cap ToSet(items)]]

RiskBands == {"low", "medium", "high"}
RiskBandSummaries(run, v) ==
  [b \in RiskBands |->
     LET declared == Kept(run.items, {i \in Range(run.items) : run.band[i] = b})
     IN With(Scores(run, v, declared),
             [declared |-> Range(declared), scored |-> Len(Complete(run, v, declared))])]

CostPopulation(kind, calls) == With(CostLatency(calls), [population |-> Population(kind, calls)])

(* Scores leave the items with a stage error out, costs take every call. *)
VersionSummary(run, v) ==
  LET calls == Calls(run, v, run.items)
      rows == Rows(run, v, Complete(run, v, run.items))
  IN With(Scores(run, v, run.items),
          [kappa |-> CohenKappa(rows, run.classes), bands |-> RiskBandSummaries(run, v),
           cost |-> CostPopulation("version", calls),
           cacheHits |-> Over(Tally(calls, LAMBDA c : c.hit), Len(calls))])

(* The assertions, recomputed from the stored records. *)
AssertRow(run, call, context) ==
  LET results == RunAsserts(run.asserts, call, run.expected[call.item], run.snapshot[call.item], context)
      row == NormalizedCall(run, call)
      outcome == IF Prediction(row) = row.truth THEN 10 ELSE 0
      distance == IF row.conf > outcome THEN row.conf - outcome ELSE outcome - row.conf
      failed == SelectSeq(results, LAMBDA r : ~r.passed)
  IN [id |-> Identity(call), expected |-> row.truth, predicted |-> Prediction(row), conf |-> row.conf,
      loss |-> IF ~row.valid \/ row.sentinel # "none" \/ row.prediction = Invalid THEN 10 ELSE distance,
      hard |-> \E n \in DOMAIN failed : failed[n].hard,
      first |-> IF failed = <<>> THEN "none" ELSE failed[1].name, asserts |-> results]

AssertRows(run) ==
  UNION {UNION {{AssertRow(run, run.calls[n], context) :
                   context \in AssertionContext(run.calls, v, run.calls[n].item)} :
                n \in Numbers(run.calls, LAMBDA c : c.version = v)} : v \in VersionNames(run)}

-----------------------------------------------------------------------------
(* The comparison of a candidate with the baseline. *)

(* Variant: only the candidate's stage errors take an item out. *)
PairedByCandidate(run, cand) == Complete(run, cand, run.items)

(* The items that neither version has a stage error for. *)
PairedItems(run, cand) == Complete(run, cand, Complete(run, run.baseline, run.items))

Bundles(run, v, paired) ==
  [i \in ToSet(paired) |-> [item |-> i, calls |-> Calls(run, v, <<i>>), scored |-> Rows(run, v, <<i>>)]]
FlattenScored(bundles) == FlattenSeq([n \in DOMAIN bundles |-> bundles[n].scored])
FlattenCalls(bundles) == FlattenSeq([n \in DOMAIN bundles |-> bundles[n].calls])

SchemaValidity(rows) == Over(Tally(rows, LAMBDA r : r.valid), Len(rows))

(* The statistics that evidence is collected of. *)
Statistic(run, name, bundles) ==
  LET rows == FlattenScored(bundles)
      calls == FlattenCalls(bundles)
  IN CASE name = "macro_f1" -> MacroF1(rows, run.classes)
       [] name = "schema_validity" -> SchemaValidity(rows)
       [] name = "brier" -> Brier(rows).score
       [] name = "kappa" -> CohenKappa(rows, run.classes)
       [] name = "cost_per_item" -> Over(CostOf(calls), Len(bundles))
       [] name = "p95_latency_ms" -> Percentile(Durations(calls), 19, 20)

MetricNames == {"macro_f1", "schema_validity", "brier", "kappa", "cost_per_item", "p95_latency_ms"}

MetricEvidence(base, cand, keys, statistic, draws) ==
  With(PairedDeltaCI(base, cand, keys, statistic, draws),
       [baseline |-> statistic[[n \in DOMAIN keys |-> base[keys[n]]]],
        candidate |-> statistic[[n \in DOMAIN keys |-> cand[keys[n]]]], items |-> Len(keys)])

(* The discordant pairs of an outcome; a row of {} has none. *)
PairedBinary(base, cand, outcome) ==
  LET Side(side) == UNION {UNION {{[id |-> <<i, n>>, passed |-> o] : o \in outcome[side[i].scored[n]]} :
                                  n \in DOMAIN side[i].scored} : i \in DOMAIN side}
  IN Flips(Side(base), Side(cand))

(* The gate. *)
PromotionVerdict(macroF1, validity, recalls) ==
  IF Less(macroF1.lo, <<0, 1>>) THEN "macro_f1"
  ELSE IF Less(validity, <<99, 100>>) THEN "schema_validity"
  ELSE IF \E l \in DOMAIN recalls : Less(recalls[l].hi, <<0, 1>>) THEN "recall"
  ELSE "promotable"

Comparison(run, name, draws) ==
  LET paired == PairedItems(run, name)
      complete == Complete(run, name, run.items)
      validity == SchemaValidity(Rows(run, name, complete))
      base == Bundles(run, run.baseline, paired)
      cand == Bundles(run, name, paired)
      sides == Samples(base, cand)
      Evidence(metric) ==
        MetricEvidence(base, cand, paired, [b \in sides |-> Statistic(run, metric, b)], draws)
      OfClass(l, rate) ==
        MetricEvidence(base, cand, paired, [b \in sides |-> PerClass(FlattenScored(b), l)[rate]], draws)
      population == [paired |-> paired, complete |-> complete, validity |-> validity,
                     excluded |-> Range(run.items) \ Range(paired)]
  IN IF paired = <<>>
     THEN With(population, [promotable |-> FALSE, reason |-> "no pairs", metrics |-> <<>>])
     ELSE LET metrics == [m \in MetricNames |-> Evidence(m)]
              recalls == [l \in run.classes |-> OfClass(l, "recall")]
              scored == UNION {ToSet(b.scored) : b \in Range(base) \cup Range(cand)}
              verdict == PromotionVerdict(metrics["macro_f1"], validity, recalls)
          IN With(population,
               [promotable |-> verdict = "promotable", reason |-> verdict, metrics |-> metrics,
                f1 |-> [l \in run.classes |-> OfClass(l, "f1")], recalls |-> recalls,
                flips |-> [validity |-> PairedBinary(base, cand, [r \in scored |-> {r.valid}]),
                           recall |-> [l \in run.classes |-> PairedBinary(base, cand,
                             [r \in scored |-> IF r.truth = l THEN {r.prediction = l} ELSE {}])]]])

(* What the random generator may draw for the candidates' comparisons. *)
Generated(run, resamples) ==
  {f \in [Candidates(run) -> UNION {Draws(PairedItems(run, c), resamples) : c \in Candidates(run)}] :
     \A c \in Candidates(run) : f[c] \in Draws(PairedItems(run, c), resamples)}

Summarize(run, draws) ==
  [cost |-> CostPopulation("run", run.calls),
   versions |-> [v \in VersionNames(run) |-> VersionSummary(run, v)],
   promotions |-> [c \in Candidates(run) |-> Comparison(run, c, draws[c])],
   asserts |-> AssertRows(run)]
=============================================================================
