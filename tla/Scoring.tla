------------------------------ MODULE Scoring ------------------------------
(***************************************************************************)
(* From a provider's envelope to the numbers of a structured run, as       *)
(* operators: normalization, scored rows, classification, calibration,     *)
(* agreement, cost and latency, the assertions, and the paired bootstrap.  *)
(*                                                                         *)
(* A response is [class, conf, fits, lines, mentions]: conf in tenths,     *)
(* fits whether it satisfies the response schema, mentions the rationale   *)
(* patterns it matches; the envelope contract requires one.  A rate is the  *)
(* pair of its numerator and denominator.                                  *)
(***************************************************************************)
EXTENDS Integers, Sequences, FiniteSets, FiniteSetsExt, SequencesExt

Invalid == "__invalid__"

(* Ratios in their lowest terms, over a positive denominator. *)
Gcd(d, n) == Max({g \in 1..d : d % g = 0 /\ n % g = 0})
Lowest(n, d) == LET g == Gcd(d, n) IN <<n \div g, d \div g>>
Plus(p, q) == Lowest(p[1] * q[2] + q[1] * p[2], p[2] * q[2])
Minus(p, q) == Plus(p, <<-q[1], q[2]>>)
Less(p, q) == p[1] * q[2] < q[1] * p[2]
Over(k, n) == IF n = 0 THEN <<0, 1>> ELSE Lowest(k, n)

Numbers(rows, P(_)) == {n \in DOMAIN rows : P(rows[n])}
Tally(rows, P(_)) == Cardinality(Numbers(rows, P))
Total(rows, F(_)) ==
  LET sum[n \in 0..Len(rows)] == IF n = 0 THEN 0 ELSE sum[n - 1] + F(rows[n]) IN sum[Len(rows)]
CostOf(calls) == Total(calls, LAMBDA c : c.cost)

(* The members of a sequence that are in a set, and a configuration or a call
   with further fields. *)
Kept(seq, wanted) ==
  LET kept[n \in 0..Len(seq)] ==
        IF n = 0 THEN <<>>
        ELSE IF seq[n] \in wanted THEN Append(kept[n - 1], seq[n]) ELSE kept[n - 1]
  IN kept[Len(seq)]
With(r, more) == [f \in DOMAIN r \cup DOMAIN more |-> IF f \in DOMAIN more THEN more[f] ELSE r[f]]

-----------------------------------------------------------------------------
(* What a call record says of its envelope. *)
Normalize(env) ==
  [response |-> env.response,
   valid |-> env.response.fits,
   sentinel |-> IF ~env.final THEN "none"
                ELSE IF env.response.class = "provider_error" THEN "transport"
                ELSE "schema"]

(* The row a call is scored as. *)
ScoredSample(call, truth) ==
  LET valid == call.valid /\ call.sentinel # "transport"
      forced == ~valid \/ call.sentinel # "none"
      said == IF valid THEN call.response ELSE [class |-> Invalid, conf |-> 0]
  IN [item |-> call.item, truth |-> truth, first |-> call.first, final |-> call.final,
      sentinel |-> call.sentinel, valid |-> valid, prediction |-> said.class,
      conf |-> IF forced THEN 0 ELSE said.conf, correct |-> ~forced /\ said.class = truth]

Prediction(row) == IF row.valid THEN row.prediction ELSE Invalid

-----------------------------------------------------------------------------
(* Classification. *)

PerClass(rows, label) ==
  LET tp == Tally(rows, LAMBDA r : r.truth = label /\ Prediction(r) = label)
      fp == Tally(rows, LAMBDA r : r.truth # label /\ Prediction(r) = label)
      fn == Tally(rows, LAMBDA r : r.truth = label /\ Prediction(r) # label)
  IN [tp |-> tp, fp |-> fp, fn |-> fn, precision |-> Over(tp, tp + fp),
      recall |-> Over(tp, tp + fn), f1 |-> Over(2 * tp, 2 * tp + fp + fn)]

MacroF1(rows, classes) ==
  LET sum == FoldFunction(Plus, <<0, 1>>, [l \in classes |-> PerClass(rows, l).f1])
  IN Over(sum[1], sum[2] * Cardinality(classes))

Classification(rows, classes) ==
  LET columns == classes \cup {Invalid} \cup {Prediction(rows[n]) : n \in DOMAIN rows}
      known == Tally(rows, LAMBDA r : r.first # "unknown")
      first == Tally(rows, LAMBDA r : r.first = "valid")
  IN [n |-> Len(rows),
      confusion |-> [t \in classes |-> [p \in columns |->
                       Tally(rows, LAMBDA r : r.truth = t /\ Prediction(r) = p)]],
      perClass |-> [l \in classes |-> PerClass(rows, l)],
      macroF1 |-> MacroF1(rows, classes),
      firstValid |-> IF known = 0 THEN {} ELSE {<<first, known>>},
      firstUnknown |-> Len(rows) - known,
      valid |-> Over(Tally(rows, LAMBDA r : r.valid), Len(rows)),
      repaired |-> IF known = 0 THEN {} ELSE {<<Tally(rows, LAMBDA r : r.first = "invalid"), known>>}]

(* Calibration.  A row under a penalty has confidence 0 in an outcome of 1. *)
Forced(row) == ~row.valid \/ row.final \/ row.sentinel # "none" \/ row.prediction = Invalid
BrierInputs(row) ==
  IF Forced(row) THEN [conf |-> 0, outcome |-> 10]
                 ELSE [conf |-> row.conf, outcome |-> IF row.correct THEN 10 ELSE 0]
Bin(conf) == IF conf = 10 THEN 9 ELSE conf

Brier(rows) ==
  LET In(b) == Numbers(rows, LAMBDA r : Bin(BrierInputs(r).conf) = b)
      Loss(r) == (BrierInputs(r).conf - BrierInputs(r).outcome) * (BrierInputs(r).conf - BrierInputs(r).outcome)
  IN [score |-> Over(Total(rows, Loss), 100 * Len(rows)), n |-> Len(rows),
      penalty |-> Tally(rows, Forced),
      bins |-> [b \in 0..9 |->
        [n |-> Cardinality(In(b)), items |-> {rows[n].item : n \in In(b)},
         outcomes |-> MapThenSumSet(LAMBDA n : BrierInputs(rows[n]).outcome, In(b))]]]

CohenKappa(rows, classes) ==
  LET n == Len(rows)
      labels == classes \cup {Prediction(rows[k]) : k \in DOMAIN rows}
      agree == Tally(rows, LAMBDA r : r.truth = Prediction(r))
      chance == MapThenSumSet(LAMBDA l : Tally(rows, LAMBDA r : r.truth = l) *
                                         Tally(rows, LAMBDA r : Prediction(r) = l), labels)
  IN IF n = 0 THEN <<0, 1>>
     ELSE IF chance = n * n THEN <<IF agree = n THEN 1 ELSE 0, 1>>
     ELSE Lowest(agree * n - chance, n * n - chance)

-----------------------------------------------------------------------------
(* Order statistics, cost and latency.  Every invocation has an id of its
   own, so that no population holds one twice. *)

(* The k-th of a sequence of ratios in ascending order. *)
Ordered(values, k) ==
  CHOOSE x \in Range(values) : /\ Tally(values, LAMBDA y : Less(y, x)) < k
                               /\ k <= Tally(values, LAMBDA y : ~Less(x, y))

(* Linear interpolation at the quantile k/of of a nonempty sequence of ratios. *)
Percentile(values, k, of) ==
  LET pos == (Len(values) - 1) * k
      part == pos % of
      low == Ordered(values, pos \div of + 1)
      high == IF part = 0 THEN low ELSE Ordered(values, pos \div of + 2)
  IN Lowest(low[1] * high[2] * (of - part) + high[1] * low[2] * part, low[2] * high[2] * of)

Durations(calls) == [n \in DOMAIN calls |-> <<calls[n].duration, 1>>]

CostLatency(calls) ==
  [calls |-> Len(calls), cost |-> CostOf(calls),
   p50 |-> IF calls = <<>> THEN {} ELSE {Percentile(Durations(calls), 1, 2)},
   p95 |-> IF calls = <<>> THEN {} ELSE {Percentile(Durations(calls), 19, 20)}]

-----------------------------------------------------------------------------
(* Assertions.  A result is [name, passed, hard]. *)

Result(name, passed, hard) == [name |-> name, passed |-> passed, hard |-> hard]

SchemaAssert(call) == Result("schema", call.response.fits, TRUE)

LabelAssert(call, expected, cfg) ==
  LET actual == call.response.class
      At(l) == CHOOSE n \in DOMAIN cfg.order : cfg.order[n] = l
      Ordinal == /\ {actual, expected.label} \subseteq ToSet(cfg.order)
                 /\ At(actual) - At(expected.label) \in -cfg.tolerance..cfg.tolerance
  IN Result("label", IF cfg.mode = "exact" THEN actual = expected.label ELSE Ordinal, FALSE)

EvidenceAssert(call, expected, item) ==
  Result("evidence", /\ expected.patterns \subseteq call.response.mentions
                     /\ call.response.lines \subseteq item.rendered
                     /\ expected.lines \subseteq call.response.lines, FALSE)

(* The share of the modal class among the samples of one item. *)
ConsistencyAssert(samples, cfg) ==
  LET labels == [n \in DOMAIN samples |-> samples[n].response.class]
      modal == Max({Tally(labels, LAMBDA l : l = labels[n]) : n \in DOMAIN labels})
  IN Result("consistency", /\ cfg.samples > 1
                           /\ samples # <<>>
                           /\ ~Less(<<modal, Len(samples)>>, cfg.share), FALSE)

(* The nearest-rank percentile: another one than Percentile. *)
P95(durations) ==
  LET n == Len(durations)
  IN SortSeq(durations, <)[(95 * n + 99) \div 100]

CostLatencyAssert(samples, population, cfg) ==
  Result("cost_latency",
    /\ population.kind = cfg.population
    /\ samples # <<>>
    /\ population.samples = Len(samples)
    /\ population.kind = "version" => Cardinality({samples[n].version : n \in DOMAIN samples}) = 1
    /\ population.items = Cardinality({samples[n].item : n \in DOMAIN samples})
    /\ \A n \in DOMAIN samples : samples[n].cost <= cfg.maxCost
    /\ P95([n \in DOMAIN samples |-> samples[n].duration]) <= cfg.maxP95, FALSE)

(* assertion_context: the samples of an item and the two populations, none
   when the item has a stage error in that version. *)
Population(kind, calls) ==
  [kind |-> kind, items |-> Cardinality({calls[n].item : n \in DOMAIN calls}), samples |-> Len(calls)]
OfVersion(calls, v) == Kept(calls, {c \in Range(calls) : c.version = v})
OfItem(calls, i) == Kept(calls, {c \in Range(calls) : c.item = i})
StageErrorItems(calls) == {calls[n].item : n \in Numbers(calls, LAMBDA c : c.error # {})}

AssertionContext(calls, v, i) ==
  LET mine == OfVersion(calls, v)
  IN IF i \in StageErrorItems(mine) \/ OfItem(mine, i) = <<>> THEN {}
     ELSE {[item |-> OfItem(mine, i), run |-> calls, version |-> mine]}

RunAssert(cfg, call, expected, item, context) ==
  CASE cfg.type = "schema" -> SchemaAssert(call)
    [] cfg.type = "label" -> LabelAssert(call, expected, cfg)
    [] cfg.type = "evidence" -> EvidenceAssert(call, expected, item)
    [] cfg.type = "consistency" -> ConsistencyAssert(context.item, cfg)
    [] cfg.type = "cost_latency" ->
         LET samples == IF cfg.population = "run" THEN context.run ELSE context.version
         IN CostLatencyAssert(samples, Population(cfg.population, samples), cfg)

(* After a hard failure nothing applies: a failed soft result stands for it. *)
RunAsserts(cfgs, call, expected, item, context) ==
  LET Raw(n) == RunAssert(cfgs[n], call, expected, item, context)
      Dead(n) == \E k \in 1..n - 1 : Raw(k).hard /\ ~Raw(k).passed
  IN [n \in DOMAIN cfgs |-> IF Dead(n) THEN Result(cfgs[n].type, FALSE, FALSE) ELSE Raw(n)]

-----------------------------------------------------------------------------
(* Paired statistics.  A bundle is [item, calls, scored]; base and cand are
   functions from the paired items to bundles. *)

(* The generator is seeded anew for every metric: all of them see the same
   draws, each as long as the sequence of keys. *)
Draws(keys, resamples) == [1..resamples -> [DOMAIN keys -> DOMAIN keys]]

(* A statistic is a function of such sequences. *)
Samples(base, cand) == Seq(Range(base) \cup Range(cand))

PairedDeltaCI(base, cand, keys, statistic, draws) ==
  LET Of(side, draw) == statistic[[n \in DOMAIN draw |-> side[keys[draw[n]]]]]
      Change(draw) == Minus(Of(cand, draw), Of(base, draw))
      deltas == [d \in DOMAIN draws |-> Change(draws[d])]
  IN [delta |-> Change([n \in DOMAIN keys |-> n]),
      lo |-> Percentile(deltas, 1, 40), hi |-> Percentile(deltas, 39, 40)]

(* The flip table of two sets of rows [id, passed]. *)
Flips(a, b) ==
  LET Both(x, y) == Cardinality({r \in a : r.passed = x /\ [id |-> r.id, passed |-> y] \in b})
  IN [bothPass |-> Both(TRUE, TRUE), bothFail |-> Both(FALSE, FALSE),
      onlyBaseline |-> Both(TRUE, FALSE), onlyTreatment |-> Both(FALSE, TRUE)]
=============================================================================
