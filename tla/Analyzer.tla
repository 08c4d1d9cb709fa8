------------------------------ MODULE Analyzer ------------------------------
(***************************************************************************)
(* run_analyzer: Prism runs in every mode over every item of the mode's    *)
(* language, its findings are matched with the labelled ones, and the      *)
(* modes are compared over the items that were usable in both.             *)
(*                                                                         *)
(* A finding is [site, line, tier], site the category and the file.  A     *)
(* document is [contract, resolution, findings]; "none" stands for an      *)
(* output that satisfies neither contract or omits its resolution.         *)
(***************************************************************************)
EXTENDS Evaluation

CONSTANTS
  AnalyzerConfs,      \* the configurations and task sets
  Documents(_, _),    \* what Prism may print for an item in a mode: sets of at most one
  AnalyzerResamples   \* bound: the bootstrap's resamples

Tiers == {"asserted", "candidate"}

-----------------------------------------------------------------------------
(* Matching. *)

Distance(a, b) == IF a.line > b.line THEN a.line - b.line ELSE b.line - a.line
SameSite(a, b, tolerance) == a.site = b.site /\ Distance(a, b) <= tolerance

Edges(expected, emitted, tolerance) ==
  {e \in (DOMAIN expected) \X (DOMAIN emitted) : SameSite(expected[e[1]], emitted[e[2]], tolerance)}

(* Variant: the labels are served in their order, whatever the distance. *)
EarlierLabel(expected, emitted, a, b) == a[1] < b[1] \/ (a[1] = b[1] /\ a[2] < b[2])

(* Ascending distance, then the expected, then the emitted index. *)
Earlier(expected, emitted, a, b) ==
  LET d(e) == Distance(expected[e[1]], emitted[e[2]])
  IN \/ d(a) < d(b)
     \/ d(a) = d(b) /\ (a[1] < b[1] \/ (a[1] = b[1] /\ a[2] < b[2]))

(* A pair is taken unless one before it has taken its label or its finding. *)
Greedy(expected, emitted, tolerance) ==
  LET edges == Edges(expected, emitted, tolerance)
      Before(e) == {f \in edges : Earlier(expected, emitted, f, e) /\ (f[1] = e[1] \/ f[2] = e[2])}
      taken[e \in edges] == \A f \in Before(e) : ~taken[f]
  IN {e \in edges : taken[e]}

(* An emitted finding above the item's maximum counts as false once more. *)
MatchFindings(expected, emitted, tolerance, negatives, maximum) ==
  LET matches == Greedy(expected, emitted, tolerance)
      unmatched == DOMAIN emitted \ {m[2] : m \in matches}
      surplus == IF Len(emitted) > maximum THEN Len(emitted) - maximum ELSE 0
  IN [tp |-> Cardinality(matches), fp |-> Cardinality(unmatched) + surplus,
      fn |-> Len(expected) - Cardinality(matches), surplus |-> surplus, matches |-> matches,
      negativeHits |-> Quantify(unmatched, LAMBDA n : \E g \in negatives : SameSite(emitted[n], g, tolerance))]

(* A match across tiers is a miss in the one and a false finding in the other. *)
Strata(expected, emitted, matches) ==
  [t \in Tiers |->
     LET E == {n \in DOMAIN expected : expected[n].tier = t}
         G == {n \in DOMAIN emitted : emitted[n].tier = t}
         same == Cardinality(matches \cap (E \X G))
     IN [tp |-> same, fp |-> Cardinality(G) - same, fn |-> Cardinality(E) - same]]

(* The document's contract decides where its findings and its resolution are. *)
Contracts == {"targets-1.0", "sarif-2.1.0"}
ValidDocument(d) == d.contract \in Contracts
FindingsFromDocument(d) == d.findings
DocumentResolution(d) == d.resolution

-----------------------------------------------------------------------------
(* One process. *)

ModeOf(c, v) == c.modes[CHOOSE n \in DOMAIN c.modes : c.modes[n].version = v]
Mode == ModeOf(conf, conf.pairs[at][1])
Fixture == conf.pairs[at][2]

(* Every item of a mode's language; the inputs are written before Prism is
   looked for. *)
ApplicablePairs(c) ==
  LET pairs == Product([n \in DOMAIN c.modes |-> c.modes[n].version], c.items)
  IN Kept(pairs, {p \in ToSet(pairs) : c.language[p[2]] = ModeOf(c, p[1]).language})

AnalyzerRuns ==
  {With(c, [kind |-> "analyzer", pairs |-> ApplicablePairs(c)]) :
     c \in {d \in AnalyzerConfs : ApplicablePairs(d) # <<>>}}

Findings(fs) == fs \in Seq(Range(fs)) /\ \A n \in DOMAIN fs : fs[n].line \in Nat

(* Labels and documents list findings at lines; a label is of one of the tiers. *)
ASSUME AnalyzerAssumption ==
  /\ AnalyzerResamples \in Nat \ {0}
  /\ \A c \in AnalyzerConfs :
    /\ {"modes", "items", "labels", "negatives", "maximum", "tolerance"} \subseteq DOMAIN c
    /\ c.modes \in Seq(Range(c.modes)) /\ c.items \in Seq(Range(c.items))
    /\ \A p \in Range(ApplicablePairs(c)) :
         /\ Findings(c.labels[p[2]]) /\ \A n \in DOMAIN c.labels[p[2]] : c.labels[p[2]][n].tier \in Tiers
         /\ c.maximum[p[2]] \in Nat
         /\ \A doc \in Documents(p[2], ModeOf(c, p[1])) : \A d \in doc : Findings(d.findings)

AnalyzerStart ==
  /\ pc = "start"
  /\ inputs' = TRUE
  /\ pc' = "probe"
  /\ UNCHANGED <<conf, at, rows, got, stages, calls, events, asserts, total, metrics>>

(* A probe that fails becomes the error of every pair. *)
Probe ==
  /\ pc = "probe"
  /\ \E help \in {"flags", "lacking", "error"} : rows' = <<help>>
  /\ pc' = "pair"
  /\ UNCHANGED <<conf, at, got, stages, calls, events, asserts, inputs, total, metrics>>

Blank == [item |-> Fixture, version |-> Mode.version, sample |-> 0, error |-> {},
          skipped |-> FALSE, match |-> {}, strata |-> {}, found |-> <<>>]

(* run_analyzer_item: skipped without the flags; an error when Prism fails,
   prints no valid document or one of another resolution. *)
Analyzed ==
  IF rows[1] = "lacking" THEN {[Blank EXCEPT !.skipped = TRUE]}
  ELSE IF rows[1] = "error" THEN {[Blank EXCEPT !.error = {"analyzer"}]}
  ELSE {IF \A d \in doc : ValidDocument(d) /\ DocumentResolution(d) = Mode.resolution
        THEN IF doc = {} THEN [Blank EXCEPT !.error = {"analyzer"}]
             ELSE LET emitted == FindingsFromDocument(CHOOSE d \in doc : TRUE)
                      match == MatchFindings(conf.labels[Fixture], emitted, conf.tolerance,
                                             conf.negatives[Fixture], conf.maximum[Fixture])
                  IN [Blank EXCEPT !.match = {match}, !.found = emitted,
                                   !.strata = {Strata(conf.labels[Fixture], emitted, match.matches)}]
        ELSE [Blank EXCEPT !.error = {"analyzer"}] : doc \in Documents(Fixture, Mode)}

(* The stage file, which is there already when the axes list a mode twice;
   what the pair gave stays in memory. *)
StageFile == <<Mode.version, Fixture, "analyzer">>
AnalyzePair ==
  /\ pc = "pair"
  /\ IF StageFile \in stages
     THEN Die
     ELSE /\ \E call \in Analyzed : got' = [request |-> TRUE, env |-> {call}]
          /\ stages' = stages \cup {StageFile}
          /\ pc' = "record"
          /\ UNCHANGED <<conf, at, rows, calls, events, asserts, inputs, total, metrics>>

Current == CHOOSE c \in got.env : TRUE

RecordPair ==
  /\ pc = "record"
  /\ calls' = Append(calls, Current)
  /\ pc' = "judge"
  /\ UNCHANGED <<conf, at, rows, got, stages, events, asserts, inputs, total, metrics>>

(* analyzer_match: passed when nothing is false and nothing missed. *)
AnalyzerMatchAssert(call) ==
  {<<Result("analyzer_match", m.fp = 0 /\ m.fn = 0, FALSE)>> : m \in call.match}

JudgePair ==
  /\ pc = "judge"
  /\ asserts' = asserts \cup {[id |-> Identity(Current), results |-> AnalyzerMatchAssert(Current)]}
  /\ pc' = "events"
  /\ UNCHANGED <<conf, at, rows, got, stages, calls, events, inputs, total, metrics>>

EndPair ==
  /\ pc = "events"
  /\ events' = Append(events, Identity(Current))
  /\ pc' = IF at = Len(conf.pairs) THEN "report" ELSE "pair"
  /\ at' = IF at = Len(conf.pairs) THEN at ELSE at + 1
  /\ got' = Nothing
  /\ UNCHANGED <<conf, rows, stages, calls, asserts, inputs, total, metrics>>

-----------------------------------------------------------------------------
(* The report. *)

Rates(tp, fp, fn) ==
  [tp |-> tp, fp |-> fp, fn |-> fn, precision |-> Over(tp, tp + fp), recall |-> Over(tp, tp + fn),
   f1 |-> Over(2 * tp, 2 * tp + fp + fn)]
RatesOf(m) == Rates(m.tp, m.fp, m.fn)
Matched(call) == CHOOSE m \in call.match : TRUE
Tier(call, t) == (CHOOSE s \in call.strata : TRUE)[t]

Usable(call) == call.error = {} /\ ~call.skipped

MatchedRows(scored) == [n \in DOMAIN scored |-> Matched(scored[n])]
TierRows(scored, t) == [n \in DOMAIN scored |-> Tier(scored[n], t)]
Aggregate(tallies) ==
  Rates(Total(tallies, LAMBDA r : r.tp), Total(tallies, LAMBDA r : r.fp),
        Total(tallies, LAMBDA r : r.fn))
MacroOf(scored, metric) ==
  LET sum == FoldFunction(Plus, <<0, 1>>, [n \in DOMAIN scored |-> RatesOf(Matched(scored[n]))[metric]])
  IN Over(sum[1], sum[2] * Len(scored))

AnalyzerStatistic(name, scored) ==
  CASE name = "macro_f1" -> MacroOf(scored, "f1")
    [] name = "micro_precision" -> Aggregate(MatchedRows(scored)).precision
    [] name = "micro_recall" -> Aggregate(MatchedRows(scored)).recall
    [] name = "micro_f1" -> Aggregate(MatchedRows(scored)).f1
    [] name \in Tiers -> Aggregate(TierRows(scored, name)).f1
AnalyzerMetrics == {"macro_f1", "micro_precision", "micro_recall", "micro_f1"} \cup Tiers

UsableCalls(v) ==
  LET mine == OfVersion(calls, v) IN Kept(mine, {c \in Range(mine) : Usable(c)})
UsableItems(v) == {UsableCalls(v)[n].item : n \in DOMAIN UsableCalls(v)}
AnalyzerPairs(cand) ==
  Kept(conf.items, UsableItems(conf.baseline) \cap UsableItems(cand))

AnalyzerComparison(cand, draws) ==
  LET paired == AnalyzerPairs(cand)
      Side(v) == [i \in ToSet(paired) |-> OfItem(UsableCalls(v), i)[1]]
      Evidence(m) ==
        PairedDeltaCI(Side(conf.baseline), Side(cand), paired,
                      [b \in Samples(Side(conf.baseline), Side(cand)) |-> AnalyzerStatistic(m, b)], draws)
      evidence == [m \in AnalyzerMetrics |-> Evidence(m)]
  IN IF paired = <<>> THEN [paired |-> paired, promotable |-> FALSE, metrics |-> <<>>]
     ELSE [paired |-> paired, promotable |-> ~Less(evidence["macro_f1"].lo, <<0, 1>>),
           metrics |-> evidence]

SummarizeMode(v) ==
  LET mine == OfVersion(calls, v)
      failed == StageErrorItems(mine)
      scored == Kept(mine, {c \in Range(mine) : c.item \notin failed /\ ~c.skipped})
  IN [n |-> Len(scored), micro |-> Aggregate(MatchedRows(scored)),
      macro |-> [m \in {"precision", "recall", "f1"} |-> MacroOf(scored, m)],
      strata |-> [t \in Tiers |-> Aggregate(TierRows(scored, t))],
      expected |-> Total(scored, LAMBDA c : Matched(c).tp + Matched(c).fn),
      emitted |-> Total(scored, LAMBDA c : Len(c.found)), failed |-> failed,
      skipped |-> {mine[n].item : n \in Numbers(mine, LAMBDA c : c.skipped)}]

SummarizeAnalyzer(draws) ==
  LET versions == {m.version : m \in ToSet(conf.modes)}
  IN [versions |-> [v \in versions |-> SummarizeMode(v)],
      promotions |-> [v \in versions \ {conf.baseline} |-> AnalyzerComparison(v, draws[v])]]

AnalyzerDraws ==
  LET cands == {m.version : m \in ToSet(conf.modes)} \ {conf.baseline}
      All == UNION {Draws(AnalyzerPairs(c), AnalyzerResamples) : c \in cands}
  IN {f \in [cands -> All] : \A c \in cands : f[c] \in Draws(AnalyzerPairs(c), AnalyzerResamples)}

RenderAnalyzer ==
  /\ pc = "report"
  /\ \E draws \in AnalyzerDraws : metrics' = {SummarizeAnalyzer(draws)}
  /\ pc' = "verify"
  /\ UNCHANGED <<conf, at, rows, got, stages, calls, events, asserts, inputs, total>>

(* verify_analyzer_records, once the report is written. *)
Identities == {<<p[1], p[2], 0>> : p \in ToSet(conf.pairs)}
VerifyRecords ==
  /\ pc = "verify"
  /\ pc' = IF /\ {Identity(calls[n]) : n \in DOMAIN calls} = Identities
              /\ {<<s[1], s[2], 0>> : s \in stages} = Identities
              /\ {a.id : a \in asserts} = Identities
           THEN "done" ELSE "died"
  /\ UNCHANGED <<conf, at, rows, got, stages, calls, events, asserts, inputs, total, metrics>>

AnalyzerInit ==
  /\ conf \in AnalyzerRuns
  /\ EvaluationInit

AnalyzerNext ==
  /\ conf.kind = "analyzer"
  /\ \/ AnalyzerStart \/ Probe \/ AnalyzePair \/ RecordPair \/ JudgePair \/ EndPair
     \/ RenderAnalyzer \/ VerifyRecords
=============================================================================
