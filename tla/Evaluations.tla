---------------------------- MODULE Evaluations ----------------------------
(***************************************************************************)
(* A run of the structured harness that is no prompt ablation: a pipeline  *)
(* or an analyzer run, and what holds of both.                             *)
(***************************************************************************)
EXTENDS Pipeline, Analyzer

Init == PipelineInit \/ AnalyzerInit

Next == PipelineNext \/ AnalyzerNext \/ Kill

Spec == Init /\ [][Next]_vars

-----------------------------------------------------------------------------
(* Pipeline: no stage has a file unless every earlier stage of the pair has
   one, and the stage error of a call names the first stage that has none; a
   call without one went through them all.  run_pipeline_item records row by
   row and returns from the middle of its loop; the call record, the event
   rows and the exclusion of the item rest on that stage's name. *)
StagesFollowTheirInputs ==
  conf.kind = "pipeline" =>
    LET Name(n) == conf.stages[n].name
        Filed(v, i) == {n \in DOMAIN conf.stages : <<v, i, Name(n)>> \in stages}
        Missing(v, i) == {Name(n) : n \in {m \in DOMAIN conf.stages : \A k \in 1..m - 1 : k \in Filed(v, i)}
                                           \ Filed(v, i)}
    IN /\ \A p \in ToSet(conf.pairs) : \A n \in Filed(p[2], p[1]) : 1..n \subseteq Filed(p[2], p[1])
       /\ \A n \in DOMAIN calls : calls[n].error = Missing(calls[n].version, calls[n].item)

(* Both kinds: a run that has metrics has its inputs, one call and one assert
   record for each pair and no other, and never went over its cap; and the
   pipeline stops at the first call that takes the sum over the cap, so it
   overshoots by that call alone.  The two write their inputs, records and
   report in different orders, and may be killed in between. *)
MetricsMeanAWholeRun ==
  LET Ids == {Identity(calls[n]) : n \in DOMAIN calls}
      Cost(k) == CostOf(SubSeq(calls, 1, k))
  IN /\ metrics # {} =>
          /\ inputs
          /\ Len(calls) = Len(conf.pairs)
          /\ Cardinality(Ids) = Len(calls)
          /\ {a.id : a \in asserts} = Ids
     /\ conf.kind = "pipeline" =>
          /\ \A k \in 0..Len(calls) - 1 : Cost(k) <= conf.cap
          /\ inputs => Cost(Len(calls)) <= conf.cap
          /\ pc \notin {"charge", "killed"} => total = Cost(Len(calls))

(* What the records say of an item in a version: clean, and then right,
   invalid, or, in a version that loses it, hopeless. *)
RecordsOf(v, i) == OfItem(OfVersion(calls, v), i)
Clean(v, i) ==
  /\ RecordsOf(v, i) # <<>>
  /\ \A n \in DOMAIN RecordsOf(v, i) : /\ RecordsOf(v, i)[n].error = {}
                                       /\ conf.kind = "analyzer" => ~RecordsOf(v, i)[n].skipped
Accepted(call) == call.valid /\ call.sentinel # "transport"
Said(call) == IF Accepted(call) THEN call.response.class ELSE Invalid
Right(v, i) ==
  LET first == RecordsOf(v, i)[1]
  IN IF conf.kind = "analyzer" THEN \A m \in first.match : m.tp > 0 /\ m.fp + m.fn = 0
     ELSE Said(first) = conf.truth[i]
Hopeless(v, i) ==
  LET first == RecordsOf(v, i)[1]
  IN IF conf.kind = "analyzer" THEN \A m \in first.match : m.tp = 0 ELSE Said(first) # conf.truth[i]
CleanItems(v) == {i \in ToSet(conf.items) : Clean(v, i)}

Sound(v, promotion) ==
  LET paired == promotion.paired IN
  /\ \A n \in DOMAIN paired : Clean(conf.baseline, paired[n]) /\ Clean(v, paired[n])
  /\ promotion.promotable =>
       /\ paired # <<>>
       /\ \E n \in DOMAIN paired : ~(Right(conf.baseline, paired[n]) /\ Hopeless(v, paired[n]))
       /\ conf.kind = "pipeline" =>
            LET refused == {i \in CleanItems(v) : ~Accepted(RecordsOf(v, i)[1])}
            IN 100 * Cardinality(refused) <= Cardinality(CleanItems(v))

SumOf(f) == FoldFunction(+, 0, f)
ScoredOnce(v, summary) ==
  LET table == summary.classification.confusion
      bins == summary.calibration.bins
      clean == CleanItems(v)
  IN /\ summary.classification.n = Cardinality(clean)
     /\ SumOf([t \in conf.classes |-> SumOf(table[t])]) = Cardinality(clean)
     /\ UNION {bins[b].items : b \in 0..9} = clean
     /\ SumOf([b \in 0..9 |-> bins[b].n]) = Cardinality(clean)
     /\ summary.cost.calls = Len(OfVersion(calls, v))
     /\ summary.cost.cost = CostOf(OfVersion(calls, v))

(* Both kinds: a candidate is promotable only with at least one item of which
   both versions have a clean record, only such items are compared, no
   candidate that loses every compared item is promoted, and no pipeline
   candidate with more than one in a hundred of its clean calls invalid.
   Every clean item is scored once, in the confusion table and in the
   reliability table, and every call counts for the cost, the failed ones
   too.  The numbers of a report come from five reducers that each filter
   the records anew. *)
PromotionHasEvidence ==
  \A m \in metrics :
    /\ \A v \in DOMAIN m.promotions : Sound(v, m.promotions[v])
    /\ conf.kind = "pipeline" => \A v \in DOMAIN m.versions : ScoredOnce(v, m.versions[v])

(* Analyzer: no label and no finding is matched twice, a compatible pair is
   left unmatched only for a match of one of the two that is at least as
   close, every label and every finding is counted, the tiers hold no match
   that the whole does not, and only a finding of neither tier escapes them.
   Greedy matching is order-dependent, and tests with a handful of findings
   hardly see it. *)
FindingsMatchedOnce ==
  conf.kind = "analyzer" =>
    \A n \in DOMAIN calls : \A m \in calls[n].match :
      LET labels == conf.labels[calls[n].item]
          found == calls[n].found
          d(e) == Distance(labels[e[1]], found[e[2]])
          Tiered(field) == Tier(calls[n], "asserted")[field] + Tier(calls[n], "candidate")[field]
      IN /\ \A a, b \in m.matches : (a[1] = b[1] \/ a[2] = b[2]) => a = b
         /\ \A e \in Edges(labels, found, conf.tolerance) :
              \E a \in m.matches : (a[1] = e[1] \/ a[2] = e[2]) /\ d(a) <= d(e)
         /\ m.tp + m.fn = Len(labels)
         /\ m.tp + m.fp = Len(found) + m.surplus
         /\ Tiered("tp") <= m.tp
         /\ Tiered("tp") + Tiered("fp") = Cardinality({k \in DOMAIN found : found[k].tier \in Tiers})
         /\ Tiered("tp") + Tiered("fn") = Len(labels)
=============================================================================
