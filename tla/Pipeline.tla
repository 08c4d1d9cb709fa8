------------------------------ MODULE Pipeline ------------------------------
(***************************************************************************)
(* run_pipeline: every version of every item goes through the stages of    *)
(* the configuration, each stage pinned to an artifact of the item or      *)
(* executed; then the inputs, the assertions and the report.               *)
(*                                                                         *)
(* A stage is [name, type, pin].  conf.decl[i][s] is what item i declares  *)
(* for stage s: "absent", "unpinned", a pin that is "good", "odd" (the     *)
(* artifact does not satisfy the stage's schema) or "gone" (verified when  *)
(* the task set was loaded, no longer when the stage reads it).  A row's   *)
(* source is where its output came from: "pinned", or an executor whose    *)
(* output is "ok" or, for targets, without the observed one: "other".      *)
(***************************************************************************)
EXTENDS Evaluation

CONSTANTS
  PipelineConfs,   \* the configurations and task sets
  Answers(_, _),   \* what the LLM executor may do for an item and a version
  Resamples        \* bound: the bootstrap's resamples

StageTypes == {"file", "prism", "harness", "llm"}
PinModes == {"from_item", "never", "if_absent"}

(* load_pipeline_config: the names are unique, the baseline is one of the
   versions, and the LLM stages have one task: several may have the same.
   run_pipeline takes every item once, and at least one. *)
LoadsPipeline(c) ==
  /\ c.stages # <<>> /\ c.versions # <<>>
  /\ \A n \in DOMAIN c.stages : c.stages[n].type \in StageTypes /\ c.stages[n].pin \in PinModes
  /\ \A n, m \in DOMAIN c.stages : c.stages[n].name = c.stages[m].name => n = m
  /\ IsInjective(c.versions)
  /\ c.items # <<>> /\ IsInjective(c.items)
  /\ c.baseline \in ToSet(c.versions)
  /\ c.samples = 1
  /\ c.cap >= 0
  /\ \E n \in DOMAIN c.stages : c.stages[n].type = "llm"

PipelineRuns ==
  {With(c, [kind |-> "pipeline", pairs |-> Product(c.items, c.versions)]) :
     c \in {d \in PipelineConfs : LoadsPipeline(d)}}

(* Stages, versions and items are lists, the classes are a list's, and costs
   are numbers. *)
ASSUME PipelineAssumption ==
  /\ Resamples \in Nat \ {0}
  /\ \A c \in PipelineConfs :
    /\ {"stages", "versions", "baseline", "items", "samples", "cap", "classes", "truth"} \subseteq DOMAIN c
    /\ IsFiniteSet(c.classes)
    /\ \A f \in {"stages", "versions", "items"} : c[f] \in Seq(Range(c[f]))
    /\ c.cap \in Int
    /\ \A p \in Range(Product(c.items, c.versions)) :
         \A a \in Answers(p[1], p[2]) : \A e \in a : e.cost \in Int

Item == conf.pairs[at][1]
Version == conf.pairs[at][2]
Position == Len(rows) + 1
Stage == conf.stages[Position]
Terminal == Position = Len(conf.stages)

Pinned(i) == {s \in DOMAIN conf.decl[i] : conf.decl[i][s] \in {"good", "odd", "gone"}}
UsePin(i, st) == st.pin = "from_item" \/ (st.pin = "if_absent" /\ st.name \in Pinned(i))

(* plan_requests: a request is planned when both documents are pinned before
   the first LLM stage; one that the request schema refuses ends the run
   before anything is written.  That the observation's target is among the
   targets was seen to when the task set was loaded. *)
Plannable(i) ==
  LET llm == Min({n \in DOMAIN conf.stages : conf.stages[n].type = "llm"})
      available == {conf.stages[n].name : n \in {m \in 1..llm - 1 : UsePin(i, conf.stages[m])}}
  IN {"targets", "observation"} \subseteq available \cap Pinned(i)
PlanRequests == \A n \in DOMAIN conf.items : Plannable(conf.items[n]) => conf.fits[conf.items[n]]

(* An LLM stage without a plan makes its request from the outputs so far, or
   else from the item's artifacts. *)
Source(s) ==
  LET done == {rows[n].source : n \in {m \in DOMAIN rows : rows[m].stage = s}}
  IN IF done # {} THEN done ELSE IF s \in Pinned(Item) THEN {"pinned"} ELSE {}
RequestBody == Source("observation") # {} /\ Source("targets") \cap {"pinned", "ok"} # {}
RequestOfItem(i) == {"targets", "observation"} \subseteq Pinned(i)

-----------------------------------------------------------------------------
Row(cache, status, source) ==
  [id |-> <<Version, Item>>, stage |-> Stage.name, cache |-> cache, status |-> status, source |-> source]

(* _record_stage: the stage file and the row. *)
RecordStage(cache, source) ==
  /\ stages' = stages \cup {<<Version, Item, Stage.name>>}
  /\ rows' = Append(rows, Row(cache, "ok", source))
  /\ pc' = IF Terminal THEN "call" ELSE "stage"

(* Variant: the output is recorded before it is validated. *)
StageErrorRecorded ==
  /\ rows' = Append(rows, Row("miss", "error", "none"))
  /\ pc' = "call"
  /\ stages' = stages \cup {<<Version, Item, Stage.name>>}

(* _stage_error: a row without a file, and the item ends here. *)
StageError ==
  /\ rows' = Append(rows, Row("miss", "error", "none"))
  /\ pc' = "call"
  /\ UNCHANGED stages

(* A configured harness cannot run: refused before any stage. *)
Refused == \E n \in DOMAIN conf.stages : conf.stages[n].type = "harness" /\ conf.stages[n].pin = "never"

PipelineStart ==
  /\ pc = "start"
  /\ IF PlanRequests /\ ~Refused
     THEN pc' = "stage" /\ UNCHANGED <<conf, at, rows, got, stages, calls, events, asserts, inputs, total, metrics>>
     ELSE Die

Declared == conf.decl[Item][Stage.name]
Executed(type) == pc = "stage" /\ Declared # "absent" /\ ~UsePin(Item, Stage) /\ Stage.type = type

(* The request that was planned, or one that can be made and is valid. *)
HasRequest == Plannable(Item) \/ (RequestBody /\ conf.fits[Item])

(* What is raised out of the loop over the stages, and ends the run without a
   record of the pair: a declaration that is not usable, or an executor whose
   output is not one envelope, breaks its contract or echoes another request. *)
StageRaises ==
  /\ pc = "stage"
  /\ \/ Declared = "absent"
     \/ UsePin(Item, Stage) /\ Declared \in {"unpinned", "gone"}
     \/ UsePin(Item, Stage) /\ Declared = "odd" /\ ~Terminal
     \/ ~UsePin(Item, Stage) /\ Stage.type = "file"
     \/ Executed("llm") /\ HasRequest
  /\ Die

PinnedStage ==
  /\ pc = "stage" /\ UsePin(Item, Stage)
  /\ Declared = "good" \/ (Declared = "odd" /\ Terminal)
  /\ RecordStage("pinned", "pinned")
  /\ UNCHANGED <<conf, at, got, calls, events, asserts, inputs, total, metrics>>

HarnessStage ==
  /\ Executed("harness")
  /\ StageError
  /\ UNCHANGED <<conf, at, got, calls, events, asserts, inputs, total, metrics>>

(* Prism finds targets, among them the observed one or not, or fails, or
   prints what is no targets document. *)
PrismStage ==
  /\ Executed("prism")
  /\ \/ RecordStage("miss", "ok")
     \/ RecordStage("miss", "other")
     \/ StageError
  /\ UNCHANGED <<conf, at, got, calls, events, asserts, inputs, total, metrics>>

(* The request is remembered once it is valid, the envelope once there is
   one, whatever comes of the stage: an executor that fails leaves the envelope
   of an earlier stage. *)
LlmStage ==
  /\ Executed("llm")
  /\ IF HasRequest
     THEN \E a \in Answers(Item, Version) :
            /\ got' = [request |-> TRUE, env |-> IF a = {} THEN got.env ELSE a]
            /\ IF a # {} /\ (Terminal \/ \A e \in a : e.response.fits)
               THEN RecordStage("miss", "ok") ELSE StageError
     ELSE StageError /\ UNCHANGED got
  /\ UNCHANGED <<conf, at, calls, events, asserts, inputs, total, metrics>>

-----------------------------------------------------------------------------
(* The call record. *)

NoResponse == [class |-> "provider_error", conf |-> 0, fits |-> FALSE, lines |-> {}, mentions |-> {}]
ErrorEnvelope ==
  [response |-> NoResponse, final |-> TRUE, first |-> "unknown", cost |-> 0, hit |-> FALSE, duration |-> 0]
PinnedEnvelope(i) ==
  [response |-> conf.pinned[i], final |-> conf.pinned[i].class \in {"invalid_output", "unclear"},
   first |-> "unknown", cost |-> 0, hit |-> FALSE, duration |-> 0]

Failed == rows[Len(rows)].status = "error"

(* The envelope of the last LLM stage that gave one, also when a later stage
   failed. *)
Envelope ==
  IF got.env # {} THEN CHOOSE e \in got.env : TRUE
  ELSE IF Failed THEN ErrorEnvelope ELSE PinnedEnvelope(Item)

Call(env) ==
  With([item |-> Item, version |-> Version, sample |-> 0, final |-> env.final, first |-> env.first,
   cost |-> env.cost, hit |-> env.hit, duration |-> env.duration,
   error |-> IF Failed THEN {rows[Len(rows)].stage} ELSE {}], Normalize(env))

(* Without a request of the stage's own the item's must give one, or the run
   ends without a record of the pair. *)
WriteCall ==
  /\ conf.kind = "pipeline" /\ pc = "call"
  /\ IF got.request \/ RequestOfItem(Item)
     THEN /\ calls' = Append(calls, Call(Envelope))
          /\ pc' = "charge"
          /\ UNCHANGED <<conf, at, rows, got, stages, events, asserts, inputs, total, metrics>>
     ELSE Die

(* Variant: the cap is compared with the sum before this call. *)
CrossesLate(sum) == sum - calls[Len(calls)].cost > conf.cap

Crosses(sum) == sum > conf.cap

(* The event rows of the pair, the sum, and the comparison with the cap. *)
Charge ==
  LET sum == total + calls[Len(calls)].cost IN
  /\ pc = "charge"
  /\ events' = events \o rows
  /\ total' = sum
  /\ IF Crosses(sum)
     THEN pc' = "died" /\ UNCHANGED <<at, rows, got>>
     ELSE /\ pc' = IF at = Len(conf.pairs) THEN "inputs" ELSE "stage"
          /\ at' = IF at = Len(conf.pairs) THEN at ELSE at + 1
          /\ rows' = <<>>
          /\ got' = Nothing
  /\ UNCHANGED <<conf, stages, calls, asserts, inputs, metrics>>

WriteInputs ==
  /\ conf.kind = "pipeline" /\ pc = "inputs"
  /\ inputs' = TRUE
  /\ pc' = "asserts"
  /\ UNCHANGED <<conf, at, rows, got, stages, calls, events, asserts, total, metrics>>

(* One assert record for every call, in their order; none of its assertions
   ran when a stage of it failed. *)
AssertResults(call) ==
  UNION {{RunAsserts(conf.asserts, call, conf.expected[call.item], conf.snapshot[call.item], context)} :
         context \in AssertionContext(calls, call.version, call.item)}

WriteAssert ==
  /\ conf.kind = "pipeline" /\ pc = "asserts"
  /\ LET call == calls[Cardinality(asserts) + 1] IN
       asserts' = asserts \cup {[id |-> Identity(call), results |-> AssertResults(call)]}
  /\ pc' = IF Cardinality(asserts) + 1 = Len(calls) THEN "render" ELSE "asserts"
  /\ UNCHANGED <<conf, at, rows, got, stages, calls, events, inputs, total, metrics>>

Run == With(conf, [calls |-> calls])

Render ==
  /\ conf.kind = "pipeline" /\ pc = "render"
  /\ IF PopulationIsExact(Run) /\ Reducible(Run)
     THEN /\ \E draws \in Generated(Run, Resamples) : metrics' = {Summarize(Run, draws)}
          /\ pc' = "done"
          /\ UNCHANGED <<conf, at, rows, got, stages, calls, events, asserts, inputs, total>>
     ELSE Die

PipelineInit ==
  /\ conf \in PipelineRuns
  /\ EvaluationInit

PipelineNext ==
  /\ conf.kind = "pipeline"
  /\ \/ PipelineStart \/ StageRaises \/ PinnedStage \/ HarnessStage \/ PrismStage \/ LlmStage
     \/ WriteCall \/ Charge \/ WriteInputs \/ WriteAssert \/ Render
=============================================================================
