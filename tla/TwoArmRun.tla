----------------------------- MODULE TwoArmRun -----------------------------
(***************************************************************************)
(* The two-arm harness (src/harness/run.py) over one results directory:    *)
(* runs of an experiment, one after the other, with or without --force,    *)
(* their promptfoo workers, which outlive a harness that is killed, and    *)
(* the scripts that render a directory again (regen_report.py) or grade    *)
(* its reviews again into another directory (rejudge.py).                  *)
(*                                                                         *)
(* calls[a][t] and judge[a][t] are the files <arm>-<task>.json: {} or the  *)
(* one record with the run that wrote it and whether it was written whole. *)
(***************************************************************************)
EXTENDS TwoArmMetrics

CONSTANTS
  NumRuns,    \* runs, in the order of their start
  Manifest,   \* the task set: a sequence of tasks
  Seeded,     \* the tasks that have seeded defects
  Truth,      \* Truth[t]: their ids, by the task's truth.yaml
  Revised,    \* what that file says when a rescore reads it
  Configs,    \* Configs[r]: experiment files, as the facts load() and run r look at
  Outputs,    \* Outputs[r]: how the executor's attempts can end in run r
  Answers,    \* Answers[r]: how the judge's attempts can end in run r
  Regrades    \* and those of a later rescore

Tasks == ToSet(Manifest)
Runs == 1..NumRuns

ASSUME TwoArmAssumption ==
  /\ NumRuns \in Nat
  /\ Manifest \in Seq(Tasks)
  /\ Seeded \subseteq Tasks
  /\ IdOrder \in Seq(Tasks) /\ ToSet(IdOrder) = Tasks
  /\ \A i, j \in DOMAIN IdOrder : IdOrder[i] = IdOrder[j] => i = j

VARIABLES
  run,       \* the latest run, 0 before the first
  pc,        \* where it stands
  conf,      \* {} or its config
  forced,    \* --force
  sound,     \* integrity_ok
  alone,     \* no promptfoo of an earlier run was left when it started
  code,      \* its exit code, 9 for an exception
  mem,       \* what it holds between reading the rows and its end
  job,       \* job[r][t]: item t in the promptfoo of run r
  calls, judge,
  report,    \* report.md, by the numbers in it; {} when there is none
  metrics,   \* metrics.json
  torn,      \* the last rendering was cut short
  rescore    \* the rescore: where it stands, its queue and its directory

vars == <<run, pc, conf, forced, sound, alone, code, mem, job, calls, judge, report, metrics,
          torn, rescore>>
given == <<run, conf, forced, alone>>
dirVars == <<calls, judge>>
shown == <<report, metrics, torn>>

Empty == [a \in Arms |-> [t \in Tasks |-> {}]]
Cfg == CHOOSE c \in conf : TRUE
Done == [at |-> "over"]
Rendering == {"metrics", "spotcheck"}
Over == {"over", "killed"}

Init ==
  /\ run = 0 /\ pc = "over"
  /\ conf = {} /\ forced = FALSE
  /\ sound = TRUE /\ alone = TRUE
  /\ code = 9 /\ mem = {}
  /\ job = [r \in Runs |-> [t \in Tasks |-> Done]]
  /\ calls = Empty /\ judge = Empty
  /\ report = {} /\ metrics = {} /\ torn = FALSE
  /\ rescore = [pc |-> "off", queue |-> <<>>, names |-> {}, calls |-> Empty, judge |-> Empty]

-----------------------------------------------------------------------------
(* config.py *)

Forms == {"prompt", "skill", "steering", "agent"}
Shapes == {"ablation", "adherence", "triggering"}

(* Self-preference: a codex judge of a codex executor has to be allowed. *)
SameFamily(c) == c.provider = "codex" /\ c.judgeProvider = "codex" /\ ~c.allowSameFamily

(* _validate_paths: every file the config names is there. *)
PathsExist(c) == c.absent = {}

Loads(c) ==
  /\ c.missing = {}
  /\ c.shape \in Shapes /\ c.form \in Forms /\ c.provider \in {"claude", "codex"}
  /\ c.baselines > 0 /\ c.elements = 1
  /\ ~SameFamily(c)
  /\ PathsExist(c)

(* load_taskset: the first max_items of the manifest. *)
Items(c) == ToSet(SubSeq(Manifest, 1, Min({c.maxItems, Len(Manifest)})))

-----------------------------------------------------------------------------
(* What is in the directory. *)

Ids(files, a) == {t \in Tasks : files[a][t] # {}}
Stale == \E a \in Arms : Ids(calls, a) \union Ids(judge, a) # {}

(* Variant: an item counts as there when its call is. *)
SoundByCalls(c, a) == Ids(calls, a) = Items(c)
SoundArm(c, a) == Ids(calls, a) = Items(c) /\ Ids(judge, a) = Items(c)

Records(files) == UNION {files[a][t] : a \in Arms, t \in Tasks}
Whole(files, arms) == \A a \in arms, t \in Tasks : \A x \in files[a][t] : x.whole
Rows == {x.row : x \in Records(judge)}
CallRows == {x.row : x \in Records(calls)}
ArmCost(a) == TokenTotals(CallRows, a).cost

-----------------------------------------------------------------------------
(* A run. *)

Working(r) == \E t \in Tasks : job[r][t] # Done

(* When the scripts are run: a bound. *)
AtRest == pc \in Over /\ \A r \in Runs : ~Working(r)

End(n) == pc' = "over" /\ code' = n
Goto(l) == pc' = l /\ UNCHANGED code

(* One harness at a time, and none once the directory is rescored: bounds. *)
Start(c, f) ==
  /\ pc \in Over /\ run < NumRuns /\ rescore.pc = "off"
  /\ run' = run + 1
  /\ conf' = {c} /\ forced' = f
  /\ sound' = TRUE
  /\ alone' = \A r \in Runs : ~Working(r)
  /\ IF Loads(c) THEN pc' = "guard" /\ code' = 9 ELSE End(9)
  /\ UNCHANGED <<mem, job, dirVars, shown, rescore>>

(* Variant: a directory with the records of both arms only is taken for clean. *)
CleanUnlessPartial == \A a, b \in Arms : Ids(calls, a) = Ids(judge, b)
Clean == ~Stale

(* check_stale_results_dir *)
Refuse ==
  /\ pc = "guard"
  /\ ~Clean /\ ~forced
  /\ End(4)
  /\ UNCHANGED <<given, sound, mem, job, dirVars, shown, rescore>>

ClearCalls ==
  /\ pc = "guard"
  /\ ~Clean /\ forced
  /\ calls' = Empty
  /\ Goto("clear")
  /\ UNCHANGED <<given, sound, mem, job, judge, shown, rescore>>

ClearJudge ==
  /\ pc = "clear"
  /\ judge' = Empty
  /\ Goto("generate")
  /\ UNCHANGED <<given, sound, mem, job, calls, shown, rescore>>

Proceed ==
  /\ pc = "guard"
  /\ Clean
  /\ Goto("generate")
  /\ UNCHANGED <<given, sound, mem, job, dirVars, shown, rescore>>

(* What a test of the generated promptfoo file hands to the workers. *)
Test(c, a) == [at |-> "queued", arm |-> a, cfg |-> c]

(* _run_arm: promptfoo with the items of an arm. *)
RunArm(a) ==
  /\ job' = [job EXCEPT ![run] = [t \in Tasks |->
       IF t \in Items(Cfg) THEN Test(Cfg, a) ELSE Done]]
  /\ Goto(a)

(* _compose_prompt: the varied element, without its comments and frontmatter,
   still has a template slot. *)
Unfilled(c) == c.slot

(* gen_promptfoo: prompts and configs of both arms. *)
Generate ==
  /\ pc = "generate"
  /\ IF Unfilled(Cfg) THEN End(9) /\ UNCHANGED job ELSE RunArm("baseline")
  /\ UNCHANGED <<given, sound, mem, dirVars, shown, rescore>>

(* The projected cost is twice the baseline's recorded cost. *)
OverBudget == 2 * ArmCost("baseline") > Cfg.maxCost

(* The baseline arm is over: its ids, its cost, the next arm. *)
Gate ==
  /\ pc = "baseline"
  /\ ~Working(run)
  /\ sound' = SoundArm(Cfg, "baseline")
  /\ IF ~Whole(calls, {"baseline"}) THEN End(9) /\ UNCHANGED job
     ELSE IF OverBudget THEN End(3) /\ UNCHANGED job
     ELSE RunArm("treatment")
  /\ UNCHANGED <<given, mem, dirVars, shown, rescore>>

TreatmentOver ==
  /\ pc = "treatment"
  /\ ~Working(run)
  /\ sound' = (sound /\ SoundArm(Cfg, "treatment"))
  /\ Goto("report")
  /\ UNCHANGED <<given, mem, job, dirVars, shown, rescore>>

(* render: the rows are read once; report.md, metrics.json and the sheet of the
   spot check are written one after the other. *)
WriteReport ==
  /\ pc = "report"
  /\ IF Whole(calls, Arms) /\ Whole(judge, Arms)
     THEN LET s == Summarize(CallRows, Rows, Cfg.negativeControl) IN
          /\ mem' = {s}
          /\ report' = {ReportOf(s)}
          /\ torn' = FALSE
          /\ Goto("metrics")
     ELSE End(9) /\ UNCHANGED <<mem, report, torn>>
  /\ UNCHANGED <<given, sound, job, dirVars, metrics, rescore>>

WriteMetrics ==
  /\ pc = "metrics"
  /\ metrics' = {ReportOf(s) : s \in mem}
  /\ Goto("spotcheck")
  /\ UNCHANGED <<given, sound, mem, job, dirVars, report, torn, rescore>>

ExitCode(s, ok) ==
  IF s.flags.harnessBroken THEN 2 ELSE IF s.judgeErrors > 0 \/ ~ok THEN 1 ELSE 0

Finish ==
  /\ pc = "spotcheck"
  /\ \A s \in mem : End(ExitCode(s, sound))
  /\ mem' = {}
  /\ UNCHANGED <<given, sound, job, dirVars, shown, rescore>>

(* The harness dies; its promptfoo goes on. *)
Kill ==
  /\ pc \notin Over
  /\ pc' = "killed"
  /\ torn' = (torn \/ pc \in Rendering)
  /\ mem' = {}
  /\ UNCHANGED <<given, sound, code, job, dirVars, report, metrics, rescore>>

-----------------------------------------------------------------------------
(* promptfoo's workers: one item of the arm each. *)

Executor(c, first, second) ==
  IF c.provider = "claude" THEN RunClaude(first, second) ELSE RunCodex(first)

CallRow(j, t, v) ==
  [arm |-> j.arm, task |-> t,
   cost |-> IF j.cfg.provider = "codex" /\ ~j.cfg.priced THEN 0 ELSE v.cost,
   logical |-> IF j.cfg.provider = "codex" THEN 0 ELSE v.cost]

(* call_api; a worker that is cut off leaves half a file, one at most: a
   bound. *)
Call(r, t, first, second) ==
  LET j == job[r][t]
      reviews == Executor(j.cfg, first, second) IN
  /\ j.at = "queued"
  /\ IF reviews = {}
     THEN job' = [job EXCEPT ![r][t] = Done] /\ UNCHANGED calls
     ELSE \E v \in reviews, whole \in BOOLEAN :
          /\ whole \/ Whole(calls, Arms)
          /\ calls' = [calls EXCEPT ![j.arm][t] =
               {[by |-> r, whole |-> whole, row |-> CallRow(j, t, v)]}]
          /\ job' = [job EXCEPT ![r][t] =
               IF whole THEN [at |-> "answered", arm |-> j.arm, review |-> v] ELSE Done]
  /\ UNCHANGED <<pc, given, sound, code, mem, judge, shown, rescore>>

Base(j, t) ==
  [arm |-> j.arm, task |-> t, seeded |-> t \in Seeded, truth |-> Truth[t],
   labels |-> Adherence(j.review)]

(* get_assert, on the review that call_api returned.  The record is written in
   place and may be cut off as well. *)
GetAssert(r, t, first, second) ==
  LET j == job[r][t]
      records == JudgeRecords(Base(j, t), j.review, first, second) IN
  /\ j.at = "answered"
  /\ \E whole \in BOOLEAN :
       /\ whole \/ Whole(judge, Arms)
       /\ judge' = [judge EXCEPT ![j.arm][t] =
            IF records = {} THEN @
            ELSE {[by |-> r, whole |-> whole, row |-> row] : row \in records}]
  /\ job' = [job EXCEPT ![r][t] = Done]
  /\ UNCHANGED <<pc, given, sound, code, mem, calls, shown, rescore>>

-----------------------------------------------------------------------------
(* regen_report.py: nothing is written when the numbers differ. *)

(* Variant: the numbers are not compared. *)
Unverified(s) == TRUE
Verified(s) == metrics \in {{}, {ReportOf(s)}}

RegenReport ==
  /\ AtRest
  /\ Whole(calls, Arms) /\ Whole(judge, Arms)
  /\ \E c \in conf :
       LET s == Summarize(CallRows, Rows, c.negativeControl) IN
       /\ Loads(c) /\ Verified(s)
       /\ report' = {ReportOf(s)}
  /\ torn' = (torn \/ metrics = {})
  /\ UNCHANGED <<pc, given, sound, code, mem, job, dirVars, metrics, rescore>>

-----------------------------------------------------------------------------
(* rejudge.py: calls copied, reviews graded again, in another directory. *)

(* The first run's directory, when it was rendered: a bound. *)
Rescorable == AtRest /\ run = 1 /\ metrics # {} /\ rescore.pc = "off"

Names == {n \in Arms \X Tasks : judge[n[1]][n[2]] # {}}

RescoreStart ==
  /\ Rescorable
  /\ Names # {}
  /\ rescore' = [pc |-> "judging", queue |-> SetToSeq(Names), names |-> Names,
                 calls |-> calls, judge |-> Empty]
  /\ UNCHANGED <<pc, given, sound, code, mem, job, dirVars, shown>>

(* The output is the source: _clear_derived removes what was to be read. *)
RescoreOntoItself ==
  /\ Rescorable
  /\ Names # {}
  /\ calls' = Empty /\ judge' = Empty
  /\ rescore' = [rescore EXCEPT !.pc = "failed"]
  /\ UNCHANGED <<pc, given, sound, code, mem, job, shown>>

(* The truth is read again, and may have changed since. *)
Carried(row) ==
  [arm |-> row.arm, task |-> row.task, seeded |-> row.seeded, truth |-> Revised[row.task],
   labels |-> row.labels]
Rejudged(row, first, second) ==
  IF JudgeReview(first, second) = {} THEN {JudgeFailure(Carried(row), row.flagged)}
  ELSE {Graded(Carried(row), row.flagged, a) :
          a \in {b \in JudgeReview(first, second) : b.form = "good"}}

(* Variant: every review goes to the judge again. *)
RegradedAll(row, first, second) == Rejudged(row, first, second)

(* _rejudge_one: a review that the source could not read stays what it was. *)
Regraded(row, first, second) ==
  IF ~row.parse THEN {ParseFailure(Carried(row))} ELSE Rejudged(row, first, second)

RescoreOne(first, second) ==
  /\ rescore.pc = "judging"
  /\ rescore.queue # <<>>
  /\ LET n == Head(rescore.queue)
         new == UNION {Regraded(x.row, first, second) : x \in judge[n[1]][n[2]]}
     IN rescore' =
          IF new = {} THEN [rescore EXCEPT !.pc = "failed"]
          ELSE [rescore EXCEPT !.queue = Tail(@), !.judge[n[1]][n[2]] =
                  {[row |-> row, from |-> x.row] : row \in new, x \in judge[n[1]][n[2]]}]
  /\ UNCHANGED <<pc, given, sound, code, mem, job, dirVars, shown>>

RescoreEnd ==
  /\ rescore.pc = "judging"
  /\ rescore.queue = <<>>
  /\ rescore' = [rescore EXCEPT !.pc =
       IF Whole(rescore.calls, Arms) /\ \A x \in Records(rescore.judge) : ~x.row.error
       THEN "clean" ELSE "failed"]
  /\ UNCHANGED <<pc, given, sound, code, mem, job, dirVars, shown>>

-----------------------------------------------------------------------------
Run ==
  \/ Refuse \/ ClearCalls \/ ClearJudge \/ Proceed \/ Generate \/ Gate \/ TreatmentOver
  \/ WriteReport \/ WriteMetrics \/ Finish \/ Kill

Worker(r, t) ==
  \/ \E first, second \in Outputs[r] : Call(r, t, first, second)
  \/ \E first, second \in Answers[r] : GetAssert(r, t, first, second)

Rescore ==
  \/ RescoreStart \/ RescoreOntoItself \/ RescoreEnd
  \/ \E first, second \in Regrades : RescoreOne(first, second)

Next ==
  \/ \E f \in BOOLEAN : \E c \in UNION {Configs[r] : r \in {run + 1} \cap Runs} : Start(c, f)
  \/ Run
  \/ \E r \in Runs, t \in Tasks : Worker(r, t)
  \/ RegenReport
  \/ Rescore

Spec == Init /\ [][Next]_vars

-----------------------------------------------------------------------------
(* A run that exits with 0 and had the directory to itself reports exactly its
   own records: one call and one graded record of every item in each arm, so
   that the flips account for the whole difference of the pass rates. *)
CleanExitReportsItsOwnItems ==
  [][(pc = "spotcheck" /\ pc' = "over" /\ code' = 0 /\ alone) =>
       \A s \in mem : LET items == Items(Cfg) IN
         /\ \A x \in Records(calls) \union Records(judge) : x.by = run
         /\ \A a \in Arms : Ids(calls, a) = items /\ Ids(judge, a) = items
         /\ \A a \in Arms : s.pass[a].n = Cardinality(items)
         /\ s.pass["treatment"].k - s.pass["baseline"].k
              = s.flips.onlyTreatment - s.flips.onlyBaseline
         /\ report = {ReportOf(s)} /\ metrics = report]_vars

(* report.md and metrics.json tell the same numbers, after any history of runs,
   aborts and regenerations, unless the last rendering was cut short or a report
   was regenerated where there was nothing to compare it with. *)
SameNumbers ==
  torn \/ pc \in Rendering \/ report = metrics

(* A rescore that ends well has one row for every record of its source, none
   of them an error; a review the source could not read still fails and raises
   no flag; the others keep their flag and pass only with it right. *)
RescoreKeepsVerdicts ==
  rescore.pc = "clean" =>
    \A n \in rescore.names : \E x \in rescore.judge[n[1]][n[2]] :
      /\ ~x.row.error
      /\ x.row.parse = x.from.parse /\ x.row.flagged = x.from.flagged
      /\ x.row.pass => x.from.parse /\ (x.row.flagged <=> n[2] \in Seeded)

(* The human's sample shows every arm, and both kinds of item of it, that has a
   graded row, however the ids sort. *)
SampleShowsEveryStratum ==
  LET sample == ToSet(SpotSheet(Rows)) IN
  \A a \in Arms, s \in BOOLEAN :
    (\E r \in Scored(Rows, a) : r.parse /\ r.seeded = s) => \E r \in sample : r.arm = a /\ r.seeded = s
=============================================================================
