---------------------------- MODULE TwoArmProofs ----------------------------
(***************************************************************************)
(* Proofs about TwoArmRun, for any number of runs over one directory,      *)
(* every task set and configuration, and any way the executors and the     *)
(* judge can end.                                                          *)
(*                                                                         *)
(* A run that begins alone, with no promptfoo of an earlier one left, is   *)
(* the only writer of its directory: what it has judged complete stays     *)
(* complete, and the summary in its memory stays that of its rows until    *)
(* report.md and metrics.json are written.  A rescore has the directory at *)
(* rest from its start to its end.  The sample that the human grades is    *)
(* drawn from the judge's records by the order of the ids: the first row of*)
(* each kind has none before it, and has its turn in the round robin.      *)
(***************************************************************************)
EXTENDS TwoArmRun, FiniteSetTheorems, WellFoundedInduction, TLAPS

-----------------------------------------------------------------------------
(* The inductive invariant. *)

Filling == {"generate", "baseline", "treatment", "report", "metrics", "spotcheck"}

(* The shape of the state: nothing is said of the contents. *)
Shape ==
  /\ run \in 0..NumRuns
  /\ alone \in BOOLEAN
  /\ DOMAIN job = Runs /\ \A r \in Runs : DOMAIN job[r] = Tasks
  /\ DOMAIN calls = Arms /\ \A a \in Arms : DOMAIN calls[a] = Tasks
  /\ DOMAIN judge = Arms /\ \A a \in Arms : DOMAIN judge[a] = Tasks
  /\ DOMAIN rescore = {"pc", "queue", "names", "calls", "judge"}
  /\ DOMAIN rescore.judge = Arms /\ \A a \in Arms : DOMAIN rescore.judge[a] = Tasks
  /\ pc \notin Over => run \in Runs /\ \E c \in conf : conf = {c}

(* Who may be working: no run that has not begun; of the earlier ones none, when
   the run began alone; of this one the items of the arm at hand, or whatever a
   killed harness has left. *)
Jobs ==
  \A r \in Runs, t \in Tasks : job[r][t] # Done =>
    /\ job[r][t].arm \in Arms
    /\ r <= run
    /\ r < run => ~alone
    /\ r = run => pc \in Arms \union {"killed"}
    /\ r = run /\ pc \in Arms => job[r][t].arm = pc

(* A judge record is of the item its file is named after, there is one of each,
   and it can be graded again: what could not be read raised no flag. *)
RecordOf(row, a, t) ==
  /\ row.arm = a /\ row.task = t
  /\ row.seeded = (t \in Seeded)
  /\ row.parse \in BOOLEAN /\ row.flagged \in BOOLEAN /\ row.pass \in BOOLEAN /\ row.error \in BOOLEAN
  /\ ~row.parse => row.flagged = FALSE
Rowed ==
  \A a \in Arms, t \in Tasks :
    /\ \A x \in judge[a][t] : RecordOf(x.row, a, t)
    /\ \A x, y \in judge[a][t] : x = y

(* A run that began alone finds or leaves an empty directory, and fills it with
   its own records. *)
Mine ==
  alone =>
    /\ pc = "clear" => calls = Empty
    /\ pc \in Filling => \A a \in Arms, t \in Tasks : \A x \in calls[a][t] \union judge[a][t] : x.by = run

(* What a sound run knows of the arms that it has behind it. *)
Complete ==
  alone /\ sound =>
    /\ pc \in Filling \ {"generate", "baseline"} => SoundArm(Cfg, "baseline")
    /\ pc \in Filling \ {"generate", "baseline", "treatment"} => SoundArm(Cfg, "treatment")

(* The numbers in the memory of the harness are those of its rows, and those of
   what it has written. *)
Numbers ==
  /\ pc \in Rendering => \E s \in mem :
       /\ mem = {s}
       /\ report = {ReportOf(s)}
       /\ pc = "spotcheck" => metrics = {ReportOf(s)}
       /\ alone => s = Summarize(CallRows, Rows, Cfg.negativeControl)
  /\ SameNumbers

(* A rescore reads a directory that nobody writes: every name of it is still in
   the queue or has its row. *)
Kept(x, t) ==
  /\ x.row.parse = x.from.parse /\ x.row.flagged = x.from.flagged
  /\ x.row.pass => x.from.parse /\ (x.row.flagged <=> t \in Seeded)
Waiting(n) == \E i \in 1..Len(rescore.queue) : rescore.queue[i] = n
Rescoring ==
  /\ rescore.pc # "off" => AtRest
  /\ rescore.pc = "judging" =>
       /\ rescore.names = Names
       /\ rescore.queue \in Seq(Names)
       /\ \A n \in Names : Waiting(n) \/ \E x \in rescore.judge[n[1]][n[2]] : Kept(x, n[2])
  /\ RescoreKeepsVerdicts

TwoArmInv == Shape /\ Jobs /\ Rowed /\ Mine /\ Complete /\ Numbers /\ Rescoring
-----------------------------------------------------------------------------
(* The tasks are finitely many, and a finite set in some order has all of it. *)

LEMMA TasksFinite == IsFiniteSet(Tasks)
<1> DEFINE n == Len(Manifest)
<1>1. n \in Nat /\ Manifest \in [1..n -> Tasks] BY TwoArmAssumption
<1>2. Tasks = {Manifest[i] : i \in 1..n} BY <1>1 DEF Tasks, ToSet
<1>3. Manifest \in Surjection(1..n, Tasks) BY <1>1, <1>2 DEF Surjection
<1>4. IsFiniteSet(1..n) BY <1>1, FS_Interval
<1> QED BY <1>3, <1>4, FS_Surjection

LEMMA Listed ==
  ASSUME NEW S, IsFiniteSet(S)
  PROVE  /\ SetToSeq(S) \in Seq(S)
         /\ \A x \in S : \E i \in 1..Len(SetToSeq(S)) : SetToSeq(S)[i] = x
<1> DEFINE n == Cardinality(S)
           Good(f) == f \in [1..n -> S] /\ IsInjective(f)
<1>1. n \in Nat /\ ExistsBijection(1..n, S) BY FS_CardinalityType
<1>2. \E f : Good(f)
  <2>1. PICK f \in Bijection(1..n, S) : TRUE BY <1>1 DEF ExistsBijection
  <2>2. f \in [1..n -> S] BY <2>1 DEF Bijection, Injection
  <2>6. IsInjective(f) BY <2>1 DEF Bijection, Injection
  <2> HIDE DEF n
  <2>5. Good(f) BY <2>2, <2>6
  <2> QED BY <2>5
<1>3. Good(SetToSeq(S))
  <2>1. SetToSeq(S) = CHOOSE f : Good(f)
    BY DEF SetToSeq
  <2> HIDE DEF Good
  <2> QED BY <1>2, <2>1
<1> DEFINE q == SetToSeq(S)
<1>4. q \in Injection(1..n, S) BY <1>3 DEF Injection, IsInjective
<1> HIDE DEF q
<1>5. IsFiniteSet(1..n) /\ Cardinality(1..n) = n BY <1>1, FS_Interval
<1>6. q \in Surjection(1..n, S) BY <1>1, <1>4, <1>5, FS_Injection
<1>7. q \in [1..n -> S] /\ \A x \in S : \E i \in 1..n : q[i] = x BY <1>6 DEF Surjection
<1>8. q \in Seq(S) /\ Len(q) = n BY <1>1, <1>7
<1> QED BY <1>7, <1>8 DEF q

LEMMA NamesListed ==
  /\ SetToSeq(Names) \in Seq(Names)
  /\ \A x \in Names : \E i \in 1..Len(SetToSeq(Names)) : SetToSeq(Names)[i] = x
<1>1. IsFiniteSet(Arms)
  <2>1. Arms = {"baseline"} \cup {"treatment"} BY DEF Arms
  <2> QED BY <2>1, FS_Singleton, FS_Union
<1>2. IsFiniteSet(Arms \X Tasks) BY <1>1, TasksFinite, FS_Product
<1>3. Names \in SUBSET (Arms \X Tasks) BY DEF Names
<1>4. IsFiniteSet(Names) BY <1>2, <1>3, FS_Subset
<1> QED BY <1>4, Listed

(* What a rescore makes of one record. *)
LEMMA RegradedKeeps ==
  ASSUME NEW a, NEW t, NEW first, NEW second, NEW row, RecordOf(row, a, t),
         NEW new \in Regraded(row, first, second)
  PROVE  /\ new.parse = row.parse /\ new.flagged = row.flagged
         /\ new.pass => row.parse /\ (new.flagged <=> t \in Seeded)
<1>1. CASE ~row.parse
  <2>1. new = ParseFailure(Carried(row)) BY <1>1 DEF Regraded
  <2>2. new.parse = FALSE /\ new.flagged = FALSE /\ new.pass = FALSE BY <2>1 DEF ParseFailure, Record
  <2>3. row.parse = FALSE /\ row.flagged = FALSE BY <1>1 DEF RecordOf
  <2> QED BY <2>2, <2>3
<1>2. CASE row.parse
  <2>1. new \in Rejudged(row, first, second) /\ row.parse = TRUE BY <1>2 DEF Regraded, RecordOf
  <2>2. CASE new = JudgeFailure(Carried(row), row.flagged)
    BY <2>1, <2>2 DEF JudgeFailure, Record
  <2>3. ASSUME NEW b, new = Graded(Carried(row), row.flagged, b)
        PROVE  /\ new.parse = row.parse /\ new.flagged = row.flagged
               /\ new.pass => row.parse /\ (new.flagged <=> t \in Seeded)
    <3>1. new.pass = ItemPass(row.seeded, Revised[row.task], b.found, b.false, row.flagged)
      BY <2>3 DEF Graded, Record, Carried
    <3>2. new.parse = TRUE /\ new.flagged = row.flagged BY <2>3 DEF Graded, Record
    <3>3. row.seeded = (t \in Seeded) BY DEF RecordOf
    <3> QED BY <2>1, <3>1, <3>2, <3>3 DEF ItemPass
  <2> QED BY <2>1, <2>2, <2>3 DEF Rejudged
<1> QED BY <1>1, <1>2

(* What get_assert writes for an item. *)
LEMMA Judged ==
  ASSUME NEW j, NEW t \in Tasks, NEW first, NEW second, NEW row \in JudgeRecords(Base(j, t), j.review, first, second)
  PROVE  RecordOf(row, j.arm, t)
<1> DEFINE base == Base(j, t)
<1>1. base.arm = j.arm /\ base.task = t /\ base.seeded = (t \in Seeded) BY DEF Base
<1>2. CASE row = ParseFailure(base) BY <1>1, <1>2 DEF ParseFailure, Record, RecordOf
<1>3. CASE row = JudgeFailure(base, Flagged(j.review))
  BY <1>1, <1>3 DEF JudgeFailure, Record, RecordOf, Flagged
<1>4. ASSUME NEW a, row = Graded(base, Flagged(j.review), a) PROVE RecordOf(row, j.arm, t)
  <2>1. ItemPass(base.seeded, base.truth, a.found, a.false, Flagged(j.review)) \in BOOLEAN
    BY DEF ItemPass, Flagged
  <2> QED BY <1>1, <1>4, <2>1 DEF Graded, Record, RecordOf, Flagged
<1> QED BY <1>2, <1>3, <1>4 DEF JudgeRecords

LEMMA JudgedOnce ==
  ASSUME NEW base, NEW v, NEW first, NEW second, NEW x \in JudgeRecords(base, v, first, second),
         NEW y \in JudgeRecords(base, v, first, second)
  PROVE  x = y
  BY DEF JudgeRecords, JudgeReview
-----------------------------------------------------------------------------
(* The steps. *)

(* Most of the next-state relation touches neither the jobs nor the records. *)
Aside ==
  \/ Refuse \/ Proceed \/ TreatmentOver \/ WriteReport \/ WriteMetrics \/ Finish \/ Kill
  \/ RegenReport \/ RescoreStart \/ RescoreEnd \/ \E first, second \in Regrades : RescoreOne(first, second)

Calls == \E r \in Runs, t \in Tasks : \E first, second \in Outputs[r] : Call(r, t, first, second)
Asserts == \E r \in Runs, t \in Tasks : \E first, second \in Answers[r] : GetAssert(r, t, first, second)
Starts == \E f \in BOOLEAN : \E c \in UNION {Configs[r] : r \in {run + 1} \cap Runs} : Start(c, f)

LEMMA Split ==
  ASSUME Next
  PROVE  Aside \/ Starts \/ ClearCalls \/ ClearJudge \/ Generate \/ Gate \/ Calls \/ Asserts \/ RescoreOntoItself
  BY DEF Next, Run, Worker, Rescore, Aside, Calls, Asserts, Starts

LEMMA AsideKeeps == ASSUME Aside PROVE UNCHANGED <<job, calls, judge, run, conf, forced, alone>>
<1>1. ASSUME NEW first, NEW second, RescoreOne(first, second) PROVE UNCHANGED <<job, dirVars, given>>
  BY <1>1 DEF RescoreOne
<1>2. RescoreStart \/ RescoreEnd => UNCHANGED <<job, dirVars, given>> BY DEF RescoreStart, RescoreEnd
<1>3. Refuse \/ Proceed \/ TreatmentOver \/ WriteReport => UNCHANGED <<job, dirVars, given>>
  BY DEF Refuse, Proceed, TreatmentOver, WriteReport
<1>4. WriteMetrics \/ Finish \/ Kill \/ RegenReport => UNCHANGED <<job, dirVars, given>>
  BY DEF WriteMetrics, Finish, Kill, RegenReport
<1> QED BY <1>1, <1>2, <1>3, <1>4 DEF Aside, given, dirVars

LEMMA AsideRescore ==
  ASSUME Shape, Aside
  PROVE  /\ DOMAIN rescore' = {"pc", "queue", "names", "calls", "judge"}
         /\ DOMAIN rescore'.judge = Arms /\ \A a \in Arms : DOMAIN rescore'.judge[a] = Tasks
<1>1. ASSUME NEW first, NEW second, RescoreOne(first, second)
      PROVE  /\ DOMAIN rescore' = {"pc", "queue", "names", "calls", "judge"}
             /\ DOMAIN rescore'.judge = Arms /\ \A a \in Arms : DOMAIN rescore'.judge[a] = Tasks
  <2> DEFINE n == Head(rescore.queue)
             new == UNION {Regraded(x.row, first, second) : x \in judge[n[1]][n[2]]}
             v == {[row |-> row, from |-> x.row] : row \in new, x \in judge[n[1]][n[2]]}
  <2>1. rescore' = IF new = {} THEN [rescore EXCEPT !.pc = "failed"]
                   ELSE [rescore EXCEPT !.queue = Tail(@), !.judge[n[1]][n[2]] = v]
    BY <1>1 DEF RescoreOne
  <2> HIDE DEF n, new, v
  <2>2. CASE new = {} BY <2>1, <2>2 DEF Shape
  <2>3. CASE new # {} BY <2>1, <2>3 DEF Shape
  <2> QED BY <2>2, <2>3
<1>2. RescoreStart => rescore'= [pc |-> "judging", queue |-> SetToSeq(Names), names |-> Names,
                                 calls |-> calls, judge |-> Empty]
  BY DEF RescoreStart
<1>3. RescoreEnd => \E x : rescore' = [rescore EXCEPT !.pc = x] BY DEF RescoreEnd
<1>4. Refuse \/ Proceed \/ TreatmentOver \/ WriteReport \/ WriteMetrics \/ Finish \/ Kill \/ RegenReport
      => rescore' = rescore
  BY DEF Refuse, Proceed, TreatmentOver, WriteReport, WriteMetrics, Finish, Kill, RegenReport
<1> QED BY <1>1, <1>2, <1>3, <1>4 DEF Aside, Shape, Empty

LEMMA AsideIdle == ASSUME Aside PROVE pc' \notin Over => pc \notin Over
<1>1. ASSUME NEW first, NEW second, RescoreOne(first, second) PROVE pc' = pc
  BY <1>1 DEF RescoreOne
<1>2. RescoreStart \/ RescoreEnd \/ RegenReport => pc' = pc BY DEF RescoreStart, RescoreEnd, RegenReport
<1>3. Refuse \/ Proceed \/ TreatmentOver \/ WriteReport => pc \in {"guard", "treatment", "report"}
  BY DEF Refuse, Proceed, TreatmentOver, WriteReport
<1>4. WriteMetrics \/ Finish \/ Kill => pc \notin Over BY DEF WriteMetrics, Finish, Kill, Over
<1> QED BY <1>1, <1>2, <1>3, <1>4 DEF Aside, Over

LEMMA Initially == ASSUME Init PROVE TwoArmInv
<1>1. run = 0 /\ 0 \in 0..NumRuns BY TwoArmAssumption DEF Init
<1>2. Shape BY <1>1 DEF Init, Shape, Empty, Over
<1>3. Jobs BY DEF Init, Jobs
<1>4. Rowed BY DEF Init, Rowed, Empty
<1>5. Mine /\ Complete /\ Numbers BY DEF Init, Mine, Complete, Numbers, SameNumbers, Filling, Rendering
<1>6. Rescoring BY DEF Init, Rescoring, RescoreKeepsVerdicts
<1> QED BY <1>2, <1>3, <1>4, <1>5, <1>6 DEF TwoArmInv

(* What the steps that write jobs write. *)
LEMMA RunArmJobs ==
  ASSUME Shape, NEW a \in Arms, RunArm(a), run \in Runs
  PROVE  /\ DOMAIN job' = Runs /\ \A q \in Runs : DOMAIN job'[q] = Tasks
         /\ \A r \in Runs, t \in Tasks :
              /\ r # run => job'[r][t] = job[r][t]
              /\ (r = run /\ job'[r][t] # Done) => job'[r][t].arm = a
         /\ pc' = a
  BY DEF Shape, RunArm, Goto, Test

LEMMA CallJobs ==
  ASSUME Shape, NEW r \in Runs, NEW t \in Tasks, NEW first, NEW second, Call(r, t, first, second)
  PROVE  /\ job[r][t] # Done
         /\ DOMAIN job' = Runs /\ \A q \in Runs : DOMAIN job'[q] = Tasks
         /\ \A q \in Runs, u \in Tasks : job'[q][u] # Done => job[q][u] # Done /\ job'[q][u].arm = job[q][u].arm
         /\ DOMAIN calls' = Arms /\ \A b \in Arms : DOMAIN calls'[b] = Tasks
         /\ \A b \in Arms, u \in Tasks :
              calls'[b][u] = calls[b][u] \/ (b = job[r][t].arm /\ \A x \in calls'[b][u] : x.by = r)
         /\ UNCHANGED <<pc, given, sound, code, mem, judge, shown, rescore>>
<1> DEFINE j == job[r][t]
<1> USE DEF Shape
<1>1. j.at = "queued" /\ j # Done BY DEF Call, Done
<1>2. CASE job' = [job EXCEPT ![r][t] = Done] /\ UNCHANGED calls
  BY <1>1, <1>2 DEF Call
<1>3. ASSUME NEW v, NEW whole,
        calls' = [calls EXCEPT ![j.arm][t] = {[by |-> r, whole |-> whole, row |-> CallRow(j, t, v)]}],
        job' = [job EXCEPT ![r][t] = IF whole THEN [at |-> "answered", arm |-> j.arm, review |-> v] ELSE Done]
      PROVE /\ DOMAIN job' = Runs /\ \A q \in Runs : DOMAIN job'[q] = Tasks
            /\ \A q \in Runs, u \in Tasks : job'[q][u] # Done => job[q][u] # Done /\ job'[q][u].arm = job[q][u].arm
            /\ DOMAIN calls' = Arms /\ \A b \in Arms : DOMAIN calls'[b] = Tasks
            /\ \A b \in Arms, u \in Tasks :
                 calls'[b][u] = calls[b][u] \/ (b = j.arm /\ \A x \in calls'[b][u] : x.by = r)
  <2>1. DOMAIN job' = Runs /\ \A q \in Runs : DOMAIN job'[q] = Tasks BY <1>3
  <2>2. ASSUME NEW q \in Runs, NEW u \in Tasks, job'[q][u] # Done
        PROVE job[q][u] # Done /\ job'[q][u].arm = job[q][u].arm
    BY <1>1, <1>3, <2>2
  <2>3. DOMAIN calls' = Arms /\ \A b \in Arms : DOMAIN calls'[b] = Tasks BY <1>3
  <2>4. ASSUME NEW b \in Arms, NEW u \in Tasks
        PROVE  calls'[b][u] = calls[b][u] \/ (b = j.arm /\ \A x \in calls'[b][u] : x.by = r)
    BY <1>3
  <2> QED BY <2>1, <2>2, <2>3, <2>4
<1> QED BY <1>1, <1>2, <1>3 DEF Call

LEMMA AssertJobs ==
  ASSUME Shape, Jobs, NEW r \in Runs, NEW t \in Tasks, NEW first, NEW second, GetAssert(r, t, first, second)
  PROVE  /\ job[r][t] # Done /\ job[r][t].arm \in Arms
         /\ DOMAIN job' = Runs /\ \A q \in Runs : DOMAIN job'[q] = Tasks
         /\ \A q \in Runs, u \in Tasks : job'[q][u] # Done => job'[q][u] = job[q][u]
         /\ DOMAIN judge' = Arms /\ \A b \in Arms : DOMAIN judge'[b] = Tasks
         /\ \A b \in Arms, u \in Tasks :
              \/ judge'[b][u] = judge[b][u]
              \/ /\ b = job[r][t].arm /\ u = t
                 /\ \A x \in judge'[b][u] : x.by = r /\ RecordOf(x.row, b, u)
                 /\ \A x, y \in judge'[b][u] : x = y
         /\ UNCHANGED <<pc, given, sound, code, mem, calls, shown, rescore>>
<1> DEFINE j == job[r][t]
           records == JudgeRecords(Base(j, t), j.review, first, second)
           New(whole) == {[by |-> r, whole |-> whole, row |-> row] : row \in records}
<1>1. j.at = "answered" /\ j # Done BY DEF GetAssert, Done
<1>2. j.arm \in Arms BY <1>1 DEF Jobs
<1>3. job' = [job EXCEPT ![r][t] = Done] BY DEF GetAssert
<1>0. PICK whole \in BOOLEAN : judge' = [judge EXCEPT ![j.arm][t] = IF records = {} THEN @ ELSE New(whole)]
  BY DEF GetAssert
<1> DEFINE new == New(whole)
<1>4. judge' = [judge EXCEPT ![j.arm][t] = IF records = {} THEN @ ELSE new] BY <1>0
<1>5. \A x \in new : x.by = r /\ RecordOf(x.row, j.arm, t) BY Judged
<1>6. \A x, y \in new : x = y BY JudgedOnce, ZenonT(60)
<1> HIDE DEF new, New, records, j
<1>7. \A b \in Arms, u \in Tasks : judge'[b][u] = judge[b][u] \/ (b = j.arm /\ u = t /\ judge'[b][u] = new)
  BY <1>2, <1>4 DEF Shape
<1>8. DOMAIN judge' = Arms /\ \A b \in Arms : DOMAIN judge'[b] = Tasks BY <1>2, <1>4 DEF Shape
<1>9. \A b \in Arms, u \in Tasks :
        \/ judge'[b][u] = judge[b][u]
        \/ /\ b = j.arm /\ u = t
           /\ \A x \in judge'[b][u] : x.by = r /\ RecordOf(x.row, b, u)
           /\ \A x, y \in judge'[b][u] : x = y
  BY <1>5, <1>6, <1>7, Zenon
<1>10. /\ DOMAIN job' = Runs /\ \A q \in Runs : DOMAIN job'[q] = Tasks
       /\ \A q \in Runs, u \in Tasks : job'[q][u] # Done => job'[q][u] = job[q][u]
  BY <1>3 DEF Shape
<1>11. UNCHANGED <<pc, given, sound, code, mem, calls, shown, rescore>> BY DEF GetAssert
<1> QED BY <1>1, <1>2, <1>8, <1>9, <1>10, <1>11 DEF j

LEMMA ShapeStep == ASSUME TwoArmInv, Next PROVE Shape'
<1> USE DEF TwoArmInv
<1>0. NumRuns \in Nat BY TwoArmAssumption
<1>1. CASE Aside
  BY <1>1, AsideKeeps, AsideRescore, AsideIdle DEF Shape
<1>2. CASE Starts
  BY <1>0, <1>2 DEF Starts, Start, Shape, Runs, Working, dirVars, shown
<1>3. CASE ClearCalls \/ ClearJudge
  BY <1>3 DEF ClearCalls, ClearJudge, Shape, Empty, given, shown, Over, Goto
<1>4. CASE Generate \/ Gate
  <2>1. pc \notin Over /\ run \in Runs BY <1>4 DEF Generate, Gate, Over, Shape
  <2>2. UNCHANGED job \/ \E a \in Arms : RunArm(a) BY <1>4 DEF Generate, Gate, Arms
  <2>3. UNCHANGED <<run, conf, alone, calls, judge, rescore>> BY <1>4 DEF Generate, Gate, given, dirVars
  <2> QED BY <2>1, <2>2, <2>3, RunArmJobs DEF Shape
<1>5. CASE Calls BY <1>5, CallJobs DEF Calls, Shape, given, shown
<1>6. CASE Asserts BY <1>6, AssertJobs DEF Asserts, Shape, given, shown
<1>7. CASE RescoreOntoItself BY <1>7 DEF RescoreOntoItself, Shape, Empty, given, shown
<1> QED BY <1>1, <1>2, <1>3, <1>4, <1>5, <1>6, <1>7, Split
LEMMA PcWorking ==
  ASSUME Jobs, Aside, NEW t \in Tasks, run \in Runs, job[run][t] # Done
  PROVE  pc' = pc \/ pc' = "killed"
<1>1. pc \in Arms \union {"killed"} /\ Working(run) BY DEF Jobs, Working
<1>2. ASSUME NEW first, NEW second, RescoreOne(first, second) PROVE pc' = pc
  BY <1>2 DEF RescoreOne
<1>3. RescoreStart \/ RescoreEnd \/ RegenReport => pc' = pc BY DEF RescoreStart, RescoreEnd, RegenReport
<1>4. ~(Refuse \/ Proceed \/ TreatmentOver \/ WriteReport \/ WriteMetrics \/ Finish)
  BY <1>1 DEF Refuse, Proceed, TreatmentOver, WriteReport, WriteMetrics, Finish, Arms
<1>5. Kill => pc' = "killed" BY DEF Kill
<1> QED BY <1>2, <1>3, <1>4, <1>5 DEF Aside

LEMMA JobsStep == ASSUME TwoArmInv, Next PROVE Jobs'
<1> USE DEF TwoArmInv
<1>1. CASE Aside
  <2> SUFFICES ASSUME NEW r \in Runs, NEW t \in Tasks, job[r][t] # Done
               PROVE  /\ job[r][t].arm \in Arms
                      /\ r <= run
                      /\ r < run => ~alone
                      /\ r = run => pc' \in Arms \union {"killed"}
                      /\ r = run /\ pc' \in Arms => job[r][t].arm = pc'
    BY <1>1, AsideKeeps DEF Jobs
  <2>1. r = run => pc' = pc \/ pc' = "killed" BY <1>1, PcWorking
  <2> QED BY <2>1 DEF Jobs, Arms
<1>2. CASE Starts
  <2>1. run' = run + 1 /\ UNCHANGED job /\ (alone' => \A r \in Runs : ~Working(r))
    BY <1>2 DEF Starts, Start
  <2>2. \A r \in Runs, t \in Tasks : job[r][t] # Done => job[r][t].arm \in Arms /\ r <= run /\ ~alone'
    BY <2>1 DEF Jobs, Working
  <2> QED BY <2>1, <2>2 DEF Jobs, Shape, Runs
<1>3. CASE ClearCalls \/ ClearJudge
  <2>1. UNCHANGED <<job, run, alone>> /\ pc \in {"guard", "clear"}
    BY <1>3 DEF ClearCalls, ClearJudge, given
  <2> QED BY <2>1 DEF Jobs, Arms
<1>4. CASE Generate \/ Gate
  <2>1. run \in Runs BY <1>4 DEF Generate, Gate, Over, Shape
  <2>2. UNCHANGED <<run, alone>> BY <1>4 DEF Generate, Gate, given
  <2>3. ASSUME NEW t \in Tasks PROVE job[run][t] = Done
    BY <1>4, <2>1 DEF Generate, Gate, Jobs, Arms, Working
  <2>4. ASSUME NEW a \in Arms, RunArm(a) PROVE Jobs'
    <3>1. \A r \in Runs, t \in Tasks : r # run => job'[r][t] = job[r][t] BY <2>1, <2>4, RunArmJobs
    <3>2. \A t \in Tasks : job'[run][t] # Done => job'[run][t].arm = a BY <2>1, <2>4, RunArmJobs
    <3>3. pc' = a BY <2>4 DEF RunArm, Goto
    <3> QED BY <2>2, <3>1, <3>2, <3>3 DEF Jobs, Runs, Shape
  <2>5. CASE UNCHANGED job BY <2>2, <2>3, <2>5 DEF Jobs
  <2> QED BY <1>4, <2>4, <2>5 DEF Generate, Gate, Arms
<1>5. CASE Calls BY <1>5, CallJobs DEF Calls, Jobs, given
<1>6. CASE Asserts BY <1>6, AssertJobs DEF Asserts, Jobs, given
<1>7. CASE RescoreOntoItself BY <1>7 DEF RescoreOntoItself, Jobs, given
<1> QED BY <1>1, <1>2, <1>3, <1>4, <1>5, <1>6, <1>7, Split

LEMMA RowedStep == ASSUME TwoArmInv, Next PROVE Rowed'
<1> USE DEF TwoArmInv
<1>1. CASE UNCHANGED judge BY <1>1 DEF Rowed
<1>2. CASE judge' = Empty BY <1>2 DEF Rowed, Empty
<1>3. CASE Asserts
  <2> SUFFICES ASSUME NEW b \in Arms, NEW u \in Tasks
               PROVE  /\ \A x \in judge'[b][u] : RecordOf(x.row, b, u)
                      /\ \A x, y \in judge'[b][u] : x = y
    BY DEF Rowed
  <2>1. PICK r \in Runs, t \in Tasks : \E first, second \in Answers[r] : GetAssert(r, t, first, second)
    BY <1>3 DEF Asserts
  <2>2. CASE judge'[b][u] = judge[b][u] BY <2>2 DEF Rowed
  <2>3. judge'[b][u] = judge[b][u] \/ ((\A x \in judge'[b][u] : x.by = r /\ RecordOf(x.row, b, u))
                                       /\ (\A x, y \in judge'[b][u] : x = y))
    BY <2>1, AssertJobs
  <2> QED BY <2>2, <2>3
<1>4. Aside \/ Starts \/ ClearCalls \/ Generate \/ Gate => UNCHANGED judge
  BY AsideKeeps DEF Starts, Start, ClearCalls, Generate, Gate, dirVars
<1>5. Calls => UNCHANGED judge BY CallJobs DEF Calls
<1>6. ClearJudge \/ RescoreOntoItself => judge' = Empty BY DEF ClearJudge, RescoreOntoItself
<1> QED BY <1>1, <1>2, <1>3, <1>4, <1>5, <1>6, Split

(* A run that is alone is written to by its own workers only, and only while one
   of its arms is open. *)
LEMMA OwnWorker ==
  ASSUME Jobs, Shape, alone, NEW r \in Runs, NEW t \in Tasks, job[r][t] # Done
  PROVE  /\ r = run /\ pc \in Arms \union {"killed"}
         /\ pc \in Arms => job[r][t].arm = pc
  BY DEF Jobs, Shape, Runs

LEMMA AsideFilling ==
  ASSUME Numbers, Aside
  PROVE  /\ pc' # "clear" \/ pc' = pc
         /\ pc' \in Filling => pc \in Filling \/ Proceed
<1>1. ASSUME NEW first, NEW second, RescoreOne(first, second) PROVE pc' = pc
  BY <1>1 DEF RescoreOne
<1>2. RescoreStart \/ RescoreEnd \/ RegenReport => pc' = pc BY DEF RescoreStart, RescoreEnd, RegenReport
<1>3. Refuse \/ Kill => pc' \in {"over", "killed"} BY DEF Refuse, Kill, End
<1>4. TreatmentOver => pc = "treatment" /\ pc' = "report" BY DEF TreatmentOver, Goto
<1>5. WriteReport \/ WriteMetrics \/ Finish => pc \in Filling BY DEF WriteReport, WriteMetrics, Finish, Filling
<1>6. WriteReport => pc' \in {"metrics", "over"} BY DEF WriteReport, Goto, End
<1>7. WriteMetrics => pc' = "spotcheck" BY DEF WriteMetrics, Goto
<1>8. CASE Proceed BY <1>8 DEF Proceed, Goto
<1>9. Finish => pc' = "over" BY DEF Finish, End, Numbers, Rendering
<1> QED BY <1>1, <1>2, <1>3, <1>4, <1>5, <1>6, <1>7, <1>8, <1>9 DEF Aside, Filling
LEMMA CleanEmpty ==
  ASSUME Shape, Clean
  PROVE  \A a \in Arms, t \in Tasks : calls[a][t] = {} /\ judge[a][t] = {}
  BY DEF Clean, Stale, Ids

LEMMA MineStep == ASSUME TwoArmInv, Next PROVE Mine'
<1> USE DEF TwoArmInv
<1> DEFINE Own == \A a \in Arms, t \in Tasks : \A x \in calls[a][t] \union judge[a][t] : x.by = run
<1>1. CASE Aside
  <2>1. UNCHANGED <<calls, judge, run, alone>> BY <1>1, AsideKeeps
  <2>2. pc' = "clear" => pc = "clear" BY <1>1, AsideFilling
  <2>3. CASE Proceed
    <3>1. pc = "guard" /\ pc' = "generate" /\ Clean BY <2>3 DEF Proceed, Goto
    <3> QED BY <2>1, <3>1, CleanEmpty DEF Mine
  <2>4. CASE ~Proceed
    <3>1. pc' \in Filling => pc \in Filling BY <1>1, <2>4, AsideFilling
    <3> QED BY <2>1, <2>2, <3>1 DEF Mine
  <2> QED BY <2>3, <2>4
<1>2. CASE Starts
  <2>1. pc' \in {"guard", "over"} BY <1>2 DEF Starts, Start, End
  <2> QED BY <2>1 DEF Mine, Filling
<1>3. CASE ClearCalls
  <2>1. pc' = "clear" /\ calls' = Empty BY <1>3 DEF ClearCalls, Goto
  <2> QED BY <2>1 DEF Mine, Filling, Empty
<1>4. CASE ClearJudge
  <2>1. pc = "clear" /\ pc' = "generate" /\ judge' = Empty /\ UNCHANGED <<calls, alone, run>>
    BY <1>4 DEF ClearJudge, Goto, given
  <2>2. alone => \A a \in Arms, t \in Tasks : calls[a][t] = {} BY <2>1 DEF Mine, Empty
  <2> QED BY <2>1, <2>2 DEF Mine, Empty
<1>5. CASE Generate \/ Gate
  <2>1. pc \in Filling /\ UNCHANGED <<calls, judge, run, alone>>
    BY <1>5 DEF Generate, Gate, dirVars, given, Filling
  <2>2. pc' # "clear" BY <1>5 DEF Generate, Gate, RunArm, Goto, End, Arms
  <2> QED BY <2>1, <2>2 DEF Mine
<1>6. CASE Calls
  <2>1. PICK r \in Runs, t \in Tasks : \E first, second \in Outputs[r] : Call(r, t, first, second)
    BY <1>6 DEF Calls
  <2>2. UNCHANGED <<pc, run, alone, judge>> /\ job[r][t] # Done BY <2>1, CallJobs DEF given
  <2>3. \A b \in Arms, u \in Tasks : calls'[b][u] = calls[b][u] \/ \A x \in calls'[b][u] : x.by = r
    BY <2>1, CallJobs
  <2>4. CASE alone
    <3>1. r = run /\ pc \in Arms \union {"killed"} BY <2>2, <2>4, OwnWorker
    <3> QED BY <2>2, <2>3, <3>1 DEF Mine, Arms
  <2> QED BY <2>2, <2>4 DEF Mine
<1>7. CASE Asserts
  <2>1. PICK r \in Runs, t \in Tasks : \E first, second \in Answers[r] : GetAssert(r, t, first, second)
    BY <1>7 DEF Asserts
  <2>2. UNCHANGED <<pc, run, alone, calls>> /\ job[r][t] # Done BY <2>1, AssertJobs DEF given
  <2>3. \A b \in Arms, u \in Tasks : judge'[b][u] = judge[b][u] \/ \A x \in judge'[b][u] : x.by = r
    BY <2>1, AssertJobs
  <2>4. CASE alone
    <3>1. r = run /\ pc \in Arms \union {"killed"} BY <2>2, <2>4, OwnWorker
    <3> QED BY <2>2, <2>3, <3>1 DEF Mine, Arms
  <2> QED BY <2>2, <2>4 DEF Mine
<1>8. CASE RescoreOntoItself
  <2>1. pc \in Over /\ pc' = pc BY <1>8 DEF RescoreOntoItself, Rescorable, AtRest
  <2> QED BY <2>1 DEF Mine, Over, Filling
<1> QED BY <1>1, <1>2, <1>3, <1>4, <1>5, <1>6, <1>7, <1>8, Split

(* An arm stays complete while its files stay, and nothing but the end of an arm
   makes a run unsound. *)
LEMMA ArmStays ==
  ASSUME NEW a \in Arms, UNCHANGED conf, \A t \in Tasks : calls'[a][t] = calls[a][t] /\ judge'[a][t] = judge[a][t]
  PROVE  SoundArm(Cfg, a)' <=> SoundArm(Cfg, a)
<1>1. Ids(calls', a) = Ids(calls, a) /\ Ids(judge', a) = Ids(judge, a) BY DEF Ids
<1>2. Items(Cfg)' = Items(Cfg) BY DEF Items, Cfg
<1> QED BY <1>1, <1>2 DEF SoundArm

Past == Filling \ {"generate", "baseline"}

LEMMA AsideComplete == ASSUME TwoArmInv, Aside PROVE Complete'
<1> USE DEF TwoArmInv
<1>1. UNCHANGED <<calls, judge, run, conf, alone>> BY AsideKeeps
<1>2. \A a \in Arms : SoundArm(Cfg, a)' <=> SoundArm(Cfg, a) BY <1>1, ArmStays
<1>3. CASE TreatmentOver
  <2>1. pc = "treatment" /\ pc' = "report" /\ (sound' <=> sound /\ SoundArm(Cfg, "treatment"))
    BY <1>3 DEF TreatmentOver, Goto
  <2> QED BY <1>1, <1>2, <2>1 DEF Complete, Filling, Arms
<1>4. CASE ~TreatmentOver
  <2>1. UNCHANGED sound
    <3>1. ASSUME NEW first, NEW second, RescoreOne(first, second) PROVE UNCHANGED sound
      BY <3>1 DEF RescoreOne
    <3>2. RescoreStart \/ RescoreEnd \/ RegenReport => UNCHANGED sound BY DEF RescoreStart, RescoreEnd, RegenReport
    <3>3. Refuse \/ Kill \/ Proceed \/ WriteReport \/ WriteMetrics \/ Finish => UNCHANGED sound
      BY DEF Refuse, Kill, Proceed, WriteReport, WriteMetrics, Finish
    <3> QED BY <1>4, <3>1, <3>2, <3>3 DEF Aside
  <2>2. /\ pc' \in Past => pc \in Past
        /\ pc' \in Past \ {"treatment"} => pc \in Past \ {"treatment"}
    <3>1. ASSUME NEW first, NEW second, RescoreOne(first, second) PROVE pc' = pc
      BY <3>1 DEF RescoreOne
    <3>2. RescoreStart \/ RescoreEnd \/ RegenReport => pc' = pc BY DEF RescoreStart, RescoreEnd, RegenReport
    <3>3. Refuse \/ Kill => pc' \in {"over", "killed"} BY DEF Refuse, Kill, End
    <3>4. WriteReport \/ WriteMetrics \/ Finish => pc \in Past \ {"treatment"}
      BY DEF WriteReport, WriteMetrics, Finish, Past, Filling
    <3>5. Proceed => pc' = "generate" BY DEF Proceed, Goto
    <3> QED BY <1>4, <3>1, <3>2, <3>3, <3>4, <3>5 DEF Aside, Past, Filling
  <2> QED BY <1>1, <1>2, <2>1, <2>2 DEF Complete, Past, Arms
<1> QED BY <1>3, <1>4

LEMMA CompleteStep == ASSUME TwoArmInv, Next PROVE Complete'
<1> USE DEF TwoArmInv
<1>1. CASE Aside BY <1>1, AsideComplete
<1>2. CASE Starts \/ ClearCalls \/ ClearJudge \/ Generate \/ RescoreOntoItself
  <2>1. pc' \notin Past
    BY <1>2 DEF Starts, Start, End, ClearCalls, ClearJudge, Generate, RescoreOntoItself, RunArm, Goto, Rescorable,
       AtRest, Over, Past, Filling
  <2> QED BY <2>1 DEF Complete, Past
<1>3. CASE Gate
  <2>1. UNCHANGED <<calls, judge, run, conf, alone>> BY <1>3 DEF Gate, dirVars, given
  <2>2. pc' \in {"over", "treatment"} /\ (sound' <=> SoundArm(Cfg, "baseline"))
    BY <1>3 DEF Gate, End, RunArm, Goto
  <2>3. SoundArm(Cfg, "baseline")' <=> SoundArm(Cfg, "baseline") BY <2>1, ArmStays DEF Arms
  <2> QED BY <2>2, <2>3 DEF Complete, Filling
<1>4. ASSUME NEW r \in Runs, NEW t \in Tasks, job[r][t] # Done, UNCHANGED <<pc, sound, alone, conf>>,
             \A b \in Arms, u \in Tasks :
               b = job[r][t].arm \/ (calls'[b][u] = calls[b][u] /\ judge'[b][u] = judge[b][u])
      PROVE  Complete'
  <2>1. CASE alone /\ sound /\ pc \in Past
    <3>1. pc = "treatment" /\ job[r][t].arm = "treatment"
      BY <1>4, <2>1, OwnWorker DEF Past, Filling, Arms
    <3>2. \A u \in Tasks : calls'["baseline"][u] = calls["baseline"][u] /\ judge'["baseline"][u] = judge["baseline"][u]
      BY <1>4, <3>1 DEF Arms
    <3>3. SoundArm(Cfg, "baseline")' <=> SoundArm(Cfg, "baseline") BY <1>4, <3>2, ArmStays DEF Arms
    <3> QED BY <1>4, <2>1, <3>1, <3>3 DEF Complete, Past
  <2> QED BY <1>4, <2>1 DEF Complete, Past
<1>5. CASE Calls
  <2>1. PICK r \in Runs, t \in Tasks : \E first, second \in Outputs[r] : Call(r, t, first, second)
    BY <1>5 DEF Calls
  <2>2. UNCHANGED <<pc, given, sound, judge>> /\ job[r][t] # Done BY <2>1, CallJobs
  <2>3. \A b \in Arms, u \in Tasks : b = job[r][t].arm \/ calls'[b][u] = calls[b][u] BY <2>1, CallJobs
  <2> QED BY <2>2, <2>3, <1>4 DEF given
<1>6. CASE Asserts
  <2>1. PICK r \in Runs, t \in Tasks : \E first, second \in Answers[r] : GetAssert(r, t, first, second)
    BY <1>6 DEF Asserts
  <2>2. UNCHANGED <<pc, given, sound, calls>> /\ job[r][t] # Done BY <2>1, AssertJobs
  <2>3. \A b \in Arms, u \in Tasks : b = job[r][t].arm \/ judge'[b][u] = judge[b][u] BY <2>1, AssertJobs
  <2> QED BY <2>2, <2>3, <1>4 DEF given
<1> QED BY <1>1, <1>2, <1>3, <1>5, <1>6, Split
LEMMA NumbersStay ==
  ASSUME Numbers, UNCHANGED <<pc, conf, alone, mem, report, metrics, torn>>,
         (alone /\ pc \in Rendering) => UNCHANGED <<calls, judge>>
  PROVE  Numbers'
<1>1. (alone /\ pc \in Rendering) => CallRows' = CallRows /\ Rows' = Rows BY DEF CallRows, Rows
<1>2. Cfg' = Cfg BY DEF Cfg
<1> QED BY <1>1, <1>2 DEF Numbers, SameNumbers

LEMMA NumbersStep == ASSUME TwoArmInv, Next PROVE Numbers'
<1> USE DEF TwoArmInv
<1>1. CASE WriteReport
  <2>1. CASE pc' = "over" /\ UNCHANGED <<report, torn, metrics>>
    BY <1>1, <2>1 DEF Numbers, SameNumbers, Rendering, WriteReport
  <2>2. ASSUME NEW s, s = Summarize(CallRows, Rows, Cfg.negativeControl), mem' = {s}, report' = {ReportOf(s)},
               pc' = "metrics"
        PROVE  Numbers'
    <3>1. UNCHANGED <<calls, judge, conf>> BY <1>1, AsideKeeps DEF Aside
    <3>2. CallRows' = CallRows /\ Rows' = Rows BY <3>1 DEF CallRows, Rows
    <3>3. Cfg' = Cfg BY <3>1 DEF Cfg
    <3> HIDE DEF Rows, CallRows, Cfg
    <3> QED BY <2>2, <3>2, <3>3 DEF Numbers, SameNumbers, Rendering
  <2> QED BY <1>1, <2>1, <2>2 DEF WriteReport, End, Goto
<1>2. CASE WriteMetrics
  <2>1. UNCHANGED <<calls, judge, conf, alone, mem, report, torn>>
    BY <1>2, AsideKeeps DEF Aside, WriteMetrics
  <2>2. pc = "metrics" /\ pc' = "spotcheck" /\ metrics' = {ReportOf(s) : s \in mem} BY <1>2 DEF WriteMetrics, Goto
  <2>3. CallRows' = CallRows /\ Rows' = Rows BY <2>1 DEF CallRows, Rows
  <2>4. Cfg' = Cfg BY <2>1 DEF Cfg
  <2> QED BY <2>1, <2>2, <2>3, <2>4 DEF Numbers, SameNumbers, Rendering
<1>3. CASE Finish
  <2>1. pc = "spotcheck" /\ pc' = "over" /\ UNCHANGED shown BY <1>3 DEF Finish, End, Numbers, Rendering
  <2>2. report = metrics BY <2>1 DEF Numbers, Rendering
  <2> QED BY <2>1, <2>2 DEF Numbers, SameNumbers, Rendering, shown
<1>4. CASE Kill
  <2>1. pc' = "killed" /\ torn' = (torn \/ pc \in Rendering) /\ UNCHANGED <<report, metrics>> BY <1>4 DEF Kill
  <2> QED BY <2>1 DEF Numbers, SameNumbers, Rendering
<1>5. CASE RegenReport
  <2>1. pc \notin Rendering /\ pc' = pc /\ UNCHANGED metrics
    BY <1>5 DEF RegenReport, AtRest, Over, Rendering
  <2>2. torn' = (torn \/ metrics = {}) BY <1>5 DEF RegenReport
  <2>3. metrics = {} \/ report' = metrics BY <1>5 DEF RegenReport, Verified
  <2> QED BY <2>1, <2>2, <2>3 DEF Numbers, SameNumbers
<1>6. ASSUME pc' \notin Rendering, pc \notin Rendering, UNCHANGED shown PROVE Numbers'
  BY <1>6 DEF Numbers, SameNumbers, shown
<1>7. CASE Starts \/ ClearCalls \/ ClearJudge \/ Generate \/ Gate \/ RescoreOntoItself
  BY <1>6, <1>7 DEF Starts, Start, End, ClearCalls, ClearJudge, Generate, Gate, RescoreOntoItself, RunArm, Goto,
     Rescorable, AtRest, Over, Rendering
<1>8. CASE Refuse \/ Proceed \/ TreatmentOver
  BY <1>6, <1>8 DEF Refuse, Proceed, TreatmentOver, Goto, End, Rendering
<1>9. CASE RescoreStart \/ RescoreEnd \/ \E first, second \in Regrades : RescoreOne(first, second)
  <2>1. ASSUME NEW first, NEW second, RescoreOne(first, second)
        PROVE  UNCHANGED <<pc, given, mem, dirVars, shown>>
    BY <2>1 DEF RescoreOne
  <2>2. UNCHANGED <<pc, given, mem, dirVars, shown>> BY <1>9, <2>1 DEF RescoreStart, RescoreEnd
  <2> QED BY <2>2, NumbersStay DEF given, dirVars, shown
<1>10. CASE Calls
  <2>1. PICK r \in Runs, t \in Tasks : \E first, second \in Outputs[r] : Call(r, t, first, second)
    BY <1>10 DEF Calls
  <2>2. UNCHANGED <<pc, given, mem, shown>> /\ job[r][t] # Done BY <2>1, CallJobs
  <2>3. ~(alone /\ pc \in Rendering) BY <2>2, OwnWorker DEF Rendering, Arms
  <2> QED BY <2>2, <2>3, NumbersStay DEF given, shown
<1>11. CASE Asserts
  <2>1. PICK r \in Runs, t \in Tasks : \E first, second \in Answers[r] : GetAssert(r, t, first, second)
    BY <1>11 DEF Asserts
  <2>2. UNCHANGED <<pc, given, mem, shown>> /\ job[r][t] # Done BY <2>1, AssertJobs
  <2>3. ~(alone /\ pc \in Rendering) BY <2>2, OwnWorker DEF Rendering, Arms
  <2> QED BY <2>2, <2>3, NumbersStay DEF given, shown
<1> QED BY <1>1, <1>2, <1>3, <1>4, <1>5, <1>7, <1>8, <1>9, <1>10, <1>11, Split DEF Aside

-----------------------------------------------------------------------------
(* The rescore. *)

LEMMA RescoringStays ==
  ASSUME Rescoring, UNCHANGED rescore,
         rescore.pc # "off" => AtRest'
                            /\ (rescore.pc = "judging" => UNCHANGED judge)
  PROVE  Rescoring'
<1>1. UNCHANGED judge => Names' = Names BY DEF Names
<1> QED BY <1>1 DEF Rescoring, RescoreKeepsVerdicts, Waiting

LEMMA RescoreOneStep ==
  ASSUME TwoArmInv, NEW first, NEW second, RescoreOne(first, second) PROVE Rescoring'
<1> USE DEF TwoArmInv
<1> DEFINE n == Head(rescore.queue)
           new == UNION {Regraded(x.row, first, second) : x \in judge[n[1]][n[2]]}
           v == {[row |-> row, from |-> x.row] : row \in new, x \in judge[n[1]][n[2]]}
<1>1. rescore.pc = "judging" /\ rescore.queue # <<>> BY DEF RescoreOne
<1>2. rescore' = IF new = {} THEN [rescore EXCEPT !.pc = "failed"]
                 ELSE [rescore EXCEPT !.queue = Tail(@), !.judge[n[1]][n[2]] = v]
  BY DEF RescoreOne
<1>3. UNCHANGED <<pc, job, judge>> BY DEF RescoreOne, dirVars
<1>4. AtRest' /\ Names' = Names BY <1>1, <1>3 DEF Rescoring, AtRest, Working, Names
<1>5. n \in Names /\ n[1] \in Arms /\ n[2] \in Tasks /\ judge[n[1]][n[2]] # {}
  <2>1. rescore.queue \in Seq(Names) /\ rescore.queue # <<>> BY <1>1 DEF Rescoring
  <2>2. n \in Names BY <2>1
  <2> QED BY <2>2 DEF Names
<1>6. new # {} => \E z \in v : Kept(z, n[2])
  <2> SUFFICES ASSUME new # {} PROVE \E z \in v : Kept(z, n[2])
    OBVIOUS
  <2>1. PICK x \in judge[n[1]][n[2]] : Regraded(x.row, first, second) # {} OBVIOUS
  <2>2. PICK row \in Regraded(x.row, first, second) : TRUE BY <2>1
  <2>3. row \in new BY <2>1, <2>2
  <2>4. RecordOf(x.row, n[1], n[2]) BY <1>5, <2>1 DEF Rowed
  <2>5. /\ row.parse = x.row.parse /\ row.flagged = x.row.flagged
        /\ row.pass => x.row.parse /\ (row.flagged <=> n[2] \in Seeded)
    BY <2>2, <2>4, RegradedKeeps
  <2> DEFINE z == [row |-> row, from |-> x.row]
  <2>6. z \in v BY <2>1, <2>3
  <2>7. Kept(z, n[2]) BY <2>5 DEF Kept
  <2> QED BY <2>6, <2>7
<1> HIDE DEF new, v
<1>7. CASE new = {}
  <2>1. rescore'.pc = "failed" BY <1>2, <1>7 DEF Shape
  <2> QED BY <1>4, <2>1 DEF Rescoring, RescoreKeepsVerdicts
<1>8. CASE new # {}
  <2>1. /\ rescore'.pc = "judging" /\ rescore'.names = rescore.names /\ rescore'.queue = Tail(rescore.queue)
        /\ \A a \in Arms, t \in Tasks :
             rescore'.judge[a][t] = IF a = n[1] /\ t = n[2] THEN v ELSE rescore.judge[a][t]
    <3> HIDE DEF n
    <3> QED BY <1>1, <1>2, <1>5, <1>8 DEF Shape
  <2>2. rescore.queue \in Seq(Names) BY <1>1 DEF Rescoring
  <2>3. rescore'.queue \in Seq(Names) /\ Len(rescore'.queue) = Len(rescore.queue) - 1
        /\ \A i \in 2..Len(rescore.queue) : rescore'.queue[i - 1] = rescore.queue[i]
    BY <1>1, <2>1, <2>2
  <2>4. ASSUME NEW m \in Names PROVE Waiting(m)' \/ \E x \in rescore'.judge[m[1]][m[2]] : Kept(x, m[2])
    <3>1. m[1] \in Arms /\ m[2] \in Tasks BY DEF Names
    <3>2. CASE m = n BY <1>6, <1>8, <2>1, <3>1, <3>2
    <3>3. CASE m # n
      <4>1. ~(m[1] = n[1] /\ m[2] = n[2]) BY <1>5, <3>3 DEF Names
      <4>2. rescore'.judge[m[1]][m[2]] = rescore.judge[m[1]][m[2]] BY <2>1, <3>1, <4>1
      <4>3. CASE Waiting(m)
        <5>1. PICK i \in 1..Len(rescore.queue) : rescore.queue[i] = m BY <4>3 DEF Waiting
        <5>2. i \in 2..Len(rescore.queue) BY <1>1, <2>2, <3>3, <5>1
        <5>3. i - 1 \in 1..Len(rescore'.queue) /\ rescore'.queue[i - 1] = m BY <2>2, <2>3, <5>1, <5>2
        <5> QED BY <5>3 DEF Waiting
      <4>4. CASE ~Waiting(m) BY <1>1, <4>2, <4>4 DEF Rescoring
      <4> QED BY <4>3, <4>4
    <3> QED BY <3>2, <3>3
  <2> QED BY <1>1, <1>4, <2>1, <2>3, <2>4 DEF Rescoring, RescoreKeepsVerdicts
<1> QED BY <1>7, <1>8

LEMMA RescoreEndStep == ASSUME TwoArmInv, RescoreEnd PROVE Rescoring'
<1> USE DEF TwoArmInv
<1> DEFINE good == Whole(rescore.calls, Arms) /\ \A x \in Records(rescore.judge) : ~x.row.error
<1>1. rescore.pc = "judging" /\ rescore.queue = <<>>
      /\ rescore' = [rescore EXCEPT !.pc = IF good THEN "clean" ELSE "failed"]
  BY DEF RescoreEnd
<1>2. UNCHANGED <<pc, job, judge>> BY DEF RescoreEnd, dirVars
<1>3. AtRest' BY <1>1, <1>2 DEF Rescoring, AtRest, Working
<1>4. good => \A n \in rescore.names : \E x \in rescore.judge[n[1]][n[2]] : ~x.row.error /\ Kept(x, n[2])
  <2> SUFFICES ASSUME good, NEW n \in rescore.names
               PROVE  \E x \in rescore.judge[n[1]][n[2]] : ~x.row.error /\ Kept(x, n[2])
    OBVIOUS
  <2>1. n \in Names /\ n[1] \in Arms /\ n[2] \in Tasks BY <1>1 DEF Rescoring, Names
  <2>2. ~Waiting(n) BY <1>1 DEF Waiting
  <2>3. PICK x \in rescore.judge[n[1]][n[2]] : Kept(x, n[2]) BY <1>1, <2>1, <2>2 DEF Rescoring
  <2>4. x \in Records(rescore.judge) BY <2>1 DEF Records
  <2> QED BY <2>3, <2>4
<1> HIDE DEF good
<1>5. /\ rescore'.pc = IF good THEN "clean" ELSE "failed"
      /\ rescore'.names = rescore.names /\ rescore'.judge = rescore.judge
  BY <1>1 DEF Shape
<1> QED BY <1>3, <1>4, <1>5 DEF Rescoring, RescoreKeepsVerdicts, Kept

LEMMA RescoreStartStep == ASSUME TwoArmInv, RescoreStart PROVE Rescoring'
<1>1. rescore' = [pc |-> "judging", queue |-> SetToSeq(Names), names |-> Names, calls |-> calls, judge |-> Empty]
      /\ UNCHANGED <<pc, job, judge>> /\ AtRest
  BY DEF RescoreStart, dirVars, Rescorable
<1>2. AtRest' /\ Names' = Names BY <1>1 DEF AtRest, Working, Names
<1>3. rescore'.pc = "judging" /\ rescore'.queue = SetToSeq(Names) /\ rescore'.names = Names BY <1>1
<1>4. \A n \in Names : Waiting(n)' BY <1>3, NamesListed DEF Waiting
<1> QED BY <1>2, <1>3, <1>4, NamesListed DEF Rescoring, RescoreKeepsVerdicts

LEMMA RescoringStep == ASSUME TwoArmInv, Next PROVE Rescoring'
<1> USE DEF TwoArmInv
<1>1. ASSUME pc \notin Over, UNCHANGED rescore PROVE Rescoring'
  BY <1>1 DEF Rescoring, AtRest, RescoreKeepsVerdicts
<1>2. CASE Refuse \/ Proceed \/ TreatmentOver \/ WriteReport \/ WriteMetrics \/ Finish \/ Kill
  <2>1. pc \notin Over
    BY <1>2 DEF Refuse, Proceed, TreatmentOver, WriteReport, WriteMetrics, Finish, Kill, Over
  <2>2. UNCHANGED rescore BY <1>2 DEF Refuse, Proceed, TreatmentOver, WriteReport, WriteMetrics, Finish, Kill
  <2> QED BY <1>1, <2>1, <2>2
<1>3. CASE ClearCalls \/ ClearJudge \/ Generate \/ Gate
  BY <1>1, <1>3 DEF ClearCalls, ClearJudge, Generate, Gate, Over
<1>4. CASE Starts
  <2>1. rescore.pc = "off" /\ UNCHANGED rescore BY <1>4 DEF Starts, Start
  <2> QED BY <2>1 DEF Rescoring, RescoreKeepsVerdicts
<1>5. CASE RegenReport
  <2>1. UNCHANGED <<pc, job, judge, rescore>> BY <1>5 DEF RegenReport, dirVars
  <2>2. AtRest' BY <1>5, <2>1 DEF RegenReport, AtRest, Working
  <2> QED BY <2>1, <2>2, RescoringStays
<1>6. CASE Calls \/ Asserts
  <2>1. UNCHANGED rescore /\ \E r \in Runs, t \in Tasks : job[r][t] # Done
    BY <1>6, CallJobs, AssertJobs DEF Calls, Asserts
  <2>2. ~AtRest BY <2>1 DEF AtRest, Working
  <2> QED BY <2>1, <2>2 DEF Rescoring, RescoreKeepsVerdicts
<1>7. CASE RescoreOntoItself
  <2>1. rescore' = [rescore EXCEPT !.pc = "failed"] /\ AtRest /\ UNCHANGED <<pc, job>>
    BY <1>7 DEF RescoreOntoItself, Rescorable
  <2>2. AtRest' BY <2>1 DEF AtRest, Working
  <2>3. rescore'.pc = "failed" BY <2>1 DEF Shape
  <2> QED BY <2>2, <2>3 DEF Rescoring, RescoreKeepsVerdicts
<1> QED BY <1>2, <1>3, <1>4, <1>5, <1>6, <1>7, RescoreStartStep, RescoreEndStep, RescoreOneStep, Split DEF Aside

-----------------------------------------------------------------------------
LEMMA Inductive == ASSUME TwoArmInv, [Next]_vars PROVE TwoArmInv'
<1>1. CASE Next
  BY <1>1, ShapeStep, JobsStep, RowedStep, MineStep, CompleteStep, NumbersStep, RescoringStep DEF TwoArmInv
<1>2. CASE UNCHANGED vars
  <2> USE <1>2 DEF TwoArmInv, vars
  <2>1. Shape' /\ Jobs' /\ Rowed' /\ Mine' BY DEF Shape, Jobs, Rowed, Mine
  <2>2. Complete' BY ArmStays DEF Complete, Arms
  <2>3. Numbers' BY NumbersStay
  <2>4. Rescoring'
    <3>1. AtRest => AtRest' BY DEF AtRest, Working
    <3> QED BY <3>1, RescoringStays DEF Rescoring
  <2> QED BY <2>1, <2>2, <2>3, <2>4
<1> QED BY <1>1, <1>2

(* The inductive invariant of the harness, for any number of runs, every task
   set and configuration, and any way the executors and the judge can end. *)
THEOREM Invariance == Spec => []TwoArmInv
<1>1. Init => TwoArmInv BY Initially
<1>2. TwoArmInv /\ [Next]_vars => TwoArmInv' BY Inductive
<1> QED BY <1>1, <1>2, PTL DEF Spec

(* After any history of runs, aborts and regenerations report.md and
   metrics.json tell the same numbers, unless the last rendering was cut
   short. *)
THEOREM SameNumbersTheorem == Spec => []SameNumbers
<1>1. TwoArmInv => SameNumbers BY DEF TwoArmInv, Numbers
<1> QED BY <1>1, Invariance, PTL

(* A rescore that ends well has a row of every record of its source, and turns
   no review that could not be read into one that passes. *)
THEOREM RescoreTheorem == Spec => []RescoreKeepsVerdicts
<1>1. TwoArmInv => RescoreKeepsVerdicts BY DEF TwoArmInv, Rescoring
<1> QED BY <1>1, Invariance, PTL
-----------------------------------------------------------------------------
(* What the summary counts. *)

PassingTasks(rows, arm) == {r.task : r \in {q \in Scored(rows, arm) : q.pass}}
FailingTasks(rows, arm) == {r.task : r \in {q \in Scored(rows, arm) : ~q.pass}}

LEMMA SummaryFields ==
  ASSUME NEW rows, NEW s, \E cs, negative : s = Summarize(cs, rows, negative)
  PROVE  /\ \A a \in Arms : s.pass[a].n = Cardinality(Scored(rows, a))
         /\ \A a \in Arms : s.pass[a].k = Cardinality({r \in Scored(rows, a) : r.pass})
         /\ s.judgeErrors = (Cardinality(Of(rows, "baseline")) - Cardinality(Scored(rows, "baseline")))
                            + (Cardinality(Of(rows, "treatment")) - Cardinality(Scored(rows, "treatment")))
         /\ s.flips.onlyBaseline = Cardinality(PassingTasks(rows, "baseline") \cap FailingTasks(rows, "treatment"))
         /\ s.flips.onlyTreatment = Cardinality(FailingTasks(rows, "baseline") \cap PassingTasks(rows, "treatment"))
<1> PICK cs, negative : s = Summarize(cs, rows, negative) OBVIOUS
<1> DEFINE b == PassRate(rows, "baseline")
           t == PassRate(rows, "treatment")
           flips == PairedFlips(rows)
<1>1. s.pass = [a \in Arms |-> IF a = "baseline" THEN b ELSE t] BY DEF Summarize
<1>2. s.flips = flips BY DEF Summarize
<1>3. s.judgeErrors = b.errors + t.errors BY DEF Summarize
<1>4. ASSUME NEW a
      PROVE  /\ PassRate(rows, a).n = Cardinality(Scored(rows, a))
             /\ PassRate(rows, a).k = Cardinality({r \in Scored(rows, a) : r.pass})
             /\ PassRate(rows, a).errors = Cardinality(Of(rows, a)) - Cardinality(Scored(rows, a))
  BY DEF PassRate, Quantify
<1>5. /\ flips.onlyBaseline = Cardinality(PassingTasks(rows, "baseline") \cap FailingTasks(rows, "treatment"))
      /\ flips.onlyTreatment = Cardinality(FailingTasks(rows, "baseline") \cap PassingTasks(rows, "treatment"))
  BY DEF PairedFlips, PassingTasks, FailingTasks
<1> HIDE DEF b, t, flips
<1>6. \A a \in Arms : s.pass[a] = PassRate(rows, a) BY <1>1 DEF Arms, b, t
<1> QED BY <1>2, <1>3, <1>4, <1>5, <1>6 DEF b, t

(* As many rows as ids, when no two rows have one id. *)
LEMMA RowsAsTasks ==
  ASSUME NEW R, \A r, q \in R : r.task = q.task => r = q, IsFiniteSet({r.task : r \in R})
  PROVE  IsFiniteSet(R) /\ Cardinality(R) = Cardinality({r.task : r \in R})
<1> DEFINE T == {r.task : r \in R}
           f == [r \in R |-> r.task]
<1>1. f \in [R -> T] OBVIOUS
<1>2. \A r, q \in R : f[r] = f[q] => r = q OBVIOUS
<1>3. \A t \in T : \E r \in R : f[r] = t OBVIOUS
<1>4. DOMAIN f = R OBVIOUS
<1> HIDE DEF f, T
<1>5. f \in Injection(R, T)
  <2>1. \A r, q \in DOMAIN f : f[r] = f[q] => r = q BY <1>2, <1>4
  <2>2. IsInjective(f) BY <2>1 DEF IsInjective
  <2> QED BY <1>1, <2>2 DEF Injection
<1>6. f \in Surjection(R, T) BY <1>1, <1>3 DEF Surjection
<1>7. IsFiniteSet(T) BY DEF T
<1> QED BY <1>5, <1>6, <1>7, FS_Injection DEF T

(* The rows of an arm are those of its files. *)
LEMMA RowsOfArm ==
  ASSUME Shape, Rowed, NEW a \in Arms
  PROVE  /\ \A r \in Of(Rows, a) : r.task \in Tasks /\ r.pass \in BOOLEAN
         /\ \A r, q \in Of(Rows, a) : r.task = q.task => r = q
         /\ {r.task : r \in Of(Rows, a)} = Ids(judge, a)
<1>1. \A r \in Of(Rows, a) : \E t \in Tasks : \E x \in judge[a][t] : r = x.row /\ RecordOf(r, a, t)
  <2> SUFFICES ASSUME NEW r \in Of(Rows, a)
               PROVE  \E t \in Tasks : \E x \in judge[a][t] : r = x.row /\ RecordOf(r, a, t)
    OBVIOUS
  <2>1. r \in Rows /\ r.arm = a BY DEF Of
  <2>2. PICK x \in Records(judge) : r = x.row BY <2>1 DEF Rows
  <2>3. PICK b \in Arms, t \in Tasks : x \in judge[b][t] BY <2>2 DEF Records
  <2>4. RecordOf(r, b, t) BY <2>2, <2>3 DEF Rowed
  <2> QED BY <2>1, <2>2, <2>3, <2>4 DEF RecordOf
<1>2. \A t \in Tasks : \A x \in judge[a][t] : x.row \in Of(Rows, a) /\ x.row.task = t
  <2> SUFFICES ASSUME NEW t \in Tasks, NEW x \in judge[a][t]
               PROVE  x.row \in Of(Rows, a) /\ x.row.task = t
    OBVIOUS
  <2>1. RecordOf(x.row, a, t) BY DEF Rowed
  <2>2. x \in Records(judge) BY DEF Records
  <2>3. x.row \in Rows BY <2>2 DEF Rows
  <2> QED BY <2>1, <2>3 DEF RecordOf, Of
<1>3. \A r \in Of(Rows, a) : r.task \in Tasks /\ r.pass \in BOOLEAN BY <1>1 DEF RecordOf
<1>4. ASSUME NEW r \in Of(Rows, a), NEW q \in Of(Rows, a), r.task = q.task PROVE r = q
  <2>1. PICK t \in Tasks : \E x \in judge[a][t] : r = x.row /\ RecordOf(r, a, t) BY <1>1
  <2>2. PICK u \in Tasks : \E x \in judge[a][u] : q = x.row /\ RecordOf(q, a, u) BY <1>1
  <2>3. t = u BY <1>4, <2>1, <2>2 DEF RecordOf
  <2> QED BY <2>1, <2>2, <2>3 DEF Rowed
<1>5. {r.task : r \in Of(Rows, a)} = Ids(judge, a)
  <2>1. ASSUME NEW r \in Of(Rows, a) PROVE r.task \in Ids(judge, a) BY <1>1 DEF RecordOf, Ids
  <2>2. ASSUME NEW t \in Ids(judge, a) PROVE \E r \in Of(Rows, a) : r.task = t
    <3>1. t \in Tasks /\ judge[a][t] # {} BY DEF Ids
    <3> QED BY <3>1, <1>2
  <2> QED BY <2>1, <2>2
<1> QED BY <1>3, <1>4, <1>5

(* Arithmetic of the paired flips: over the same ids, the difference of the
   passes is the difference of the one-sided flips. *)
LEMMA FlipsBalance ==
  ASSUME NEW PB, NEW FB, NEW PT, NEW FT, IsFiniteSet(PB), IsFiniteSet(PT),
         PB \union FB = PT \union FT, PB \cap FB = {}, PT \cap FT = {}
  PROVE  Cardinality(PT) - Cardinality(PB) = Cardinality(FB \cap PT) - Cardinality(PB \cap FT)
<1> DEFINE both == PB \cap PT
           onlyT == FB \cap PT
           onlyB == PB \cap FT
<1>1. PT = both \union onlyT /\ both \cap onlyT = {} OBVIOUS
<1>2. PB = both \union onlyB /\ both \cap onlyB = {} OBVIOUS
<1>3. both \in SUBSET PB /\ onlyT \in SUBSET PT /\ onlyB \in SUBSET PB OBVIOUS
<1>4. IsFiniteSet(both) /\ IsFiniteSet(onlyT) /\ IsFiniteSet(onlyB) BY <1>3, FS_Subset
<1> HIDE DEF both, onlyT, onlyB
<1>5. Cardinality(both) \in Nat /\ Cardinality(onlyT) \in Nat /\ Cardinality(onlyB) \in Nat
  BY <1>4, FS_CardinalityType
<1>6. Cardinality({}) = 0 BY FS_EmptySet
<1>7. Cardinality(PT) = Cardinality(both) + Cardinality(onlyT)
  <2>1. Cardinality(both \union onlyT) = Cardinality(both) + Cardinality(onlyT) - Cardinality(both \cap onlyT)
    BY <1>4, FS_Union
  <2>2. Cardinality(PT) = Cardinality(both \union onlyT) BY <1>1
  <2>3. Cardinality(both \cap onlyT) = 0 BY <1>1, <1>6
  <2> QED BY <1>5, <2>1, <2>2, <2>3
<1>8. Cardinality(PB) = Cardinality(both) + Cardinality(onlyB)
  <2>1. Cardinality(both \union onlyB) = Cardinality(both) + Cardinality(onlyB) - Cardinality(both \cap onlyB)
    BY <1>4, FS_Union
  <2>2. Cardinality(PB) = Cardinality(both \union onlyB) BY <1>2
  <2>3. Cardinality(both \cap onlyB) = 0 BY <1>2, <1>6
  <2> QED BY <1>5, <2>1, <2>2, <2>3
<1> QED BY <1>5, <1>7, <1>8 DEF onlyT, onlyB

LEMMA ScoredFinite ==
  ASSUME Shape, Rowed, NEW a \in Arms
  PROVE  /\ IsFiniteSet(Of(Rows, a)) /\ Scored(Rows, a) \in SUBSET Of(Rows, a)
         /\ Cardinality(Of(Rows, a)) = Cardinality(Ids(judge, a))
<1>1. Ids(judge, a) \in SUBSET Tasks BY DEF Ids
<1>2. IsFiniteSet(Ids(judge, a)) BY <1>1, TasksFinite, FS_Subset
<1>3. IsFiniteSet(Of(Rows, a)) /\ Cardinality(Of(Rows, a)) = Cardinality({r.task : r \in Of(Rows, a)})
  BY <1>2, RowsOfArm, RowsAsTasks
<1> QED BY <1>3, RowsOfArm DEF Scored

LEMMA FinishIsClean ==
  ASSUME TwoArmInv, Next, pc = "spotcheck", pc' = "over", code' = 0, alone
  PROVE  /\ sound
         /\ \A s \in mem : s.judgeErrors <= 0 \/ s.judgeErrors \notin Int
<1>1. Finish
  <2>1. ~(Refuse \/ Proceed \/ TreatmentOver \/ WriteReport)
    BY DEF Refuse, Proceed, TreatmentOver, WriteReport
  <2>2. ~(WriteMetrics \/ Kill \/ RegenReport \/ RescoreStart)
    BY DEF WriteMetrics, Kill, RegenReport, RescoreStart, Rescorable, AtRest, Over
  <2>3. ~(RescoreEnd \/ \E first, second \in Regrades : RescoreOne(first, second))
    BY DEF RescoreEnd, RescoreOne
  <2>4. ~(Starts \/ ClearCalls \/ ClearJudge \/ Generate \/ Gate \/ RescoreOntoItself)
    BY DEF Starts, Start, ClearCalls, ClearJudge, Generate, Gate, RescoreOntoItself, Rescorable, AtRest, Over
  <2>5. ~(Calls \/ Asserts) BY CallJobs, AssertJobs DEF Calls, Asserts, TwoArmInv
  <2> QED BY <2>1, <2>2, <2>3, <2>4, <2>5, Split DEF Aside
<1>2. PICK s \in mem : mem = {s} BY DEF TwoArmInv, Numbers, Rendering
<1>3. ExitCode(s, sound) = 0 BY <1>1, <1>2 DEF Finish, End
<1> QED BY <1>2, <1>3 DEF ExitCode

LEMMA CleanExit ==
  ASSUME TwoArmInv, Next, pc = "spotcheck", pc' = "over", code' = 0, alone, NEW s \in mem
  PROVE  LET items == Items(Cfg) IN
         /\ \A x \in Records(calls) \union Records(judge) : x.by = run
         /\ \A a \in Arms : Ids(calls, a) = items /\ Ids(judge, a) = items
         /\ \A a \in Arms : s.pass[a].n = Cardinality(items)
         /\ s.pass["treatment"].k - s.pass["baseline"].k
              = s.flips.onlyTreatment - s.flips.onlyBaseline
         /\ report = {ReportOf(s)} /\ metrics = report
<1> USE DEF TwoArmInv
<1> DEFINE items == Items(Cfg)
           P(a) == PassingTasks(Rows, a)
           F(a) == FailingTasks(Rows, a)
<1>1. /\ report = {ReportOf(s)} /\ metrics = report
      /\ s = Summarize(CallRows, Rows, Cfg.negativeControl)
  BY DEF Numbers, Rendering
<1>2. sound /\ (s.judgeErrors <= 0 \/ s.judgeErrors \notin Int) BY FinishIsClean
<1>3. \A a \in Arms : Ids(calls, a) = items /\ Ids(judge, a) = items
  <2>1. SoundArm(Cfg, "baseline") /\ SoundArm(Cfg, "treatment") BY <1>2 DEF Complete, Filling
  <2> QED BY <2>1 DEF SoundArm, Arms
<1>4. \A x \in Records(calls) \union Records(judge) : x.by = run BY DEF Mine, Filling, Records
<1>5. \A a \in Arms : Scored(Rows, a) = Of(Rows, a)
  <2> DEFINE n(a) == Cardinality(Of(Rows, a))
             m(a) == Cardinality(Scored(Rows, a))
  <2>1. ASSUME NEW a \in Arms
        PROVE  n(a) \in Nat /\ m(a) \in Nat /\ m(a) <= n(a) /\ (n(a) = m(a) => Scored(Rows, a) = Of(Rows, a))
    <3>1. IsFiniteSet(Of(Rows, a)) /\ Scored(Rows, a) \in SUBSET Of(Rows, a) BY ScoredFinite
    <3>2. IsFiniteSet(Scored(Rows, a)) /\ m(a) <= n(a) /\ (n(a) = m(a) => Of(Rows, a) = Scored(Rows, a))
      BY <3>1, FS_Subset
    <3> QED BY <3>1, <3>2, FS_CardinalityType
  <2>2. s.judgeErrors = (n("baseline") - m("baseline")) + (n("treatment") - m("treatment"))
    BY <1>1, SummaryFields
  <2> HIDE DEF n, m
  <2>3. n("baseline") = m("baseline") /\ n("treatment") = m("treatment")
    BY <1>2, <2>1, <2>2 DEF Arms
  <2> QED BY <2>1, <2>3 DEF Arms
<1>6. \A a \in Arms : s.pass[a].n = Cardinality(items)
  <2>1. \A a \in Arms : s.pass[a].n = Cardinality(Scored(Rows, a)) BY <1>1, SummaryFields
  <2>2. \A a \in Arms : Cardinality(Of(Rows, a)) = Cardinality(Ids(judge, a)) BY ScoredFinite
  <2> QED BY <1>3, <1>5, <2>1, <2>2
<1>7. ASSUME NEW a \in Arms
      PROVE  P(a) \union F(a) = items /\ P(a) \cap F(a) = {} /\ s.pass[a].k = Cardinality(P(a))
  <2>1. {r.task : r \in Of(Rows, a)} = items BY <1>3, RowsOfArm
  <2>2. \A r, q \in Of(Rows, a) : r.task = q.task => r = q BY RowsOfArm
  <2> DEFINE R == Of(Rows, a)
  <2>3. P(a) = {r.task : r \in {q \in R : q.pass}} /\ F(a) = {r.task : r \in {q \in R : ~q.pass}}
    BY <1>5 DEF PassingTasks, FailingTasks
  <2> HIDE DEF R
  <2>4. P(a) \union F(a) = items BY <2>1, <2>3 DEF R
  <2>5. P(a) \cap F(a) = {} BY <2>2, <2>3 DEF R
  <2>6. IsFiniteSet(P(a))
    <3>1. items \in SUBSET Tasks BY <1>3 DEF Ids
    <3>2. P(a) \in SUBSET Tasks BY <2>4, <3>1
    <3> QED BY <3>2, TasksFinite, FS_Subset
  <2>7. Cardinality({q \in R : q.pass}) = Cardinality(P(a))
    <3> DEFINE S == {q \in R : q.pass}
    <3>1. \A r, q \in S : r.task = q.task => r = q BY <2>2 DEF R
    <3>2. P(a) = {r.task : r \in S} BY <2>3
    <3> HIDE DEF S, P
    <3>3. IsFiniteSet({r.task : r \in S}) BY <2>6, <3>2
    <3>4. Cardinality(S) = Cardinality({r.task : r \in S}) BY <3>1, <3>3, RowsAsTasks
    <3> QED BY <3>2, <3>4 DEF S
  <2>8. s.pass[a].k = Cardinality({r \in Scored(Rows, a) : r.pass}) BY <1>1, SummaryFields
  <2> QED BY <1>5, <2>4, <2>5, <2>7, <2>8 DEF R
<1>8. s.pass["treatment"].k - s.pass["baseline"].k = s.flips.onlyTreatment - s.flips.onlyBaseline
  <2>1. /\ s.flips.onlyBaseline = Cardinality(P("baseline") \cap F("treatment"))
        /\ s.flips.onlyTreatment = Cardinality(F("baseline") \cap P("treatment"))
    BY <1>1, SummaryFields
  <2>2. IsFiniteSet(items)
    <3>1. items \in SUBSET Tasks BY <1>3 DEF Ids, Arms
    <3> QED BY <3>1, TasksFinite, FS_Subset
  <2>3. "baseline" \in Arms /\ "treatment" \in Arms BY DEF Arms
  <2> DEFINE PB == P("baseline")
             FB == F("baseline")
             PT == P("treatment")
             FT == F("treatment")
  <2>5. PB \union FB = items /\ PB \cap FB = {} /\ s.pass["baseline"].k = Cardinality(PB) BY <1>7, <2>3
  <2>6. PT \union FT = items /\ PT \cap FT = {} /\ s.pass["treatment"].k = Cardinality(PT) BY <1>7, <2>3
  <2>7. s.flips.onlyBaseline = Cardinality(PB \cap FT) /\ s.flips.onlyTreatment = Cardinality(FB \cap PT)
    BY <2>1
  <2> HIDE DEF PB, FB, PT, FT, items
  <2>4. Cardinality(PT) - Cardinality(PB) = Cardinality(FB \cap PT) - Cardinality(PB \cap FT)
    <3>1. PB \union FB = PT \union FT BY <2>5, <2>6
    <3>2. PB \in SUBSET items /\ PT \in SUBSET items BY <2>5, <2>6
    <3>3. IsFiniteSet(PB) /\ IsFiniteSet(PT) BY <2>2, <3>2, FS_Subset
    <3>4. PB \cap FB = {} /\ PT \cap FT = {} BY <2>5, <2>6
    <3> QED BY ONLY <3>1, <3>3, <3>4, FlipsBalance
  <2> QED BY <2>4, <2>5, <2>6, <2>7
<1> QED BY <1>1, <1>3, <1>4, <1>6, <1>8

(* A run that exits with 0 and had the directory to itself reports exactly its
   own records, one of each item and arm. *)
THEOREM CleanExitTheorem == Spec => CleanExitReportsItsOwnItems
<1>1. TwoArmInv /\ [Next]_vars =>
        [(pc = "spotcheck" /\ pc' = "over" /\ code' = 0 /\ alone) =>
           \A s \in mem : LET items == Items(Cfg) IN
             /\ \A x \in Records(calls) \union Records(judge) : x.by = run
             /\ \A a \in Arms : Ids(calls, a) = items /\ Ids(judge, a) = items
             /\ \A a \in Arms : s.pass[a].n = Cardinality(items)
             /\ s.pass["treatment"].k - s.pass["baseline"].k
                  = s.flips.onlyTreatment - s.flips.onlyBaseline
             /\ report = {ReportOf(s)} /\ metrics = report]_vars
  BY CleanExit
<1> QED BY <1>1, Invariance, PTL DEF CleanExitReportsItsOwnItems, Spec
-----------------------------------------------------------------------------
(* The human's sample. *)

(* Such a set of numbers has a least element. *)
LEMMA Least == ASSUME NEW T, T \subseteq Nat, T # {} PROVE \E m \in T : \A k \in T : m <= k
<1>1. PICK m \in T : \A k \in T : ~(<<k, m>> \in OpToRel(<, Nat)) BY NatLessThanWellFounded, WFMin
<1>2. ASSUME NEW k \in T PROVE m <= k
  <2>1. m \in Nat /\ k \in Nat OBVIOUS
  <2>2. ~(k < m) BY <1>1, <2>1 DEF OpToRel
  <2> QED BY <2>1, <2>2
<1> QED BY <1>2

(* Rows of which no two have the same id. *)
OneOfEach(S) == /\ IsFiniteSet(S) /\ \A r \in S : r.task \in Tasks
                /\ \A r, q \in S : r.task = q.task => r = q

(* An id has one place in the order. *)
LEMMA Places == \A t \in Tasks : \E i \in DOMAIN IdOrder : IdOrder[i] = t
<1>1. DOMAIN IdOrder = 1..Len(IdOrder) BY TwoArmAssumption
<1> QED BY <1>1, TwoArmAssumption DEF ToSet

(* The ids are in one order. *)
LEMMA BeforeFacts ==
  /\ \A t, u, w : Before(t, u) /\ Before(u, w) => Before(t, w)
  /\ \A t : ~Before(t, t)
  /\ \A t, u \in Tasks : t # u => Before(t, u) \/ Before(u, t)
<1>1. DOMAIN IdOrder \subseteq Int BY TwoArmAssumption
<1>2. \A i, j \in DOMAIN IdOrder : IdOrder[i] = IdOrder[j] => i = j BY TwoArmAssumption
<1>3. ASSUME NEW t, NEW u, NEW w, Before(t, u), Before(u, w) PROVE Before(t, w)
  <2>1. PICK i, j \in DOMAIN IdOrder : i < j /\ IdOrder[i] = t /\ IdOrder[j] = u BY <1>3 DEF Before
  <2>2. PICK k, l \in DOMAIN IdOrder : k < l /\ IdOrder[k] = u /\ IdOrder[l] = w BY <1>3 DEF Before
  <2>3. j = k BY <1>2, <2>1, <2>2
  <2>4. i < l BY <1>1, <2>1, <2>2, <2>3
  <2> QED BY <2>1, <2>2, <2>4 DEF Before
<1>4. ASSUME NEW t, Before(t, t) PROVE FALSE
  <2>1. PICK i, j \in DOMAIN IdOrder : i < j /\ IdOrder[i] = t /\ IdOrder[j] = t BY <1>4 DEF Before
  <2>2. i = j BY <1>2, <2>1
  <2> QED BY <1>1, <2>1, <2>2
<1>5. ASSUME NEW t \in Tasks, NEW u \in Tasks, t # u PROVE Before(t, u) \/ Before(u, t)
  <2>1. PICK i \in DOMAIN IdOrder : IdOrder[i] = t BY Places
  <2>2. PICK j \in DOMAIN IdOrder : IdOrder[j] = u BY Places
  <2>3. i < j \/ j < i BY <1>1, <1>5, <2>1, <2>2
  <2> QED BY <2>1, <2>2, <2>3 DEF Before
<1> QED BY <1>3, <1>4, <1>5

(* The row with the first id is the one with none before it. *)
LEMMA FirstFacts ==
  ASSUME NEW S, OneOfEach(S), S # {}, NEW n \in Nat, n > 0
  PROVE  First(S, n) \subseteq S /\ First(S, n) # {}
<1> DEFINE T == {i \in DOMAIN IdOrder : \E r \in S : r.task = IdOrder[i]}
<1>1. T # {}
  <2>1. PICK r \in S : TRUE OBVIOUS
  <2>2. r.task \in Tasks BY <2>1 DEF OneOfEach
  <2> QED BY <2>1, <2>2, Places
<1>2. T \subseteq Nat BY TwoArmAssumption
<1> HIDE DEF T
<1>3. PICK m \in T : \A k \in T : m <= k BY <1>1, <1>2, Least
<1>4. PICK r \in S : r.task = IdOrder[m] /\ m \in DOMAIN IdOrder BY <1>3 DEF T
<1>5. Earlier(S, r) = {}
  <2> SUFFICES ASSUME NEW q \in S, Before(q.task, r.task) PROVE FALSE BY DEF Earlier
  <2>1. PICK i, j \in DOMAIN IdOrder : i < j /\ IdOrder[i] = q.task /\ IdOrder[j] = r.task BY DEF Before
  <2>2. j = m BY <1>4, <2>1, TwoArmAssumption
  <2>3. i \in T BY <2>1 DEF T
  <2>4. i \in Nat /\ m \in Nat /\ m <= i BY <1>2, <1>3, <2>3
  <2> QED BY <2>1, <2>2, <2>4
<1>6. Cardinality(Earlier(S, r)) = 0 BY <1>5, FS_EmptySet
<1>7. r \in First(S, n) BY <1>6 DEF First
<1> QED BY <1>7 DEF First

(* The sorted sequence has every row of the set. *)
LEMMA SortedFacts ==
  ASSUME NEW S, OneOfEach(S)
  PROVE  /\ Cardinality(S) \in Nat /\ Len(Sorted(S)) = Cardinality(S)
         /\ \A r \in S : \E i \in 1..Len(Sorted(S)) : Sorted(S)[i] = r
<1> DEFINE rank(r) == Cardinality(Earlier(S, r))
           n == Cardinality(S)
<1>0. IsFiniteSet(S) /\ n \in Nat BY FS_CardinalityType DEF OneOfEach
<1>1. ASSUME NEW r \in S PROVE IsFiniteSet(Earlier(S, r)) /\ rank(r) \in Nat /\ rank(r) < n
  <2>1. Earlier(S, r) \subseteq S /\ r \notin Earlier(S, r) BY BeforeFacts DEF Earlier
  <2>2. IsFiniteSet(Earlier(S, r)) /\ rank(r) <= n /\ (n = rank(r) => S = Earlier(S, r)) BY <1>0, <2>1, FS_Subset
  <2>3. rank(r) \in Nat BY <2>2, FS_CardinalityType
  <2> HIDE DEF rank, n
  <2> QED BY <1>0, <1>1, <2>1, <2>2, <2>3
<1>2. ASSUME NEW q \in S, NEW r \in S, Before(q.task, r.task) PROVE rank(q) < rank(r)
  <2>1. Earlier(S, q) \subseteq Earlier(S, r) BY <1>2, BeforeFacts DEF Earlier
  <2>2. q \in Earlier(S, r) /\ q \notin Earlier(S, q) BY <1>2, BeforeFacts DEF Earlier
  <2>3. IsFiniteSet(Earlier(S, r)) BY <1>1
  <2>4. rank(q) <= rank(r) /\ (rank(r) = rank(q) => Earlier(S, r) = Earlier(S, q)) BY <2>1, <2>3, FS_Subset
  <2>5. rank(q) \in Nat /\ rank(r) \in Nat BY <1>1
  <2> HIDE DEF rank
  <2> QED BY <2>2, <2>4, <2>5
<1>3. ASSUME NEW q \in S, NEW r \in S, rank(q) = rank(r) PROVE q = r
  <2>1. q.task \in Tasks /\ r.task \in Tasks BY DEF OneOfEach
  <2>2. rank(q) \in Nat /\ rank(r) \in Nat BY <1>1
  <2> HIDE DEF rank
  <2>3. ~Before(q.task, r.task) /\ ~Before(r.task, q.task) BY <1>2, <1>3, <2>2
  <2>4. q.task = r.task BY <2>1, <2>3, BeforeFacts
  <2> QED BY <2>4 DEF OneOfEach
<1>4. Sorted(S) = [i \in 1..n |-> CHOOSE r \in S : rank(r) = i - 1] BY DEF Sorted
<1>5. Len(Sorted(S)) = n
  <2> HIDE DEF n, rank
  <2> QED BY <1>0, <1>4
<1>6. ASSUME NEW r \in S PROVE Sorted(S)[rank(r) + 1] = r /\ rank(r) + 1 \in 1..n
  <2>1. rank(r) \in Nat /\ rank(r) < n BY <1>1
  <2> HIDE DEF n, rank
  <2>2. rank(r) + 1 \in 1..n /\ (rank(r) + 1) - 1 = rank(r) BY <1>0, <2>1
  <2>3. Sorted(S)[rank(r) + 1] = CHOOSE q \in S : rank(q) = rank(r) BY <1>4, <2>2
  <2>4. \A q \in S : rank(q) = rank(r) => q = r BY <1>3
  <2>5. (CHOOSE q \in S : rank(q) = rank(r)) = r BY <2>4
  <2> QED BY <2>2, <2>3, <2>5
<1> HIDE DEF n, rank
<1> QED BY <1>0, <1>5, <1>6 DEF n

(* The round robin leaves no place of either lane out. *)
RoundRobin(b, t) ==
  LET rest == IF Len(b) > Len(t) THEN b ELSE t IN
  [n \in 1..Len(b) + Len(t) |->
     IF n <= 2 * Rounds(b, t) THEN Turn(b, t, n) ELSE rest[n - Rounds(b, t)]]

LEMMA RoundRobinFacts ==
  ASSUME NEW b, NEW t, Len(b) \in Nat, Len(t) \in Nat, NEW all, all = RoundRobin(b, t)
  PROVE  /\ DOMAIN all = 1..Len(b) + Len(t)
         /\ Len(all) = Len(b) + Len(t)
         /\ \A i \in 1..Len(b) : \E n \in DOMAIN all : all[n] = b[i]
         /\ \A i \in 1..Len(t) : \E n \in DOMAIN all : all[n] = t[i]
<1> DEFINE x == Len(b)
           y == Len(t)
           m == Rounds(b, t)
           rest == IF x > y THEN b ELSE t
<1>1. m = (IF x < y THEN x ELSE y) BY DEF Rounds
<1>2. all = [n \in 1..x + y |-> IF n <= 2 * m THEN Turn(b, t, n) ELSE rest[n - m]] BY DEF RoundRobin
<1>3. x \in Nat /\ y \in Nat OBVIOUS
<1> HIDE DEF x, y, m
<1>4. m \in Nat /\ m <= x /\ m <= y BY <1>1, <1>3
<1>5. ASSUME NEW i \in 1..x PROVE \E n \in 1..x + y : all[n] = b[i]
  <2>1. CASE i <= m
    <3>1. 2 * i - 1 \in 1..x + y /\ 2 * i - 1 <= 2 * m BY <1>3, <1>4, <2>1
    <3>2. (2 * i - 1) % 2 = 1 /\ ((2 * i - 1) + 1) \div 2 = i BY <1>3
    <3>3. Turn(b, t, 2 * i - 1) = b[i] BY <3>2 DEF Turn
    <3>4. all[2 * i - 1] = Turn(b, t, 2 * i - 1) BY <1>2, <3>1
    <3> QED BY <3>1, <3>3, <3>4
  <2>2. CASE ~(i <= m)
    <3>1. m = y /\ x > y BY <1>1, <1>3, <2>2
    <3>2. m + i \in 1..x + y /\ ~(m + i <= 2 * m) /\ (m + i) - m = i BY <1>3, <1>4, <2>2, <3>1
    <3>3. all[m + i] = rest[i] BY <1>2, <3>2
    <3> QED BY <3>1, <3>2, <3>3
  <2> QED BY <2>1, <2>2
<1>6. ASSUME NEW i \in 1..y PROVE \E n \in 1..x + y : all[n] = t[i]
  <2>1. CASE i <= m
    <3>1. 2 * i \in 1..x + y /\ 2 * i <= 2 * m BY <1>3, <1>4, <2>1
    <3>2. (2 * i) % 2 = 0 /\ (2 * i) \div 2 = i BY <1>3
    <3>3. Turn(b, t, 2 * i) = t[i] BY <3>2 DEF Turn
    <3>4. all[2 * i] = Turn(b, t, 2 * i) BY <1>2, <3>1
    <3> QED BY <3>1, <3>3, <3>4
  <2>2. CASE ~(i <= m)
    <3>1. m = x /\ ~(x > y) BY <1>1, <1>3, <2>2
    <3>2. m + i \in 1..x + y /\ ~(m + i <= 2 * m) /\ (m + i) - m = i BY <1>3, <1>4, <2>2, <3>1
    <3>3. all[m + i] = rest[i] BY <1>2, <3>2
    <3> QED BY <3>1, <3>2, <3>3
  <2> QED BY <2>1, <2>2
<1>7. DOMAIN all = 1..x + y BY <1>2
<1>8. Len(all) = x + y BY <1>2, <1>3
<1> QED BY <1>5, <1>6, <1>7, <1>8 DEF x, y

(* The rows of a stratum are of different items. *)
LEMMA StratumFacts ==
  ASSUME Shape, Rowed, NEW a \in Arms, NEW s \in BOOLEAN
  PROVE  OneOfEach(Stratum(Rows, a, s))
<1> DEFINE S == Stratum(Rows, a, s)
<1>1. S \subseteq Of(Rows, a) BY DEF Stratum, Scored
<1>2. IsFiniteSet(S) BY <1>1, ScoredFinite, FS_Subset
<1> HIDE DEF S
<1>3. \A r \in S : r.task \in Tasks BY <1>1, RowsOfArm
<1>4. \A r, q \in S : r.task = q.task => r = q BY <1>1, RowsOfArm
<1> QED BY <1>2, <1>3, <1>4 DEF OneOfEach, S

(* A lane shows each stratum that is not empty. *)
LEMMA LaneFacts ==
  ASSUME Shape, Rowed, NEW a \in Arms
  PROVE  /\ Len(Lane(Rows, a)) \in Nat
         /\ \A s \in BOOLEAN : Stratum(Rows, a, s) # {} =>
              \E i \in 1..Len(Lane(Rows, a)) : Lane(Rows, a)[i].arm = a /\ Lane(Rows, a)[i].seeded = s
<1> DEFINE S(s) == Stratum(Rows, a, s)
           quota(s) == IF s THEN SeededQuota ELSE CleanQuota
           L == First(S(TRUE), quota(TRUE)) \union First(S(FALSE), quota(FALSE))
<1>1. Lane(Rows, a) = Sorted(L) BY DEF Lane
<1>2. ASSUME NEW s \in BOOLEAN
      PROVE  /\ OneOfEach(S(s)) /\ quota(s) \in Nat /\ quota(s) > 0
             /\ \A r \in S(s) : r.arm = a /\ r.seeded = s /\ r \in Of(Rows, a)
             /\ First(S(s), quota(s)) \subseteq S(s)
  <2>1. OneOfEach(S(s)) BY StratumFacts
  <2>2. quota(s) \in Nat /\ quota(s) > 0 BY DEF SeededQuota, CleanQuota
  <2>3. \A r \in S(s) : r.arm = a /\ r.seeded = s /\ r \in Of(Rows, a) BY DEF Stratum, Scored, Of
  <2>4. First(S(s), quota(s)) \subseteq S(s) BY DEF First
  <2> QED BY <2>1, <2>2, <2>3, <2>4
<1>3. L \subseteq Of(Rows, a) BY <1>2
<1>4. OneOfEach(L)
  <2>1. IsFiniteSet(L) BY <1>3, ScoredFinite, FS_Subset
  <2> HIDE DEF L
  <2>2. \A r \in L : r.task \in Tasks BY <1>3, RowsOfArm
  <2>3. \A r, q \in L : r.task = q.task => r = q BY <1>3, RowsOfArm
  <2> QED BY <2>1, <2>2, <2>3 DEF OneOfEach
<1>5. ASSUME NEW s \in BOOLEAN, S(s) # {}
      PROVE  \E i \in 1..Len(Sorted(L)) : Sorted(L)[i].arm = a /\ Sorted(L)[i].seeded = s
  <2>1. OneOfEach(S(s)) /\ quota(s) \in Nat /\ quota(s) > 0 BY <1>2
  <2>2. First(S(s), quota(s)) # {}
    <3> HIDE DEF S, quota
    <3> QED BY <1>5, <2>1, FirstFacts
  <2>3. PICK r \in First(S(s), quota(s)) : TRUE BY <2>2
  <2>4. r \in L BY <2>3
  <2>5. r.arm = a /\ r.seeded = s BY <1>2, <2>3
  <2> HIDE DEF L
  <2>6. PICK i \in 1..Len(Sorted(L)) : Sorted(L)[i] = r BY <1>4, <2>4, SortedFacts
  <2> QED BY <2>5, <2>6
<1> HIDE DEF L
<1>6. Len(Sorted(L)) \in Nat BY <1>4, SortedFacts
<1> QED BY <1>1, <1>5, <1>6

(* The human's sample shows both kinds of item of every arm that has a graded
   record of the kind. *)
LEMMA SampleShows == ASSUME Shape, Rowed PROVE SampleShowsEveryStratum
<1> DEFINE b == Lane(Rows, "baseline")
           t == Lane(Rows, "treatment")
           all == SampleItems(Rows)
           lane(a) == IF a = "baseline" THEN b ELSE t
           copied == {"arm", "task", "seeded", "flagged", "found", "false", "pass"}
<1>1. all = RoundRobin(b, t) BY DEF SampleItems, RoundRobin
<1>2. Len(b) \in Nat /\ Len(t) \in Nat BY LaneFacts DEF Arms
<1>3. /\ DOMAIN all = 1..Len(b) + Len(t)
      /\ \A i \in 1..Len(b) : \E n \in DOMAIN all : all[n] = b[i]
      /\ \A i \in 1..Len(t) : \E n \in DOMAIN all : all[n] = t[i]
  <2> HIDE DEF all, b, t
  <2> QED BY <1>1, <1>2, RoundRobinFacts
<1>4. SpotSheet(Rows) = [n \in DOMAIN all |->
        [f \in copied \union {"agree"} |-> IF f \in copied THEN all[n][f] ELSE {}]]
  BY DEF SpotSheet
<1> SUFFICES ASSUME NEW a \in Arms, NEW s \in BOOLEAN,
                    \E r \in Scored(Rows, a) : r.parse /\ r.seeded = s
             PROVE  \E r \in ToSet(SpotSheet(Rows)) : r.arm = a /\ r.seeded = s
  BY DEF SampleShowsEveryStratum
<1>5. Stratum(Rows, a, s) # {} BY DEF Stratum
<1>6. PICK i \in 1..Len(lane(a)) : lane(a)[i].arm = a /\ lane(a)[i].seeded = s BY <1>5, LaneFacts DEF Arms
<1> HIDE DEF all, b, t
<1>7. PICK n \in DOMAIN all : all[n] = lane(a)[i] BY <1>3, <1>6 DEF Arms
<1> DEFINE sheet == SpotSheet(Rows)
<1>8. n \in DOMAIN sheet /\ sheet[n].arm = all[n].arm /\ sheet[n].seeded = all[n].seeded BY <1>4, <1>7
<1> HIDE DEF sheet
<1>9. sheet[n] \in ToSet(sheet) BY <1>8 DEF ToSet
<1> QED BY <1>6, <1>7, <1>8, <1>9 DEF sheet

(* The sample the human grades is not cut off by how the ids sort: for every
   task set, and in every state of the harness, it shows each arm and each kind
   of item that has a graded record. *)
THEOREM SampleTheorem == Spec => []SampleShowsEveryStratum
<1>1. TwoArmInv => SampleShowsEveryStratum BY SampleShows DEF TwoArmInv
<1> QED BY <1>1, Invariance, PTL
=============================================================================
