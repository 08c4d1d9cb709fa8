--------------------------- MODULE ResultTreeProofs ---------------------------
(***************************************************************************)
(* Proofs about the life of a structured results directory, for any number *)
(* of runs, forced runs, replays and calls, given that --force is used     *)
(* only when nothing else works on the directory.                          *)
(***************************************************************************)
EXTENDS ResultTree, FiniteSetTheorems, TLAPS

Vouched == {"config", "rest", "index", "header", "shared"}
Upto(n) == [k \in 1..n |-> k]
NoRows == replayRows = <<>> /\ traceRows = <<>>
AllRows == replayRows = Upto(CallCount) /\ traceRows = Upto(CallCount)

(* Nothing is in the directory but what MakeTemporary and LinkInput put there. *)
Unwritten ==
  /\ \A k \in Keys : stages[k] = Absent /\ calls[k] = Absent /\ asserts[k] = Absent
  /\ NoRows

(* Nothing is in the directory, temporary files aside. *)
Empty == Unwritten /\ \A d \in Docs : doc[d] = Absent

OwnsInputs(p) == \A d \in Vouched : doc[d] = p
OwnsCalls(p) == \A k \in Keys : stages[k] = p /\ calls[k] = p

(* What --force has removed before its n-th class of files. *)
Cleared(n) ==
  /\ n > 1 => traceRows = <<>>
  /\ n > 2 => stages = NoFiles /\ doc["shared"] = Absent
  /\ n > 3 => doc["header"] = Absent
  /\ n > 4 => doc["report"] = Absent
  /\ n > 5 => replayRows = <<>>
  /\ n > 6 => doc["metrics"] = Absent
  /\ n > 7 => doc["rest"] = Absent
  /\ n > 8 => doc["index"] = Absent
  /\ n > 9 => doc["config"] = Absent
  /\ n > 10 => temps = {}
  /\ n > 11 => calls = NoFiles

Alone(p) == \A q \in Processes : q # p => ~Live(q)

(* What p relies on at its place in the program. *)
Relies(p) ==
  /\ pc[p] = "clear" => p \in Forced /\ at[p] \in 1..12 /\ Cleared(at[p]) /\ Alone(p)
  /\ pc[p] = "inputs" =>
       /\ p \in Runs /\ at[p] \in 1..5
       /\ \A n \in 1..5 : n < at[p] => doc[InputOrder[n]] = p
       /\ at[p] > 1 => Unwritten
       /\ doc["config"] = Absent => Empty
  /\ pc[p] \in {"dispatch", "replay", "trace", "asserts", "verify"} => p \in Runs
  /\ pc[p] = "dispatch" => NoRows /\ \A k \in Keys : calls[k] = p => stages[k] = p
  /\ pc[p] \in {"replay", "trace", "asserts"} => at[p] \in Keys
  /\ pc[p] = "replay" => replayRows = Upto(at[p] - 1) /\ traceRows = Upto(at[p] - 1)
  /\ pc[p] = "trace" => replayRows = Upto(at[p]) /\ traceRows = Upto(at[p] - 1)
  /\ pc[p] = "asserts" => AllRows /\ \A k \in Keys : k < at[p] => asserts[k] # Absent
  /\ (p \in Runs /\ pc[p] \in {"dispatch", "replay", "trace", "asserts", "load", "report",
                               "metrics", "trend", "verify"}) => OwnsInputs(p)
  /\ (p \in Runs /\ pc[p] \in {"replay", "trace", "asserts", "load", "report",
                               "metrics", "trend", "verify"}) => OwnsCalls(p)
  /\ (p \in Runs /\ pc[p] \in {"load", "report", "metrics", "trend", "verify"}) =>
       AllRows /\ Full(asserts)
  /\ pc[p] \in {"report", "metrics", "trend", "verify"} => Full(calls) /\ doc["header"] # Absent
  /\ pc[p] \in {"metrics", "trend", "verify"} => doc["report"] # Absent
  /\ pc[p] \in {"trend", "verify"} => doc["metrics"] # Absent
  /\ pc[p] # "inconsistent"

(* All that is vouched for, and all records, are of w. *)
OwnedBy(w) ==
  /\ \A d \in Vouched : doc[d] \in {w, Absent}
  /\ \A k \in Keys : stages[k] \in {w, Absent} /\ calls[k] \in {w, Absent} /\ asserts[k] \in {w, Absent}

TreeInv ==
  /\ TypeOK
  /\ \A p \in Processes : Relies(p)
  /\ \E w \in Processes \union {Absent} : OwnedBy(w)
  /\ HeaderMeansInputs
  /\ ReportNeedsEveryCall

-----------------------------------------------------------------------------
LEMMA Orders ==
  /\ Len(ClearOrder) = 12 /\ Len(InputOrder) = 5
  /\ ClearOrder[1] = "trace" /\ ClearOrder[2] = "stages" /\ ClearOrder[3] = "header"
  /\ ClearOrder[4] = "report" /\ ClearOrder[5] = "replay" /\ ClearOrder[6] = "metrics"
  /\ ClearOrder[7] = "rest" /\ ClearOrder[8] = "index" /\ ClearOrder[9] = "config"
  /\ ClearOrder[10] = "temps" /\ ClearOrder[11] = "calls" /\ ClearOrder[12] = "asserts"
  /\ InputOrder[1] = "config" /\ InputOrder[2] = "rest" /\ InputOrder[3] = "index"
  /\ InputOrder[4] = "header" /\ InputOrder[5] = "shared"
BY DEF ClearOrder, InputOrder

LEMMA MoreRows ==
  ASSUME NEW n \in Nat, NEW m \in Keys, m = n + 1
  PROVE  Append(Upto(n), m) = Upto(m) /\ Upto(n) \in Seq(Keys)
<1>1. n \in 0..CallCount /\ \A k \in 1..n : k \in Keys BY ResultTreeAssumption DEF Keys
<1>2. Upto(n) \in Seq(Keys) BY <1>1 DEF Upto
<1>3. Append(Upto(n), m) = Upto(m) BY <1>1, <1>2 DEF Upto
<1> QED BY <1>2, <1>3

LEMMA Nothing == Upto(0) = <<>>
BY DEF Upto

LEMMA Initially == Init => TreeInv
<1> SUFFICES ASSUME Init PROVE TreeInv OBVIOUS
<1>1. TypeOK
  <2>1. pc \in [Processes -> Places] /\ at \in [Processes -> Nat \ {0}] BY DEF Init, Places
  <2>2. stages \in [Keys -> Owners] /\ calls \in [Keys -> Owners] /\ asserts \in [Keys -> Owners]
    BY DEF Init, Owners, NoFiles
  <2>3. /\ doc \in [Docs -> Processes \union {Absent}] /\ seen \in [Processes -> SUBSET Keys]
        /\ stored \in SUBSET Keys /\ temps \subseteq Runs /\ row \in BOOLEAN
    BY DEF Init
  <2>4. replayRows \in Seq(Keys) /\ traceRows \in Seq(Keys) BY DEF Init
  <2> QED BY <2>1, <2>2, <2>3, <2>4 DEF TypeOK
<1>2. ASSUME NEW p \in Processes PROVE Relies(p) BY DEF Init, Relies
<1>3. OwnedBy(Absent) BY DEF Init, OwnedBy, NoFiles, Vouched, Docs
<1>4. HeaderMeansInputs /\ ReportNeedsEveryCall
  BY DEF Init, HeaderMeansInputs, ReportNeedsEveryCall, Docs
<1> QED BY <1>1, <1>2, <1>3, <1>4 DEF TreeInv

-----------------------------------------------------------------------------
(* Every step but an unlink of --force keeps the files that are there. *)
Grows ==
  /\ \A d \in Docs : doc[d] # Absent => doc'[d] # Absent
  /\ \A d \in Vouched : doc[d] # Absent => doc'[d] = doc[d]
  /\ \A k \in Keys : stages[k] # Absent => stages'[k] = stages[k]
  /\ \A k \in Keys : calls[k] # Absent => calls'[k] = calls[k]
  /\ \A k \in Keys : asserts[k] # Absent => asserts'[k] = asserts[k]

Step(p) == RunStep(p) \/ ReduceStep(p) \/ Fail(p) \/ Crash(p)

LEMMA Growing ==
  ASSUME TypeOK, NEW p \in Processes, Step(p), ~ClearNext(p)
  PROVE  Grows
<1> USE ResultTreeAssumption DEF TypeOK
<1>1. CASE StartClean(p) \/ Refuse(p) \/ StartForced(p) \/ MakeTemporary(p)
  BY <1>1 DEF StartClean, Refuse, StartForced, MakeTemporary, Grows, records
<1>2. CASE LinkInput(p)
  <2> DEFINE d == InputOrder[at[p]]
  <2>1. /\ UNCHANGED records
        /\ doc' = doc \/ (doc[d] = Absent /\ doc' = [doc EXCEPT ![d] = p])
    BY <1>2 DEF LinkInput
  <2> HIDE DEF d
  <2> QED BY <2>1 DEF Grows, records, Processes, Vouched, Docs
<1>3. ASSUME NEW k \in Keys, WriteStage(p, k) \/ WriteCall(p, k) PROVE Grows
  BY <1>3 DEF WriteStage, WriteCall, Grows
<1>4. CASE DispatchDone(p) \/ DispatchStops(p) \/ AppendReplay(p) \/ AppendTrace(p)
  BY <1>4 DEF DispatchDone, DispatchStops, AppendReplay, AppendTrace, Grows, records
<1>5. CASE WriteAssert(p)
  BY <1>5 DEF WriteAssert, Grows
<1>6. CASE Verify(p) \/ StartReplay(p) \/ Load(p) \/ AppendTrend(p) \/ Fail(p) \/ Crash(p)
  BY <1>6 DEF Verify, StartReplay, Load, AppendTrend, Fail, Crash, Grows, records
<1>7. CASE WriteReport(p) \/ WriteMetrics(p)
  BY <1>7 DEF WriteReport, WriteMetrics, Grows, records, Vouched, Docs, Processes
<1> QED BY <1>1, <1>2, <1>3, <1>4, <1>5, <1>6, <1>7 DEF Step, RunStep, ReduceStep

(* A process moves only itself. *)
LEMMA OnlyMine ==
  ASSUME TypeOK, NEW p \in Processes, Step(p), NEW q \in Processes, q # p
  PROVE  pc'[q] = pc[q] /\ at'[q] = at[q]
<1>1. (\E place : Goto(p, place)) \/ Loop(p) \/ UNCHANGED <<pc, at>>
        \/ (\E place, n : pc' = [pc EXCEPT ![p] = place] /\ at' = [at EXCEPT ![p] = n])
        \/ (\E place : pc' = [pc EXCEPT ![p] = place] /\ UNCHANGED at)
  <2>1. CASE StartClean(p) \/ Refuse(p) \/ StartForced(p) \/ ClearNext(p) \/ MakeTemporary(p) \/ LinkInput(p)
    BY <2>1 DEF StartClean, Refuse, StartForced, ClearNext, MakeTemporary, LinkInput
  <2>2. CASE \E k \in Keys : WriteStage(p, k) \/ WriteCall(p, k)
    BY <2>2 DEF WriteStage, WriteCall
  <2>3. CASE DispatchDone(p) \/ DispatchStops(p) \/ AppendReplay(p) \/ AppendTrace(p) \/ WriteAssert(p) \/ Verify(p)
    BY <2>3 DEF DispatchDone, DispatchStops, AppendReplay, AppendTrace, WriteAssert, Verify
  <2>4. CASE ReduceStep(p) \/ Fail(p) \/ Crash(p)
    BY <2>4 DEF ReduceStep, StartReplay, Load, WriteReport, WriteMetrics, AppendTrend, Fail, Crash
  <2> QED BY <2>1, <2>2, <2>3, <2>4 DEF Step, RunStep
<1> QED BY <1>1 DEF TypeOK, Goto, Loop

(* What a step that clears nothing writes, and what the writer has behind it. *)
Writes(p) ==
  \/ UNCHANGED <<doc, records, events>>
  \/ /\ pc[p] = "inputs" /\ doc[InputOrder[at[p]]] = Absent
     /\ doc' = [doc EXCEPT ![InputOrder[at[p]]] = p]
     /\ UNCHANGED <<records, events>>
  \/ /\ p \in Runs /\ OwnsInputs(p) /\ UNCHANGED doc
     /\ \A k \in Keys : stages'[k] \in {stages[k], p} /\ calls'[k] \in {calls[k], p}
                        /\ asserts'[k] \in {asserts[k], p}
  \/ /\ Full(calls) /\ doc["header"] # Absent
     /\ \A d \in Vouched : doc'[d] = doc[d]
     /\ UNCHANGED <<records, events>>

LEMMA Writing ==
  ASSUME TreeInv, NEW p \in Processes, Step(p), ~ClearNext(p)
  PROVE  Writes(p)
<1> USE DEF TreeInv, TypeOK
<1>1. CASE StartClean(p) \/ Refuse(p) \/ StartForced(p) \/ MakeTemporary(p)
  BY <1>1 DEF StartClean, Refuse, StartForced, MakeTemporary, Writes
<1>2. CASE LinkInput(p) BY <1>2 DEF LinkInput, Writes
<1>3. ASSUME NEW k \in Keys, WriteStage(p, k) \/ WriteCall(p, k) PROVE Writes(p)
  <2>1. p \in Runs /\ OwnsInputs(p) BY <1>3 DEF WriteStage, WriteCall, Relies
  <2> QED BY <1>3, <2>1 DEF WriteStage, WriteCall, Writes
<1>4. CASE AppendReplay(p) \/ AppendTrace(p)
  <2>1. p \in Runs /\ OwnsInputs(p) BY <1>4 DEF AppendReplay, AppendTrace, Relies
  <2> QED BY <1>4, <2>1 DEF AppendReplay, AppendTrace, Writes, records
<1>5. CASE WriteAssert(p)
  <2>1. p \in Runs /\ OwnsInputs(p) BY <1>5 DEF WriteAssert, Relies
  <2> QED BY <1>5, <2>1 DEF WriteAssert, Writes
<1>6. CASE DispatchDone(p) \/ DispatchStops(p) \/ Verify(p) \/ StartReplay(p) \/ Load(p)
             \/ AppendTrend(p) \/ Fail(p) \/ Crash(p)
  BY <1>6 DEF DispatchDone, DispatchStops, Verify, StartReplay, Load, AppendTrend, Fail, Crash, Writes
<1>7. CASE WriteReport(p) \/ WriteMetrics(p)
  <2>1. Full(calls) /\ doc["header"] # Absent BY <1>7 DEF WriteReport, WriteMetrics, Relies
  <2>2. \A d \in Vouched : doc'[d] = doc[d]
    BY <1>7 DEF WriteReport, WriteMetrics, Vouched, Docs
  <2> QED BY <1>7, <2>1, <2>2 DEF WriteReport, WriteMetrics, Writes
<1> QED BY <1>1, <1>2, <1>3, <1>4, <1>5, <1>6, <1>7 DEF Step, RunStep, ReduceStep

(* Only a process at one of the two event logs appends to them. *)
LEMMA RowsAreMine ==
  ASSUME NEW p \in Processes, Step(p), ~ClearNext(p), pc[p] \notin {"replay", "trace"}
  PROVE  UNCHANGED events
BY DEF Step, RunStep, ReduceStep, StartClean, Refuse, StartForced, MakeTemporary, LinkInput, WriteStage,
       WriteCall, DispatchDone, DispatchStops, AppendReplay, AppendTrace, WriteAssert, Verify, StartReplay,
       Load, WriteReport, WriteMetrics, AppendTrend, Fail, Crash

LEMMA InputFacts ==
  ASSUME NEW n \in 1..5
  PROVE  /\ InputOrder[n] \in Vouched
         /\ n > 1 => InputOrder[n] # "config" /\ InputOrder[1] = "config"
         /\ n = 1 => InputOrder[n] = "config"
         /\ InputOrder[n] = "header" <=> n = 4
         /\ \A m \in 1..5 : InputOrder[m] = InputOrder[n] => m = n
BY Orders DEF Vouched

(* While one process clears, nobody else takes a step. *)
LEMMA Undisturbed ==
  ASSUME ForceAlone, TreeInv, NEW p \in Processes, Step(p), NEW q \in Processes, q # p, pc[q] = "clear"
  PROVE  FALSE
<1>1. q \in Forced /\ ~Live(p) BY DEF TreeInv, Relies, Alone
<1>2. ~MayStart(p) BY <1>1 DEF MayStart
<1>3. pc[p] \in Finished \union {"start"} BY <1>1 DEF Live
<1>4. ~(StartClean(p) \/ Refuse(p) \/ StartForced(p) \/ StartReplay(p))
  BY <1>2 DEF StartClean, Refuse, StartForced, StartReplay
<1> QED BY <1>1, <1>3, <1>4 DEF Finished, Step, RunStep, ReduceStep, ClearNext, MakeTemporary, LinkInput, WriteStage,
     WriteCall, DispatchDone, DispatchStops, AppendReplay, AppendTrace, WriteAssert, Verify,
     Load, WriteReport, WriteMetrics, AppendTrend, Fail, Crash

LEMMA NobodyClears ==
  ASSUME TreeInv, NEW p \in Processes, NEW q \in Processes, q # p, Live(q)
  PROVE  ~ClearNext(p)
BY DEF TreeInv, Relies, Alone, ClearNext

(* What the others rely on stays. *)
LEMMA Others ==
  ASSUME ForceAlone, TreeInv, NEW p \in Processes, Step(p), NEW q \in Processes, q # p
  PROVE  Relies(q)'
<1> USE ResultTreeAssumption
<1>1. pc'[q] = pc[q] /\ at'[q] = at[q] BY OnlyMine DEF TreeInv
<1>2. Relies(q) BY DEF TreeInv
<1>3. CASE ~Live(q)
  BY <1>1, <1>2, <1>3 DEF Live, Finished, Relies
<1>4. CASE pc[q] = "clear" BY <1>4, Undisturbed
<1>5. CASE Live(q) /\ pc[q] # "clear"
  <2>1. Grows /\ Writes(p) /\ ~ClearNext(p)
    BY <1>5, NobodyClears, Growing, Writing DEF TreeInv
  <2>2. doc["config"] = q => UNCHANGED <<records, events>>
    <3>1. pc[p] \in {"replay", "trace"} => doc["config"] = p
      BY DEF TreeInv, Relies, OwnsInputs, Vouched
    <3>2. OwnsInputs(p) => doc["config"] = p BY DEF OwnsInputs, Vouched
    <3> QED BY <2>1, <3>1, <3>2, RowsAreMine DEF Writes
  <2>3. OwnsInputs(q) => OwnsInputs(q)' /\ UNCHANGED <<records, events>>
    <3>1. q # Absent BY DEF Processes
    <3> QED BY <2>1, <2>2, <3>1 DEF OwnsInputs, Grows, Vouched
  <2>4. OwnsCalls(q) => OwnsCalls(q)' BY <2>1 DEF OwnsCalls, Grows
  <2>5. Full(calls) => Full(calls)' BY <2>1 DEF Full, Grows
  <2>6. Full(asserts) => Full(asserts)' BY <2>1 DEF Full, Grows
  <2>7. \A d \in {"header", "report", "metrics"} : doc[d] # Absent => doc'[d] # Absent
    BY <2>1 DEF Grows, Docs
  <2>8. CASE pc[q] = "inputs"
    <3>1. ASSUME doc'["config"] = Absent PROVE Empty'
      <4>1. doc["config"] = Absent /\ Empty
        BY <1>2, <2>1, <2>8, <3>1 DEF Relies, Grows, Docs
      <4>2. ~(p \in Runs /\ OwnsInputs(p)) BY <4>1 DEF OwnsInputs, Vouched, Processes
      <4>3. doc["header"] = Absent BY <4>1 DEF Empty, Docs
      <4>4. pc[p] = "inputs" => InputOrder[at[p]] = "config"
        <5> SUFFICES ASSUME pc[p] = "inputs" PROVE InputOrder[at[p]] = "config" OBVIOUS
        <5>1. at[p] \in 1..5 /\ (1 < at[p] => doc[InputOrder[1]] = p) BY DEF TreeInv, Relies
        <5> QED BY <4>1, <5>1, InputFacts DEF Processes
      <4>5. ~(/\ pc[p] = "inputs" /\ doc[InputOrder[at[p]]] = Absent
              /\ doc' = [doc EXCEPT ![InputOrder[at[p]]] = p])
        <5>1. p # Absent /\ "config" \in DOMAIN doc BY DEF Processes, TreeInv, TypeOK, Docs
        <5> QED BY <3>1, <4>4, <5>1
      <4>6. UNCHANGED <<doc, records, events>> BY <2>1, <4>2, <4>3, <4>5 DEF Writes
      <4> QED BY <4>1, <4>6 DEF Empty, Unwritten, records, events, NoRows
    <3>2. \A n \in 1..5 : n < at[q] => doc'[InputOrder[n]] = q
      <4>1. \A n \in 1..5 : InputOrder[n] \in Vouched BY InputFacts
      <4> QED BY <1>2, <2>1, <2>8, <4>1 DEF Relies, Grows, Processes
    <3>3. at[q] > 1 => Unwritten'
      <4>1. at[q] > 1 => doc["config"] = q BY <1>2, <2>8, InputFacts DEF Relies
      <4> QED BY <1>2, <2>2, <2>8, <4>1 DEF Relies, Unwritten, NoRows, records, events
    <3> QED BY <1>1, <1>2, <2>8, <3>1, <3>2, <3>3 DEF Relies
  <2>9. CASE pc[q] # "inputs"
    <3>1. pc[q] = "asserts" => \A k \in Keys : k < at[q] => asserts'[k] # Absent
      BY <1>2, <2>1 DEF Relies, Grows
    <3> QED BY <1>1, <1>2, <1>5, <2>3, <2>4, <2>5, <2>6, <2>7, <2>9, <3>1 DEF Relies, AllRows, NoRows, records, events
  <2> QED BY <2>8, <2>9
<1> QED BY <1>3, <1>4, <1>5

-----------------------------------------------------------------------------
(* What a process relies on at its next place. *)
LEMMA StartMine ==
  ASSUME ForceAlone, TreeInv, NEW p \in Processes,
         StartClean(p) \/ Refuse(p) \/ StartForced(p) \/ StartReplay(p)
  PROVE  Relies(p)'
<1> USE ResultTreeAssumption DEF TreeInv, TypeOK, Goto
<1>1. CASE StartClean(p)
  <2>1. Empty BY <1>1 DEF StartClean, Stale, Empty, Unwritten, NoRows
  <2>2. Empty' BY <1>1, <2>1 DEF StartClean, records, events, Empty, Unwritten, NoRows
  <2>3. pc'[p] = "inputs" /\ at'[p] = 1 /\ p \in Runs BY <1>1 DEF StartClean
  <2> QED BY <2>2, <2>3 DEF Relies
<1>2. CASE Refuse(p) BY <1>2 DEF Refuse, Relies
<1>3. CASE StartForced(p)
  <2>1. pc'[p] = "clear" /\ at'[p] = 1 /\ p \in Forced BY <1>3 DEF StartForced
  <2>2. Alone(p) BY <1>3, <2>1 DEF StartForced, MayStart, Alone
  <2>3. Alone(p)' BY <1>3, <2>2, OnlyMine DEF Alone, Live, Step, RunStep
  <2>4. Cleared(1)' BY DEF Cleared
  <2> QED BY <2>1, <2>3, <2>4 DEF Relies
<1>4. CASE StartReplay(p)
  <2>1. pc'[p] = "load" /\ p \notin Runs BY <1>4 DEF StartReplay
  <2> QED BY <2>1 DEF Relies
<1> QED BY <1>1, <1>2, <1>3, <1>4

LEMMA ClearMine ==
  ASSUME ForceAlone, TreeInv, NEW p \in Processes, ClearNext(p)
  PROVE  Relies(p)'
<1> USE ResultTreeAssumption DEF TreeInv, TypeOK
<1>0. PICK n : n = at[p] OBVIOUS
<1>1. pc[p] = "clear" /\ p \in Forced /\ n \in 1..12 /\ Cleared(n) /\ Alone(p)
  BY <1>0 DEF ClearNext, Relies
<1>2. Alone(p)' BY <1>1, OnlyMine DEF Alone, Live, Step, RunStep
<1> DEFINE gone == ClearOrder[n]
<1>3. /\ \A d \in Docs : doc'[d] = (IF d = gone \/ (d = "shared" /\ gone = "stages") THEN Absent ELSE doc[d])
      /\ stages' = (IF gone = "stages" THEN NoFiles ELSE stages)
      /\ calls' = (IF gone = "calls" THEN NoFiles ELSE calls)
      /\ asserts' = (IF gone = "asserts" THEN NoFiles ELSE asserts)
      /\ replayRows' = (IF gone = "replay" THEN <<>> ELSE replayRows)
      /\ traceRows' = (IF gone = "trace" THEN <<>> ELSE traceRows)
      /\ temps' = (IF gone = "temps" THEN {} ELSE temps)
  BY <1>0 DEF ClearNext
<1>4. Cleared(n + 1)'
  <2>1. n \in Nat /\ n <= 12 BY <1>1
  <2>2. /\ n = 1 => gone = "trace"
        /\ n = 2 => gone = "stages"
        /\ n = 3 => gone = "header"
        /\ n = 4 => gone = "report"
        /\ n = 5 => gone = "replay"
        /\ n = 6 => gone = "metrics"
        /\ n = 7 => gone = "rest"
        /\ n = 8 => gone = "index"
        /\ n = 9 => gone = "config"
        /\ n = 10 => gone = "temps"
        /\ n = 11 => gone = "calls"
    BY Orders
  <2> HIDE DEF gone
  <2>3. /\ n >= 1 => traceRows' = <<>>
        /\ n >= 2 => stages' = NoFiles
        /\ n >= 5 => replayRows' = <<>>
        /\ n >= 10 => temps' = {}
        /\ n >= 11 => calls' = NoFiles
    BY <1>1, <1>3, <2>1, <2>2 DEF Cleared
  <2>4. /\ n >= 2 => doc'["shared"] = Absent
        /\ n >= 3 => doc'["header"] = Absent
        /\ n >= 4 => doc'["report"] = Absent
        /\ n >= 6 => doc'["metrics"] = Absent
    BY <1>1, <1>3, <2>1, <2>2 DEF Cleared, Docs
  <2>5. /\ n >= 7 => doc'["rest"] = Absent
        /\ n >= 8 => doc'["index"] = Absent
        /\ n >= 9 => doc'["config"] = Absent
    BY <1>1, <1>3, <2>1, <2>2 DEF Cleared, Docs
  <2> QED BY <2>1, <2>3, <2>4, <2>5, SMTT(30) DEF Cleared
<1>5. CASE n = 12
  <2>1. gone = "asserts" BY <1>5, Orders
  <2> HIDE DEF gone
  <2>2. Cleared(13)' BY <1>4, <1>5
  <2>3. asserts' = NoFiles BY <1>3, <2>1
  <2>4. Empty' BY <2>2, <2>3 DEF Cleared, Empty, Unwritten, NoRows, NoFiles, Docs
  <2>5. pc'[p] = "inputs" /\ at'[p] = 1 BY <1>0, <1>5, Orders DEF ClearNext, Goto
  <2>6. p \in Runs BY <1>1
  <2> QED BY <2>4, <2>5, <2>6 DEF Relies
<1>6. CASE n # 12
  <2>1. pc'[p] = "clear" /\ at'[p] = n + 1 BY <1>0, <1>1, <1>6, Orders DEF ClearNext, Loop
  <2>2. n + 1 \in 1..12 BY <1>1, <1>6
  <2>3. Cleared(at[p])' BY <1>4, <2>1
  <2> QED BY <1>1, <1>2, <2>1, <2>2, <2>3 DEF Relies
<1> QED BY <1>5, <1>6

LEMMA InputsMine ==
  ASSUME ForceAlone, TreeInv, NEW p \in Processes, MakeTemporary(p) \/ LinkInput(p)
  PROVE  Relies(p)'
<1> USE ResultTreeAssumption DEF TreeInv, TypeOK
<1>1. CASE MakeTemporary(p)
  <2>1. UNCHANGED <<pc, at, doc, records, events>> BY <1>1 DEF MakeTemporary
  <2>2. pc[p] = "inputs" BY <1>1 DEF MakeTemporary
  <2>3. (Empty => Empty') /\ (Unwritten => Unwritten')
    BY <2>1 DEF Empty, Unwritten, records, events, NoRows
  <2> QED BY <2>1, <2>2, <2>3 DEF Relies
<1>2. CASE LinkInput(p)
  <2> DEFINE d == InputOrder[at[p]]
  <2>1. pc[p] = "inputs" /\ at[p] \in 1..5 /\ p \in Runs /\ p # Absent
        /\ (\A n \in 1..5 : n < at[p] => doc[InputOrder[n]] = p)
    BY <1>2 DEF LinkInput, Relies, Processes
  <2>2. d \in Vouched /\ d \in Docs BY <2>1, InputFacts DEF Vouched, Docs
  <2>3. CASE doc[d] # Absent
    <3>1. pc'[p] = "raised" BY <1>2, <2>3 DEF LinkInput, Goto
    <3> QED BY <3>1 DEF Relies
  <2>4. CASE doc[d] = Absent
    <3>1. doc' = [doc EXCEPT ![d] = p] /\ UNCHANGED <<records, events>> BY <1>2, <2>4 DEF LinkInput
    <3>2. \A n \in 1..5 : n <= at[p] => doc'[InputOrder[n]] = p
      <4>1. ASSUME NEW n \in 1..5, n <= at[p] PROVE doc'[InputOrder[n]] = p
        <5>1. InputOrder[n] \in Docs BY InputFacts DEF Vouched, Docs
        <5>2. CASE n = at[p] BY <2>2, <3>1, <5>2
        <5>3. CASE n < at[p]
          <6> HIDE DEF d
          <6> QED BY <2>1, <2>2, <3>1, <5>1, <5>3
        <5> QED BY <2>1, <4>1, <5>2, <5>3
      <4> QED BY <4>1
    <3>3. Unwritten'
      <4>1. CASE at[p] = 1
        <5>1. Empty BY <2>1, <2>4, <4>1, InputFacts DEF Relies
        <5> QED BY <3>1, <5>1 DEF Empty, Unwritten, NoRows, records, events
      <4>2. CASE at[p] # 1
        <5>1. Unwritten BY <2>1, <4>2 DEF Relies
        <5> QED BY <3>1, <5>1 DEF Unwritten, NoRows, records, events
      <4> QED BY <4>1, <4>2
    <3>4. doc'["config"] = p
      <4>1. InputOrder[1] = "config" BY Orders
      <4> QED BY <2>1, <3>2, <4>1
    <3>5. CASE at[p] = 5
      <4>1. pc'[p] = "dispatch" BY <1>2, <2>4, <3>5, Orders DEF LinkInput, Goto
      <4>2. OwnsInputs(p)' BY <3>2, <3>5, Orders DEF OwnsInputs, Vouched
      <4> QED BY <2>1, <3>3, <4>1, <4>2 DEF Relies, Unwritten
    <3>6. CASE at[p] # 5
      <4>1. pc'[p] = "inputs" /\ at'[p] = at[p] + 1
        BY <1>2, <2>1, <2>4, <3>6, Orders DEF LinkInput, Loop
      <4>2. \A n \in 1..5 : n < at'[p] => doc'[InputOrder[n]] = p BY <2>1, <3>2, <4>1
      <4>3. at'[p] \in 1..5 BY <2>1, <3>6, <4>1
      <4> QED BY <2>1, <3>3, <3>4, <4>1, <4>2, <4>3 DEF Relies
    <3> QED BY <3>5, <3>6
  <2> QED BY <2>3, <2>4
<1> QED BY <1>1, <1>2

LEMMA PoolMine ==
  ASSUME ForceAlone, TreeInv, NEW p \in Processes,
         DispatchDone(p) \/ DispatchStops(p) \/ \E k \in Keys : WriteStage(p, k) \/ WriteCall(p, k)
  PROVE  Relies(p)'
<1> USE ResultTreeAssumption DEF TreeInv, TypeOK, Goto
<1>1. /\ pc[p] = "dispatch" /\ p \in Runs /\ OwnsInputs(p) /\ NoRows
      /\ \A k \in Keys : calls[k] = p => stages[k] = p
  BY DEF DispatchDone, DispatchStops, WriteStage, WriteCall, Relies
<1>2. ASSUME pc'[p] = "raised" PROVE Relies(p)' BY <1>2 DEF Relies
<1>3. ASSUME NEW k \in Keys, WriteStage(p, k) \/ WriteCall(p, k), pc'[p] # "raised" PROVE Relies(p)'
  <2>1. UNCHANGED <<pc, at, doc, events>> BY <1>3 DEF WriteStage, WriteCall
  <2>2. OwnsInputs(p)' /\ NoRows' BY <1>1, <2>1 DEF OwnsInputs, NoRows, events
  <2>3. \A m \in Keys : calls'[m] = p => stages'[m] = p
    BY <1>1, <1>3 DEF WriteStage, WriteCall
  <2> QED BY <1>1, <2>1, <2>2, <2>3 DEF Relies
<1>4. CASE DispatchDone(p)
  <2>1. OwnsCalls(p) BY <1>1, <1>4 DEF DispatchDone, AllCalls, OwnsCalls
  <2>2. /\ pc'[p] = "replay" /\ at'[p] = 1 /\ UNCHANGED <<doc, records, events>>
    BY <1>4 DEF DispatchDone
  <2>3. OwnsCalls(p)' /\ OwnsInputs(p)' BY <1>1, <2>1, <2>2 DEF OwnsCalls, OwnsInputs, records
  <2>4. replayRows' = Upto(at'[p] - 1) /\ traceRows' = Upto(at'[p] - 1)
    BY <1>1, <2>2, Nothing DEF NoRows, events
  <2>5. at'[p] \in Keys BY <2>2 DEF Keys
  <2> QED BY <1>1, <2>2, <2>3, <2>4, <2>5 DEF Relies
<1>5. CASE DispatchStops(p) BY <1>2, <1>5 DEF DispatchStops
<1> QED BY <1>2, <1>3, <1>4, <1>5

LEMMA EventMine ==
  ASSUME ForceAlone, TreeInv, NEW p \in Processes, AppendReplay(p) \/ AppendTrace(p)
  PROVE  Relies(p)'
<1> USE ResultTreeAssumption DEF TreeInv, TypeOK, Goto
<1>0. PICK n : n = at[p] OBVIOUS
<1>1. /\ p \in Runs /\ OwnsInputs(p) /\ OwnsCalls(p) /\ n \in Keys /\ UNCHANGED <<doc, records>>
      /\ n \in Nat \ {0} /\ n <= CallCount
  BY <1>0 DEF AppendReplay, AppendTrace, Relies, Keys
<1>2. OwnsInputs(p)' /\ OwnsCalls(p)' BY <1>1 DEF OwnsInputs, OwnsCalls, records
<1>3. Append(Upto(n - 1), n) = Upto(n) BY <1>1, MoreRows
<1>4. CASE AppendReplay(p)
  <2>1. pc'[p] = "trace" /\ at'[p] = n BY <1>0, <1>4 DEF AppendReplay
  <2>2. replayRows' = Upto(n) /\ traceRows' = Upto(n - 1)
    BY <1>0, <1>3, <1>4 DEF AppendReplay, Relies
  <2> QED BY <1>1, <1>2, <2>1, <2>2 DEF Relies
<1>5. CASE AppendTrace(p)
  <2>1. replayRows' = Upto(n) /\ traceRows' = Upto(n)
    BY <1>0, <1>3, <1>5 DEF AppendTrace, Relies
  <2>2. CASE n = CallCount
    <3>1. pc'[p] = "asserts" /\ at'[p] = 1 BY <1>0, <1>5, <2>2 DEF AppendTrace, LastKey
    <3>2. AllRows' BY <2>1, <2>2 DEF AllRows
    <3>3. 1 \in Keys /\ \A k \in Keys : ~(k < 1) BY DEF Keys
    <3> QED BY <1>1, <1>2, <3>1, <3>2, <3>3 DEF Relies
  <2>3. CASE n # CallCount
    <3>1. pc'[p] = "replay" /\ at'[p] = n + 1 BY <1>0, <1>5, <2>3 DEF AppendTrace, LastKey
    <3>2. n + 1 \in Keys /\ (n + 1) - 1 = n BY <1>1, <2>3 DEF Keys
    <3>3. replayRows' = Upto(at'[p] - 1) /\ traceRows' = Upto(at'[p] - 1) BY <2>1, <3>1, <3>2
    <3> QED BY <1>1, <1>2, <3>1, <3>2, <3>3 DEF Relies
  <2> QED BY <2>2, <2>3
<1> QED BY <1>4, <1>5

LEMMA AssertMine ==
  ASSUME ForceAlone, TreeInv, NEW p \in Processes, WriteAssert(p)
  PROVE  Relies(p)'
<1> USE ResultTreeAssumption DEF TreeInv, TypeOK, Goto
<1>1. /\ pc[p] = "asserts" /\ p \in Runs /\ OwnsInputs(p) /\ OwnsCalls(p) /\ AllRows /\ at[p] \in Keys
      /\ UNCHANGED <<doc, stages, calls, events>> /\ p # Absent
      /\ \A k \in Keys : k < at[p] => asserts[k] # Absent
  BY DEF WriteAssert, Relies, Processes
<1>2. OwnsInputs(p)' /\ OwnsCalls(p)' /\ AllRows' BY <1>1 DEF OwnsInputs, OwnsCalls, AllRows, events
<1>3. CASE asserts[at[p]] # Absent BY <1>3 DEF WriteAssert, Relies
<1>4. CASE asserts[at[p]] = Absent
  <2>1. asserts' = [asserts EXCEPT ![at[p]] = p] BY <1>4 DEF WriteAssert
  <2>2. \A k \in Keys : k <= at[p] => asserts'[k] # Absent BY <1>1, <2>1 DEF Keys
  <2>3. CASE at[p] = CallCount
    <3>1. pc'[p] = "load" BY <1>4, <2>3 DEF WriteAssert, AssertsDone
    <3>2. Full(asserts)' BY <2>2, <2>3 DEF Full, Keys
    <3> QED BY <1>1, <1>2, <3>1, <3>2 DEF Relies
  <2>4. CASE at[p] # CallCount
    <3>1. pc'[p] = "asserts" /\ at'[p] = at[p] + 1 BY <1>1, <1>4, <2>4 DEF WriteAssert, AssertsDone, Loop
    <3>2. at'[p] \in Keys BY <1>1, <2>4, <3>1 DEF Keys
    <3>3. \A k \in Keys : k < at'[p] => asserts'[k] # Absent BY <1>1, <2>2, <3>1 DEF Keys
    <3> QED BY <1>1, <1>2, <3>1, <3>2, <3>3 DEF Relies
  <2> QED BY <2>3, <2>4
<1> QED BY <1>3, <1>4

LEMMA ReduceMine ==
  ASSUME ForceAlone, TreeInv, NEW p \in Processes,
         Load(p) \/ WriteReport(p) \/ WriteMetrics(p) \/ AppendTrend(p) \/ Verify(p) \/ Fail(p) \/ Crash(p)
  PROVE  Relies(p)'
<1> USE ResultTreeAssumption DEF TreeInv, TypeOK, Goto
<1>1. UNCHANGED <<records, events>>
  BY DEF Load, WriteReport, WriteMetrics, AppendTrend, Verify, Fail, Crash
<1>2. /\ OwnsCalls(p) => OwnsCalls(p)'
      /\ AllRows => AllRows'
      /\ Full(asserts) => Full(asserts)'
      /\ Full(calls) => Full(calls)'
  BY <1>1 DEF OwnsCalls, AllRows, Full, records, events
<1>3. OwnsInputs(p) => OwnsInputs(p)'
  BY DEF Load, WriteReport, WriteMetrics, AppendTrend, Verify, Fail, Crash, OwnsInputs, Vouched, Docs
<1>4. p # Absent BY DEF Processes
<1>5. CASE Load(p)
  <2>1. CASE Loadable
    <3>1. pc[p] = "load" /\ pc'[p] = "report" /\ UNCHANGED doc BY <1>5, <2>1 DEF Load, FirstOutput
    <3>2. Full(calls) /\ doc["header"] # Absent
      BY <2>1 DEF Loadable, CallsComplete, InputsAuthentic
    <3> QED BY <1>2, <1>3, <3>1, <3>2 DEF Relies
  <2>2. CASE ~Loadable
    <3>1. pc'[p] = "rejected" BY <1>5, <2>2 DEF Load
    <3> QED BY <3>1 DEF Relies
  <2> QED BY <2>1, <2>2
<1>6. CASE WriteReport(p)
  <2>1. pc[p] = "report" /\ pc'[p] = "metrics" BY <1>6 DEF WriteReport
  <2>2. doc'["header"] = doc["header"] /\ doc'["report"] = p BY <1>6 DEF WriteReport, Docs
  <2> QED BY <1>2, <1>3, <1>4, <2>1, <2>2 DEF Relies
<1>7. CASE WriteMetrics(p)
  <2>1. pc[p] = "metrics" /\ pc'[p] = "trend" BY <1>7 DEF WriteMetrics
  <2>2. /\ doc'["header"] = doc["header"] /\ doc'["report"] = doc["report"]
        /\ doc'["metrics"] = p
    BY <1>7 DEF WriteMetrics, Docs
  <2> QED BY <1>2, <1>3, <1>4, <2>1, <2>2 DEF Relies
<1>8. CASE AppendTrend(p)
  <2>1. pc[p] = "trend" /\ UNCHANGED doc /\ pc'[p] = (IF p \in Runs THEN "verify" ELSE "ok")
    BY <1>8 DEF AppendTrend
  <2> QED BY <1>2, <1>3, <2>1 DEF Relies
<1>9. CASE Verify(p)
  <2>1. /\ pc[p] = "verify" /\ p \in Runs /\ OwnsInputs(p) /\ OwnsCalls(p) /\ AllRows /\ Full(asserts)
        /\ Full(calls) /\ doc["report"] # Absent /\ doc["metrics"] # Absent
    BY <1>9 DEF Verify, Relies
  <2>2. Full(stages) /\ doc["shared"] # Absent BY <1>4, <2>1 DEF OwnsCalls, OwnsInputs, Full, Vouched
  <2>3. replayRows = [k \in Keys |-> k] /\ traceRows = [k \in Keys |-> k]
    BY <2>1 DEF AllRows, Upto, Keys
  <2>4. pc'[p] = "ok" BY <1>9, <2>1, <2>2, <2>3 DEF Verify, Consistent
  <2> QED BY <2>4 DEF Relies
<1>10. CASE Fail(p) \/ Crash(p)
  <2>1. pc'[p] \in {"raised", "crashed"} BY <1>10 DEF Fail, Crash
  <2> QED BY <2>1 DEF Relies
<1> QED BY <1>5, <1>6, <1>7, <1>8, <1>9, <1>10

LEMMA ReliesStep ==
  ASSUME ForceAlone, TreeInv, NEW p \in Processes, Step(p), NEW q \in Processes
  PROVE  Relies(q)'
<1>1. CASE q # p BY <1>1, Others
<1>2. Relies(p)'
  BY StartMine, ClearMine, InputsMine, PoolMine, EventMine, AssertMine, ReduceMine
     DEF Step, RunStep, ReduceStep
<1> QED BY <1>1, <1>2

-----------------------------------------------------------------------------
(* The three relations between files. *)
LEMMA OwnedStep ==
  ASSUME TreeInv, NEW p \in Processes, Step(p)
  PROVE  \E w \in Processes \union {Absent} : OwnedBy(w)'
<1> USE DEF TreeInv, TypeOK
<1>1. PICK w \in Processes \union {Absent} : OwnedBy(w) OBVIOUS
<1>2. CASE ClearNext(p)
  <2>1. /\ \A d \in Docs : doc'[d] \in {doc[d], Absent}
        /\ stages' \in {stages, NoFiles} /\ calls' \in {calls, NoFiles} /\ asserts' \in {asserts, NoFiles}
    BY <1>2 DEF ClearNext
  <2>2. \A d \in Vouched : doc'[d] \in {w, Absent} BY <1>1, <2>1 DEF OwnedBy, Vouched, Docs
  <2>3. \A k \in Keys : stages'[k] \in {w, Absent} /\ calls'[k] \in {w, Absent} /\ asserts'[k] \in {w, Absent}
    BY <1>1, <2>1 DEF OwnedBy, NoFiles
  <2> QED BY <2>2, <2>3 DEF OwnedBy
<1>3. CASE ~ClearNext(p)
  <2>1. Writes(p) BY <1>3, Writing
  <2>2. p # Absent BY ResultTreeAssumption DEF Processes
  <2>3. CASE UNCHANGED <<doc, records, events>> BY <1>1, <2>3 DEF OwnedBy, records
  <2>4. CASE /\ pc[p] = "inputs" /\ doc[InputOrder[at[p]]] = Absent
             /\ doc' = [doc EXCEPT ![InputOrder[at[p]]] = p]
             /\ UNCHANGED <<records, events>>
    <3>1. /\ at[p] \in 1..5
          /\ \A n \in 1..5 : n < at[p] => doc[InputOrder[n]] = p
          /\ doc["config"] = Absent => Empty
      BY <2>4 DEF Relies
    <3>2. OwnedBy(p)
      <4>1. CASE at[p] = 1
        <5>1. Empty BY <2>4, <3>1, <4>1, InputFacts
        <5> QED BY <5>1 DEF Empty, Unwritten, OwnedBy, Vouched, Docs
      <4>2. CASE at[p] # 1
        <5>1. doc["config"] = p BY <3>1, <4>2, InputFacts
        <5>2. w = p BY <1>1, <2>2, <5>1 DEF OwnedBy, Vouched
        <5> QED BY <1>1, <5>2
      <4> QED BY <4>1, <4>2
    <3>3. \A d \in Vouched : doc'[d] \in {doc[d], p} BY <2>4 DEF Vouched, Docs
    <3> QED BY <2>4, <3>2, <3>3, SMTT(30) DEF OwnedBy, records
  <2>5. CASE /\ p \in Runs /\ OwnsInputs(p) /\ UNCHANGED doc
             /\ \A k \in Keys : stages'[k] \in {stages[k], p} /\ calls'[k] \in {calls[k], p}
                                /\ asserts'[k] \in {asserts[k], p}
    <3>1. w = p BY <1>1, <2>2, <2>5 DEF OwnedBy, OwnsInputs, Vouched
    <3>2. \A k \in Keys : stages'[k] \in {p, Absent} /\ calls'[k] \in {p, Absent} /\ asserts'[k] \in {p, Absent}
      BY <1>1, <2>5, <3>1 DEF OwnedBy
    <3> QED BY <1>1, <2>5, <3>1, <3>2 DEF OwnedBy
  <2>6. CASE /\ Full(calls) /\ doc["header"] # Absent
             /\ \A d \in Vouched : doc'[d] = doc[d]
             /\ UNCHANGED <<records, events>>
    BY <1>1, <2>6 DEF OwnedBy, records
  <2> QED BY <2>1, <2>3, <2>4, <2>5, <2>6 DEF Writes
<1> QED BY <1>2, <1>3

LEMMA HeaderStep ==
  ASSUME TreeInv, NEW p \in Processes, Step(p)
  PROVE  HeaderMeansInputs'
<1> USE DEF TreeInv, TypeOK
<1>1. CASE ClearNext(p)
  <2>0. PICK n : n = at[p] OBVIOUS
  <2>1. n \in 1..12 /\ Cleared(n) BY <1>1, <2>0 DEF ClearNext, Relies
  <2>2. CASE n >= 3
    <3>1. doc'["header"] = Absent
      BY <1>1, <2>0, <2>1, <2>2, Orders DEF ClearNext, Cleared, Docs
    <3> QED BY <3>1 DEF HeaderMeansInputs
  <2>3. CASE n < 3
    <3>1. ClearOrder[n] \in {"trace", "stages"} BY <2>1, <2>3, Orders
    <3>2. \A d \in {"config", "rest", "index", "header"} : doc'[d] = doc[d]
      BY <1>1, <2>0, <3>1 DEF ClearNext, Docs
    <3> QED BY <3>2 DEF HeaderMeansInputs
  <2> QED BY <2>1, <2>2, <2>3
<1>2. CASE ~ClearNext(p)
  <2>1. Writes(p) BY <1>2, Writing
  <2>2. CASE /\ pc[p] = "inputs" /\ doc[InputOrder[at[p]]] = Absent
             /\ doc' = [doc EXCEPT ![InputOrder[at[p]]] = p]
    <3>1. /\ at[p] \in 1..5 /\ p \in Runs
          /\ \A n \in 1..5 : n < at[p] => doc[InputOrder[n]] = p
      BY <2>2 DEF Relies
    <3>2. p # Absent BY ResultTreeAssumption DEF Processes
    <3>3. CASE at[p] = 4
      <4>1. InputOrder[at[p]] = "header" BY <3>3, Orders
      <4>2. doc["config"] = p /\ doc["rest"] = p /\ doc["index"] = p BY <3>1, <3>3, Orders
      <4> QED BY <2>2, <4>1, <4>2 DEF HeaderMeansInputs, Docs
    <3>4. CASE at[p] # 4
      <4>1. InputOrder[at[p]] # "header" BY <3>1, <3>4, InputFacts
      <4>2. CASE doc["header"] = Absent
        <5>1. doc'["header"] = Absent BY <2>2, <4>1, <4>2 DEF Docs
        <5> QED BY <5>1 DEF HeaderMeansInputs
      <4>3. CASE doc["header"] # Absent
        <5>1. \A d \in {"config", "rest", "index"} : doc[d] # Absent BY <4>3 DEF HeaderMeansInputs
        <5>2. \A d \in {"config", "rest", "index", "header"} : doc'[d] = doc[d]
          BY <2>2, <4>1, <5>1 DEF Docs
        <5> QED BY <5>2 DEF HeaderMeansInputs
      <4> QED BY <4>2, <4>3
    <3> QED BY <3>3, <3>4
  <2>3. CASE \A d \in Vouched : doc'[d] = doc[d]
    BY <2>3 DEF HeaderMeansInputs, Vouched
  <2> QED BY <2>1, <2>2, <2>3 DEF Writes
<1> QED BY <1>1, <1>2

LEMMA ReportStep ==
  ASSUME TreeInv, NEW p \in Processes, Step(p)
  PROVE  ReportNeedsEveryCall'
<1> USE DEF TreeInv, TypeOK
<1>1. CASE ClearNext(p)
  <2>0. PICK n : n = at[p] OBVIOUS
  <2>1. n \in 1..12 /\ Cleared(n) BY <1>1, <2>0 DEF ClearNext, Relies
  <2>2. CASE n >= 11
    <3>1. doc'["report"] = Absent /\ doc'["metrics"] = Absent
      BY <1>1, <2>1, <2>2 DEF ClearNext, Cleared, Docs
    <3> QED BY <3>1 DEF ReportNeedsEveryCall
  <2>3. CASE n < 11
    <3>1. ClearOrder[n] # "calls" BY <2>1, <2>3, Orders
    <3>2. calls' = calls /\ \A d \in Docs : doc'[d] \in {doc[d], Absent} BY <1>1, <2>0, <3>1 DEF ClearNext
    <3> QED BY <3>2 DEF ReportNeedsEveryCall, Full, Docs
  <2> QED BY <2>1, <2>2, <2>3
<1>2. CASE ~ClearNext(p)
  <2>1. Writes(p) /\ Grows BY <1>2, Writing, Growing
  <2>2. Full(calls) => Full(calls)' BY <2>1 DEF Grows, Full
  <2>3. CASE ~Full(calls)
    <3>1. doc["report"] = Absent /\ doc["metrics"] = Absent BY <2>3 DEF ReportNeedsEveryCall
    <3>2. doc'["report"] = doc["report"] /\ doc'["metrics"] = doc["metrics"]
      <4>1. CASE UNCHANGED doc BY <4>1
      <4>2. CASE pc[p] = "inputs" /\ doc' = [doc EXCEPT ![InputOrder[at[p]]] = p]
        <5>1. at[p] \in 1..5 BY <4>2 DEF Relies
        <5>2. InputOrder[at[p]] \in Vouched BY <5>1, InputFacts
        <5> QED BY <4>2, <5>2 DEF Vouched, Docs
      <4> QED BY <2>1, <2>3, <4>1, <4>2 DEF Writes
    <3> QED BY <3>1, <3>2 DEF ReportNeedsEveryCall
  <2>4. CASE Full(calls) BY <2>2, <2>4 DEF ReportNeedsEveryCall
  <2> QED BY <2>3, <2>4
<1> QED BY <1>1, <1>2

LEMMA TypeStep ==
  ASSUME TreeInv, NEW p \in Processes, Step(p)
  PROVE  TypeOK'
<1> USE DEF TreeInv
<1>1. (pc \in [Processes -> Places])' /\ (at \in [Processes -> Nat \ {0}])'
  <2>1. \A q \in Processes : at[q] + 1 \in Nat \ {0} BY DEF TypeOK
  <2>2. (\E place \in Places : Goto(p, place)) \/ Loop(p) \/ UNCHANGED <<pc, at>>
          \/ (\E place \in Places : pc' = [pc EXCEPT ![p] = place] /\ at' = [at EXCEPT ![p] = @ + 1])
          \/ (\E place \in Places : pc' = [pc EXCEPT ![p] = place] /\ UNCHANGED at)
    <3>1. CASE StartClean(p) \/ Refuse(p) \/ StartForced(p) \/ ClearNext(p) \/ MakeTemporary(p) \/ LinkInput(p)
      BY <3>1 DEF StartClean, Refuse, StartForced, ClearNext, MakeTemporary, LinkInput, Places, Finished
    <3>2. CASE \E k \in Keys : WriteStage(p, k) \/ WriteCall(p, k)
      BY <3>2 DEF WriteStage, WriteCall, Places, Finished
    <3>3. CASE DispatchDone(p) \/ DispatchStops(p) \/ AppendReplay(p) \/ AppendTrace(p) \/ WriteAssert(p) \/ Verify(p)
      BY <3>3 DEF DispatchDone, DispatchStops, AppendReplay, AppendTrace, WriteAssert, Verify, Places, Finished
    <3>4. CASE ReduceStep(p) \/ Fail(p) \/ Crash(p)
      BY <3>4 DEF ReduceStep, StartReplay, Load, WriteReport, WriteMetrics, AppendTrend, Fail, Crash,
                  Places, Finished, FirstOutput
    <3> QED BY <3>1, <3>2, <3>3, <3>4 DEF Step, RunStep
  <2> QED BY <2>1, <2>2 DEF Goto, Loop, TypeOK
<1>2. CASE ClearNext(p)
  <2>1. (doc \in [Docs -> Processes \union {Absent}])' BY <1>2 DEF ClearNext, TypeOK
  <2>2. (stages \in [Keys -> Owners])' /\ (calls \in [Keys -> Owners])' /\ (asserts \in [Keys -> Owners])'
    BY <1>2 DEF ClearNext, TypeOK, NoFiles, Owners
  <2>3. /\ (replayRows \in Seq(Keys))' /\ (traceRows \in Seq(Keys))' /\ (temps \subseteq Runs)'
        /\ UNCHANGED reduced
    BY <1>2 DEF ClearNext, TypeOK
  <2> QED BY <1>1, <2>1, <2>2, <2>3 DEF TypeOK, reduced
<1>3. CASE StartClean(p) \/ Refuse(p) \/ StartForced(p) \/ DispatchDone(p) \/ DispatchStops(p)
             \/ Verify(p) \/ StartReplay(p) \/ Crash(p)
  <2>1. UNCHANGED <<doc, records, events, temps, reduced>>
    BY <1>3 DEF StartClean, Refuse, StartForced, DispatchDone, DispatchStops, Verify, StartReplay, Crash
  <2> QED BY <1>1, <2>1 DEF TypeOK, records, events, reduced
<1>4. CASE MakeTemporary(p)
  <2>1. p \in Runs BY <1>4 DEF MakeTemporary, Relies
  <2> QED BY <1>1, <1>4, <2>1 DEF MakeTemporary, TypeOK, records, events, reduced
<1>5. CASE LinkInput(p)
  <2>1. (doc \in [Docs -> Processes \union {Absent}])' BY <1>5 DEF LinkInput, TypeOK
  <2> QED BY <1>1, <1>5, <2>1 DEF LinkInput, TypeOK, records, events, reduced
<1>6. ASSUME NEW k \in Keys, WriteStage(p, k) \/ WriteCall(p, k) PROVE TypeOK'
  <2>1. p \in Owners BY <1>6 DEF WriteStage, WriteCall, Relies, Owners
  <2>2. (stages \in [Keys -> Owners])' /\ (calls \in [Keys -> Owners])'
    BY <1>6, <2>1 DEF WriteStage, WriteCall, TypeOK
  <2> QED BY <1>1, <1>6, <2>2 DEF WriteStage, WriteCall, TypeOK, events, reduced
<1>7. CASE AppendReplay(p) \/ AppendTrace(p)
  <2>1. at[p] \in Keys BY <1>7 DEF AppendReplay, AppendTrace, Relies
  <2>2. replayRows \in Seq(Keys) /\ traceRows \in Seq(Keys) BY DEF TypeOK
  <2>3. replayRows' \in {replayRows, Append(replayRows, at[p])} /\ traceRows' \in {traceRows, Append(traceRows, at[p])}
    BY <1>7 DEF AppendReplay, AppendTrace
  <2>4. \A S, s, e : s \in Seq(S) /\ e \in S => Append(s, e) \in Seq(S) OBVIOUS
  <2>5. replayRows' \in Seq(Keys) /\ traceRows' \in Seq(Keys) BY <2>1, <2>2, <2>3, <2>4
  <2> QED BY <1>1, <1>7, <2>5 DEF AppendReplay, AppendTrace, TypeOK, records, reduced
<1>8. CASE WriteAssert(p)
  <2>1. p \in Owners BY <1>8 DEF WriteAssert, Relies, Owners
  <2>2. (asserts \in [Keys -> Owners])' BY <1>8, <2>1 DEF WriteAssert, TypeOK
  <2> QED BY <1>1, <1>8, <2>2 DEF WriteAssert, TypeOK, events, reduced
<1>9. CASE Load(p)
  <2>1. (seen \in [Processes -> SUBSET Keys])' BY <1>9 DEF Load, Count, TypeOK
  <2> QED BY <1>1, <1>9, <2>1 DEF Load, TypeOK, records, events
<1>10. CASE WriteReport(p) \/ WriteMetrics(p)
  <2>1. (doc \in [Docs -> Processes \union {Absent}])' BY <1>10 DEF WriteReport, WriteMetrics, TypeOK
  <2>2. (stored \in SUBSET Keys)' BY <1>10 DEF WriteReport, WriteMetrics, TypeOK, reduced
  <2> QED BY <1>1, <1>10, <2>1, <2>2 DEF WriteReport, WriteMetrics, TypeOK, records, events, reduced
<1>11. CASE AppendTrend(p) \/ Fail(p)
  BY <1>1, <1>11 DEF AppendTrend, Fail, TypeOK, records, events, reduced
<1> QED BY <1>2, <1>3, <1>4, <1>5, <1>6, <1>7, <1>8, <1>9, <1>10, <1>11 DEF Step, RunStep, ReduceStep

-----------------------------------------------------------------------------
LEMMA Inductive ==
  ASSUME ForceAlone, TreeInv, [Next]_vars
  PROVE  TreeInv'
<1>1. ASSUME NEW p \in Processes, Step(p) PROVE TreeInv'
  <2>1. \A q \in Processes : Relies(q)' BY <1>1, ReliesStep
  <2> QED BY <1>1, <2>1, TypeStep, OwnedStep, HeaderStep, ReportStep DEF TreeInv
<1>2. CASE UNCHANGED vars
  <2>1. TypeOK' BY <1>2 DEF TreeInv, TypeOK, vars, records, events, reduced
  <2>2. ASSUME NEW q \in Processes PROVE Relies(q)'
    <3>1. Relies(q) BY DEF TreeInv
    <3> QED BY <1>2, <3>1 DEF vars, records, events, Relies, Cleared, Alone, Live, Empty, Unwritten, NoRows,
                              AllRows, OwnsInputs, OwnsCalls, Full
  <2>3. \E w \in Processes \union {Absent} : OwnedBy(w)'
    BY <1>2 DEF TreeInv, vars, records, OwnedBy
  <2>4. HeaderMeansInputs' /\ ReportNeedsEveryCall'
    BY <1>2 DEF TreeInv, vars, records, HeaderMeansInputs, ReportNeedsEveryCall, Full
  <2> QED BY <2>1, <2>2, <2>3, <2>4 DEF TreeInv
<1> QED BY <1>1, <1>2 DEF Next, Terminated, Step

(* The invariant of the results directory. *)
THEOREM Invariance == ASSUME ForceAlone PROVE Spec => []TreeInv
<1>1. Init => TreeInv BY Initially
<1>2. TreeInv /\ [Next]_vars => TreeInv' BY Inductive
<1> QED BY <1>1, <1>2, PTL DEF Spec

(* Loops stay in range and every file has a writer or is absent. *)
THEOREM TypeCorrect == ASSUME ForceAlone PROVE Spec => []TypeOK
<1>1. TreeInv => TypeOK BY DEF TreeInv
<1> QED BY <1>1, Invariance, PTL

(* report.md and metrics.json are there only over a full set of calls,
   through --force, failures and replays. *)
THEOREM ReportTheorem == ASSUME ForceAlone PROVE Spec => []ReportNeedsEveryCall
<1>1. TreeInv => ReportNeedsEveryCall BY DEF TreeInv
<1> QED BY <1>1, Invariance, PTL

(* run.json is the commit point of write_input_snapshots, however many
   processes race for the directory and wherever they die. *)
THEOREM HeaderTheorem == ASSUME ForceAlone PROVE Spec => []HeaderMeansInputs
<1>1. TreeInv => HeaderMeansInputs BY DEF TreeInv
<1> QED BY <1>1, Invariance, PTL

(* Files created with os.link never come from two runs. *)
THEOREM OwnerTheorem == ASSUME ForceAlone PROVE Spec => []OneOwner
<1>1. TreeInv => OneOwner
  <2> SUFFICES ASSUME TreeInv PROVE OneOwner OBVIOUS
  <2>1. PICK w \in Processes \union {Absent} : OwnedBy(w) BY DEF TreeInv
  <2> DEFINE owners == ({doc[d] : d \in {"config", "rest", "index", "header", "shared"}}
                        \union {dir[k] : dir \in {stages, calls, asserts}, k \in Keys})
                       \ {Absent}
  <2>2. owners \subseteq {w}
    <3>1. \A d \in {"config", "rest", "index", "header", "shared"} : doc[d] \in {w, Absent}
      BY <2>1 DEF OwnedBy, Vouched
    <3>2. \A dir \in {stages, calls, asserts}, k \in Keys : dir[k] \in {w, Absent}
      BY <2>1 DEF OwnedBy
    <3> QED BY <3>1, <3>2
  <2>3. IsFiniteSet({w}) /\ Cardinality({w}) = 1 BY FS_Singleton
  <2> HIDE DEF owners
  <2>4. Cardinality(owners) \in Nat /\ Cardinality(owners) <= 1
    BY <2>2, <2>3, FS_Subset, FS_CardinalityType
  <2> QED BY <2>4 DEF OneOwner, owners
<1> QED BY <1>1, Invariance, PTL

(* _verify_final_tree never finds a fault in the tree of a run that reached it. *)
THEOREM VerifyTheorem == ASSUME ForceAlone PROVE Spec => []VerifyNeverFails
<1>1. TreeInv => VerifyNeverFails BY DEF TreeInv, Relies, VerifyNeverFails, Processes
<1> QED BY <1>1, Invariance, PTL

(* The load of a run that wrote all its files refuses only a temporary of another run. *)
THEOREM RejectionTheorem == ASSUME ForceAlone PROVE Spec => RejectedOnlyForATemporary
<1>1. ASSUME TreeInv, [Next]_vars, NEW p \in Runs, pc[p] = "load", pc'[p] = "rejected"
      PROVE  temps # {}
  <2>1. p \in Processes /\ p # Absent BY ResultTreeAssumption DEF Processes
  <2>2. OwnsInputs(p) /\ OwnsCalls(p) BY <1>1, <2>1 DEF TreeInv, Relies
  <2>3. Full(calls) /\ \A d \in {"header", "index", "config", "rest"} : doc[d] # Absent
    BY <2>1, <2>2 DEF OwnsInputs, OwnsCalls, Full, Vouched
  <2>4. PICK q \in Processes : Step(q) BY <1>1 DEF Next, Terminated, vars, Step
  <2>5. q = p BY <1>1, <2>1, <2>4, OnlyMine DEF TreeInv
  <2>6. Load(p) \/ Fail(p) \/ Crash(p)
    BY <1>1, <2>1, <2>4, <2>5 DEF Finished, Step, RunStep, ReduceStep, StartClean, Refuse, StartForced, ClearNext,
      MakeTemporary, LinkInput, WriteStage, WriteCall, DispatchDone, DispatchStops, AppendReplay, AppendTrace,
      WriteAssert, Verify, StartReplay, WriteReport, WriteMetrics, AppendTrend
  <2>7. Load(p) /\ ~Loadable
    BY <1>1, <2>1, <2>6 DEF TreeInv, TypeOK, Load, Fail, Crash, Goto, FirstOutput
  <2> QED BY <2>3, <2>7 DEF Loadable, CallsComplete, InputsAuthentic
<1>2. TreeInv /\ [Next]_vars => [\A p \in Runs : pc[p] = "load" /\ pc'[p] = "rejected" => temps # {}]_vars
  BY <1>1
<1> QED BY <1>2, Invariance, PTL DEF Spec, RejectedOnlyForATemporary

(* append_trend_once is reached only over a reported, complete tree. *)
THEOREM RowTheorem == ASSUME ForceAlone PROVE Spec => RowOnlyForReportedTree
<1>1. ASSUME TreeInv, [Next]_vars, ~row, row'
      PROVE  doc["report"] # Absent /\ doc["metrics"] # Absent /\ Full(calls)
  <2>1. PICK p \in Processes : Step(p) BY <1>1 DEF Next, Terminated, vars, reduced, Step
  <2>2. AppendTrend(p)
    BY <1>1, <2>1 DEF Step, RunStep, ReduceStep, StartClean, Refuse, StartForced, ClearNext,
      MakeTemporary, LinkInput, WriteStage, WriteCall, DispatchDone, DispatchStops, AppendReplay, AppendTrace,
      WriteAssert, Verify, StartReplay, Load, WriteReport, WriteMetrics, Fail, Crash, reduced
  <2> QED BY <1>1, <2>2 DEF AppendTrend, TreeInv, Relies
<1>2. TreeInv /\ [Next]_vars => [~row /\ row' => doc["report"] # Absent /\ doc["metrics"] # Absent /\ Full(calls)]_vars
  BY <1>1
<1> QED BY <1>2, Invariance, PTL DEF Spec, RowOnlyForReportedTree
=============================================================================
