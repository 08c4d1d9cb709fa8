----------------------------- MODULE ResultTree -----------------------------
(***************************************************************************)
(* The life of one structured results directory: _run_structured processes *)
(* that were given the same run_dir (same config, same second), replays of *)
(* that directory, and processes that die at any step.                     *)
(*                                                                         *)
(* A file is known by who wrote it.  "rest" stands for the manifest, item  *)
(* and request snapshots, "shared" for the shared dependency stages.       *)
(* Reading a tree is one step; every write is one.                         *)
(***************************************************************************)
EXTENDS Naturals, Sequences, FiniteSets

CONSTANTS
  Runs,        \* processes that execute _run_structured
  Forced,      \* those started with --force
  Replays,     \* processes that execute replay
  CallCount,   \* number of (version, item, sample) keys, in sorted order
  ForceAlone,  \* --force is used only when no other process uses the tree
  Absent       \* no such file

Processes == Runs \union Replays
Keys == 1..CallCount

ASSUME ResultTreeAssumption ==
  /\ CallCount \in Nat \ {0}
  /\ Forced \subseteq Runs
  /\ Runs \intersect Replays = {}
  /\ Absent \notin Processes
  /\ ForceAlone \in BOOLEAN

VARIABLES
  pc,          \* pc[p]: where p stands
  at,          \* at[p]: how far p's current loop has come
  doc,         \* the single files of the tree and who wrote them
  stages,      \* stages/: one classify stage per key
  calls,       \* calls/
  asserts,     \* asserts/
  replayRows,  \* replay.jsonl
  traceRows,   \* trace.jsonl
  temps,       \* who left a temporary file in inputs/
  seen,        \* seen[p]: the number of assert records p loaded
  stored,      \* stored_assert_records of metrics.json
  row          \* the trends file has a row of this run_id

records == <<stages, calls, asserts>>
events == <<replayRows, traceRows>>
reduced == <<seen, stored, row>>
vars == <<pc, at, doc, records, events, temps, reduced>>

Docs == {"config", "rest", "index", "header", "shared", "report", "metrics"}
NoFiles == [k \in Keys |-> Absent]
Full(dir) == \A k \in Keys : dir[k] # Absent
Count(dir) == {k \in Keys : dir[k] # Absent}

Finished == {"refused", "rejected", "inconsistent", "raised", "crashed", "ok"}
Live(p) == pc[p] \notin Finished \union {"start"}

Init ==
  /\ pc = [p \in Processes |-> "start"]
  /\ at = [p \in Processes |-> 1]
  /\ doc = [d \in Docs |-> Absent]
  /\ stages = NoFiles
  /\ calls = NoFiles
  /\ asserts = NoFiles
  /\ replayRows = <<>>
  /\ traceRows = <<>>
  /\ temps = {}
  /\ seen = [p \in Processes |-> {}]
  /\ stored = {}
  /\ row = FALSE

Goto(p, place) == pc' = [pc EXCEPT ![p] = place] /\ at' = [at EXCEPT ![p] = 1]
Loop(p) == at' = [at EXCEPT ![p] = @ + 1] /\ UNCHANGED pc

-----------------------------------------------------------------------------
(* The stale guard and --force. *)

(* Variant: only the snapshots and the single files count as stale. *)
StaleDocsOnly == (\E d \in Docs : doc[d] # Absent) \/ temps # {}

(* structured_stale_files: anything in the owned layout. *)
Stale ==
  \/ \E d \in Docs : doc[d] # Absent
  \/ \E k \in Keys : Absent # stages[k] \/ Absent # calls[k] \/ Absent # asserts[k]
  \/ replayRows # <<>> \/ traceRows # <<>>
  \/ temps # {}

(* Variant: the files are removed in sorted order. *)
ClearSorted ==
  <<"asserts", "calls", "temps", "config", "index", "rest", "metrics", "replay",
    "report", "header", "stages", "trace">>

(* Files go in reversed path order: the header goes before the snapshots it
   authenticates, the reports go before the calls they reduce. *)
ClearOrder ==
  <<"trace", "stages", "header", "report", "replay", "metrics", "rest", "index",
    "config", "temps", "calls", "asserts">>

MayStart(p) ==
  ForceAlone =>
    /\ p \in Forced => \A q \in Processes : ~Live(q)
    /\ \A q \in Forced : pc[q] # "clear"

(* check_structured_stale_results_dir on a directory that has no owned file. *)
StartClean(p) ==
  /\ pc[p] = "start" /\ p \in Runs
  /\ MayStart(p)
  /\ ~Stale
  /\ Goto(p, "inputs")
  /\ UNCHANGED <<doc, records, events, temps, reduced>>

(* Stale files and no --force: exit status 4, nothing touched. *)
Refuse(p) ==
  /\ pc[p] = "start" /\ p \in Runs \ Forced
  /\ MayStart(p)
  /\ Stale
  /\ Goto(p, "refused")
  /\ UNCHANGED <<doc, records, events, temps, reduced>>

StartForced(p) ==
  /\ pc[p] = "start" /\ p \in Forced
  /\ MayStart(p)
  /\ Stale
  /\ Goto(p, "clear")
  /\ UNCHANGED <<doc, records, events, temps, reduced>>

(* One unlink of the list made by the guard, one class of files at a time. *)
ClearNext(p) ==
  LET gone == ClearOrder[at[p]] IN
  /\ pc[p] = "clear"
  /\ doc' = [d \in Docs |->
       IF d = gone \/ (d = "shared" /\ gone = "stages") THEN Absent ELSE doc[d]]
  /\ stages' = IF gone = "stages" THEN NoFiles ELSE stages
  /\ calls' = IF gone = "calls" THEN NoFiles ELSE calls
  /\ asserts' = IF gone = "asserts" THEN NoFiles ELSE asserts
  /\ replayRows' = IF gone = "replay" THEN <<>> ELSE replayRows
  /\ traceRows' = IF gone = "trace" THEN <<>> ELSE traceRows
  /\ temps' = IF gone = "temps" THEN {} ELSE temps
  /\ IF at[p] = Len(ClearOrder) THEN Goto(p, "inputs") ELSE Loop(p)
  /\ UNCHANGED reduced

-----------------------------------------------------------------------------
(* write_input_snapshots and _shared_refs. *)

(* Variant: the header is written before the snapshots it vouches for. *)
HeaderFirst == <<"header", "config", "rest", "index", "shared">>

InputOrder == <<"config", "rest", "index", "header", "shared">>
InInputs(d) == d \in {"config", "rest", "index"}

(* mkstemp in inputs/ before the link of an input snapshot. *)
MakeTemporary(p) ==
  /\ pc[p] = "inputs"
  /\ InInputs(InputOrder[at[p]])
  /\ p \notin temps
  /\ temps' = temps \union {p}
  /\ UNCHANGED <<pc, at, doc, records, events, reduced>>

(* os.link and unlink of the temporary: the file is new, or the run loses. *)
LinkInput(p) ==
  LET d == InputOrder[at[p]] IN
  /\ pc[p] = "inputs"
  /\ InInputs(d) => p \in temps
  /\ temps' = temps \ {p}
  /\ IF doc[d] # Absent
     THEN Goto(p, "raised") /\ UNCHANGED doc
     ELSE /\ doc' = [doc EXCEPT ![d] = p]
          /\ IF at[p] = Len(InputOrder) THEN Goto(p, "dispatch") ELSE Loop(p)
  /\ UNCHANGED <<records, events, reduced>>

-----------------------------------------------------------------------------
(* The pool, as the tree sees it (module Dispatch has the detail). *)

(* A worker writes its stage file, then its call file; a file that is there
   already raises out of the pool. *)
WriteStage(p, k) ==
  /\ pc[p] = "dispatch"
  /\ stages[k] # p
  /\ IF stages[k] # Absent
     THEN Goto(p, "raised") /\ UNCHANGED stages
     ELSE stages' = [stages EXCEPT ![k] = p] /\ UNCHANGED <<pc, at>>
  /\ UNCHANGED <<doc, calls, asserts, events, temps, reduced>>

WriteCall(p, k) ==
  /\ pc[p] = "dispatch"
  /\ stages[k] = p
  /\ calls[k] # p
  /\ IF calls[k] # Absent
     THEN Goto(p, "raised") /\ UNCHANGED calls
     ELSE calls' = [calls EXCEPT ![k] = p] /\ UNCHANGED <<pc, at>>
  /\ UNCHANGED <<doc, stages, asserts, events, temps, reduced>>

(* Variant: the run goes on while its last call is still out. *)
AllButLast(p) == \A k \in 1..(CallCount - 1) : calls[k] = p
AllCalls(p) == \A k \in Keys : calls[k] = p

DispatchDone(p) ==
  /\ pc[p] = "dispatch"
  /\ AllCalls(p)
  /\ Goto(p, "replay")
  /\ UNCHANGED <<doc, records, events, temps, reduced>>

(* The budget error or a worker's exception, with whatever was drained; the
   budget can be reached by the very last call. *)
DispatchStops(p) ==
  /\ pc[p] = "dispatch"
  /\ Goto(p, "raised")
  /\ UNCHANGED <<doc, records, events, temps, reduced>>

-----------------------------------------------------------------------------
(* Event rows and assert records, in key order. *)

AppendReplay(p) ==
  /\ pc[p] = "replay"
  /\ replayRows' = Append(replayRows, at[p])
  /\ pc' = [pc EXCEPT ![p] = "trace"]
  /\ UNCHANGED <<at, doc, records, traceRows, temps, reduced>>

LastKey(n) == n = CallCount

AppendTrace(p) ==
  /\ pc[p] = "trace"
  /\ traceRows' = Append(traceRows, at[p])
  /\ IF LastKey(at[p])
     THEN Goto(p, "asserts")
     ELSE pc' = [pc EXCEPT ![p] = "replay"] /\ at' = [at EXCEPT ![p] = @ + 1]
  /\ UNCHANGED <<doc, records, replayRows, temps, reduced>>

(* Variant: the last key gets no assert record. *)
AssertsEarly(n) == n >= CallCount - 1
AssertsDone(n) == n = CallCount

WriteAssert(p) ==
  LET k == at[p] IN
  /\ pc[p] = "asserts"
  /\ IF asserts[k] # Absent
     THEN Goto(p, "raised") /\ UNCHANGED asserts
     ELSE /\ asserts' = [asserts EXCEPT ![k] = p]
          /\ IF AssertsDone(k) THEN Goto(p, "load") ELSE Loop(p)
  /\ UNCHANGED <<doc, stages, calls, events, temps, reduced>>

-----------------------------------------------------------------------------
(* Loading, rendering, verifying: a run and a replay do the same. *)

(* _load_run authenticates header, index and a closed set of snapshots. *)
InputsAuthentic ==
  /\ \A d \in {"header", "index", "config", "rest"} : doc[d] # Absent
  /\ temps = {}

(* summarize refuses anything but the full set of calls. *)
CallsComplete == Full(calls)
Loadable == InputsAuthentic /\ CallsComplete

StartReplay(p) ==
  /\ pc[p] = "start" /\ p \in Replays
  /\ MayStart(p)
  /\ Goto(p, "load")
  /\ UNCHANGED <<doc, records, events, temps, reduced>>

(* Variant: the trend row comes before the report pair. *)
TrendFirst == "trend"
FirstOutput == "report"

Load(p) ==
  /\ pc[p] = "load"
  /\ Goto(p, IF Loadable THEN FirstOutput ELSE "rejected")
  /\ seen' = [seen EXCEPT ![p] = Count(asserts)]
  /\ UNCHANGED <<doc, records, events, temps, stored, row>>

WriteReport(p) ==
  /\ pc[p] = "report"
  /\ doc' = [doc EXCEPT !["report"] = p]
  /\ Goto(p, "metrics")
  /\ UNCHANGED <<records, events, temps, reduced>>

WriteMetrics(p) ==
  /\ pc[p] = "metrics"
  /\ doc' = [doc EXCEPT !["metrics"] = p]
  /\ stored' = seen[p]
  /\ Goto(p, "trend")
  /\ UNCHANGED <<records, events, temps, seen, row>>

(* append_trend_once: the row of this run_id is there from now on. *)
AppendTrend(p) ==
  /\ pc[p] = "trend"
  /\ row' = TRUE
  /\ Goto(p, IF p \in Runs THEN "verify" ELSE "ok")
  /\ UNCHANGED <<doc, records, events, temps, seen, stored>>

Consistent ==
  /\ Full(calls) /\ Full(asserts) /\ Full(stages)
  /\ doc["shared"] # Absent /\ doc["report"] # Absent /\ doc["metrics"] # Absent
  /\ replayRows = [k \in Keys |-> k]
  /\ traceRows = [k \in Keys |-> k]

(* _verify_final_tree, after the report and the trend row. *)
Verify(p) ==
  /\ pc[p] = "verify"
  /\ Goto(p, IF Consistent THEN "ok" ELSE "inconsistent")
  /\ UNCHANGED <<doc, records, events, temps, reduced>>

-----------------------------------------------------------------------------
(* A file operation raises: the temporary is unlinked on the way out. *)
Fail(p) ==
  /\ Live(p)
  /\ Goto(p, "raised")
  /\ temps' = temps \ {p}
  /\ UNCHANGED <<doc, records, events, reduced>>

(* The process dies where it stands. *)
Crash(p) ==
  /\ Live(p)
  /\ Goto(p, "crashed")
  /\ UNCHANGED <<doc, records, events, temps, reduced>>

Terminated ==
  /\ \A p \in Processes : pc[p] \in Finished
  /\ UNCHANGED vars

RunStep(p) ==
  \/ StartClean(p) \/ Refuse(p) \/ StartForced(p) \/ ClearNext(p)
  \/ MakeTemporary(p) \/ LinkInput(p)
  \/ \E k \in Keys : WriteStage(p, k) \/ WriteCall(p, k)
  \/ DispatchDone(p) \/ DispatchStops(p)
  \/ AppendReplay(p) \/ AppendTrace(p) \/ WriteAssert(p)
  \/ Verify(p)

ReduceStep(p) ==
  StartReplay(p) \/ Load(p) \/ WriteReport(p) \/ WriteMetrics(p) \/ AppendTrend(p)

Next ==
  \/ \E p \in Processes : RunStep(p) \/ ReduceStep(p) \/ Fail(p) \/ Crash(p)
  \/ Terminated

Spec == Init /\ [][Next]_vars

-----------------------------------------------------------------------------
Owners == Runs \union {Absent}
Places == Finished \union {"start", "clear", "inputs", "dispatch", "replay", "trace", "asserts",
                          "load", "report", "metrics", "trend", "verify"}

TypeOK ==
  /\ pc \in [Processes -> Places]
  /\ at \in [Processes -> Nat \ {0}]
  /\ doc \in [Docs -> Processes \union {Absent}]
  /\ stages \in [Keys -> Owners] /\ calls \in [Keys -> Owners] /\ asserts \in [Keys -> Owners]
  /\ replayRows \in Seq(Keys) /\ traceRows \in Seq(Keys)
  /\ temps \subseteq Runs
  /\ seen \in [Processes -> SUBSET Keys]
  /\ stored \in SUBSET Keys
  /\ row \in BOOLEAN

(* A report is never seen over a tree that lacks one of its calls, also when
   --force or a replay died half way. *)
ReportNeedsEveryCall ==
  (doc["report"] # Absent \/ doc["metrics"] # Absent) => Full(calls)

(* run.json is the commit point of the inputs: while it is there, all it
   vouches for is there and comes from the same run. *)
HeaderMeansInputs ==
  \A d \in {"config", "rest", "index"} : doc["header"] # Absent => doc[d] = doc["header"]

(* Whatever races, dies or clears: inputs, stages, calls and assert records
   never come from two runs. *)
OneOwner ==
  Cardinality(({doc[d] : d \in {"config", "rest", "index", "header", "shared"}}
               \union {dir[k] : dir \in {stages, calls, asserts}, k \in Keys})
              \ {Absent}) <= 1

(* The final integrity check never fails: the run that got its files into
   the tree finds it complete and in order. *)
VerifyNeverFails == \A p \in Runs : pc[p] # "inconsistent"

(* A run that wrote all its calls is refused by its own load only for a
   temporary file that a losing run left in inputs/. *)
RejectedOnlyForATemporary ==
  [][\A p \in Runs : pc[p] = "load" /\ pc'[p] = "rejected" => temps # {}]_vars

(* A trend row enters the ledger only for a tree that has its report pair
   and every call. *)
RowOnlyForReportedTree ==
  [][~row /\ row' => doc["report"] # Absent /\ doc["metrics"] # Absent /\ Full(calls)]_vars

(* "Replay regenerates metrics.json byte-for-byte": once a run has returned
   and everyone is done, metrics.json counts every assert record. *)
ReplayKeepsMetrics ==
  (/\ \A p \in Processes : ~Live(p)
   /\ \E p \in Runs : pc[p] = "ok" /\ doc["header"] = p
   /\ doc["metrics"] # Absent)
  => stored = Keys
=============================================================================
