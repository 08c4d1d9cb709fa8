------------------------------ MODULE Dispatch ------------------------------
(***************************************************************************)
(* The call pool of a structured run: _run_structured submits work items   *)
(* to a ThreadPoolExecutor, collects their futures in batches, adds up     *)
(* what the cache misses cost and stops at token_budget.max_cost_usd.      *)
(* Each worker thread runs _run_one: cache lookup, execution, the stage    *)
(* file and the call file.                                                 *)
(*                                                                         *)
(* One work item is one (version, item, sample), numbered in submission    *)
(* order.  Costs are natural numbers.  Any step of _run_one outside its    *)
(* try block may raise when MayRaise is TRUE.                              *)
(***************************************************************************)
EXTENDS Naturals, FiniteSets

CONSTANTS
  WorkCount,     \* len(work_items)
  Jobs,          \* cfg.jobs
  CapCost,       \* token_budget.max_cost_usd
  MaxCallCost,   \* the largest cost_usd of one envelope
  NoCache,       \* the --no-cache flag
  MayRaise       \* whether a probe or a file write of _run_one can fail

ASSUME DispatchAssumption ==
  /\ WorkCount \in Nat \ {0}
  /\ Jobs \in Nat \ {0}
  /\ CapCost \in Nat
  /\ MaxCallCost \in Nat
  /\ NoCache \in BOOLEAN
  /\ MayRaise \in BOOLEAN

Work == 1..WorkCount
Costs == 0..MaxCallCost

VARIABLES
  main,            \* where the coordinating thread stands
  failure,         \* an exception is leaving the with-block
  nextWork,        \* next_work
  futures,         \* keys of the futures dict, as work indices
  cursor,          \* what the current for-loop of the main thread has left
  st,              \* st[w]: the future of w and where its _run_one stands
  cache,           \* cache[w]: the "cache" field of w's call record
  cost,            \* cost[w]: cost_usd of w's envelope
  charged,         \* charged[w]: what the provider charged for w
  completed,       \* results the main thread has appended
  spent,           \* spent
  budgetReached,   \* budget_reached
  stages,          \* stage files on disk
  calls            \* call files on disk

mainVars == <<main, failure, nextWork, futures, cursor, completed, spent, budgetReached>>
callVars == <<cache, cost, charged, stages, calls>>
vars == <<mainVars, st, callVars>>

RunningStates == {"lookup", "execute", "write_stage", "write_call"}
(* Variant: a cancelled future is never reported as done. *)
DoneStatesWithoutCancelled == {"finished", "failed"}

DoneStates == {"finished", "failed", "notified"}
States == {"unsubmitted", "pending", "cancelled"} \union RunningStates \union DoneStates

Running == {w \in Work : st[w] \in RunningStates}
Queue == {w \in Work : st[w] \in {"pending", "cancelled"}}
IsLeast(w, S) == w \in S /\ \A v \in S : w <= v

Init ==
  /\ main = "fill"
  /\ failure = FALSE
  /\ nextWork = 1
  /\ futures = {}
  /\ cursor = {}
  /\ st = [w \in Work |-> "unsubmitted"]
  /\ cache = [w \in Work |-> "none"]
  /\ cost = [w \in Work |-> 0]
  /\ charged = [w \in Work |-> 0]
  /\ completed = {}
  /\ spent = 0
  /\ budgetReached = FALSE
  /\ stages = {}
  /\ calls = {}

-----------------------------------------------------------------------------
(* The coordinating thread. *)

CapReached == spent > 0 /\ spent >= CapCost

(* Variant: the pool is filled one item too far. *)
CanSubmitPastTheEnd ==
  /\ ~budgetReached
  /\ nextWork <= WorkCount + 1
  /\ Cardinality(futures) < Jobs

CanSubmit ==
  /\ ~budgetReached
  /\ nextWork <= WorkCount
  /\ Cardinality(futures) < Jobs

(* submit(next_work), in the initial fill and after each batch. *)
Submit ==
  /\ main = "fill"
  /\ CanSubmit
  /\ futures' = futures \union {nextWork}
  /\ st' = [st EXCEPT ![nextWork] = "pending"]
  /\ nextWork' = nextWork + 1
  /\ UNCHANGED <<main, failure, cursor, completed, spent, budgetReached, callVars>>

(* Variant: the loop ends as soon as the budget is reached. *)
NothingLeftAtCap == futures = {} \/ budgetReached
NothingLeft == futures = {}

(* Nothing more to submit: the test of `while futures`. *)
LoopTest ==
  /\ main = "fill"
  /\ ~CanSubmit
  /\ main' = IF NothingLeft THEN "join" ELSE "wait"
  /\ UNCHANGED <<failure, nextWork, futures, cursor, completed, spent, budgetReached, st, callVars>>

(* wait(futures, return_when=FIRST_COMPLETED): CANCELLED is not yet done,
   a worker has to notify it first. *)
WaitFirst ==
  LET done == {w \in futures : st[w] \in DoneStates} IN
  /\ main = "wait"
  /\ done # {}
  /\ cursor' = done
  /\ main' = "collect"
  /\ UNCHANGED <<failure, nextWork, futures, completed, spent, budgetReached, st, callVars>>

(* One future of the batch, in index order: `if future.cancelled(): continue`. *)
SkipCancelled(w) ==
  /\ main = "collect"
  /\ IsLeast(w, cursor)
  /\ st[w] = "notified"
  /\ futures' = futures \ {w}
  /\ cursor' = cursor \ {w}
  /\ UNCHANGED <<main, failure, nextWork, completed, spent, budgetReached, st, callVars>>

(* Variants: the cost of a cached envelope is charged again; the first
   tier's charge is added to an envelope cost that contains it. *)
ChargeAlways(w) == cost[w]
ChargeTwice(w) == IF cache[w] = "miss" THEN charged[w] + cost[w] ELSE 0
Charge(w) == IF cache[w] = "miss" THEN cost[w] ELSE 0

(* future.result() returns: append it and charge a cache miss. *)
TakeResult(w) ==
  /\ main = "collect"
  /\ IsLeast(w, cursor)
  /\ st[w] = "finished"
  /\ futures' = futures \ {w}
  /\ cursor' = cursor \ {w}
  /\ completed' = completed \union {w}
  /\ spent' = spent + Charge(w)
  /\ UNCHANGED <<main, failure, nextWork, budgetReached, st, callVars>>

(* future.result() raises: the exception leaves the with-block, whose exit
   waits for every submitted call, started or not. *)
Propagate(w) ==
  /\ main = "collect"
  /\ IsLeast(w, cursor)
  /\ st[w] = "failed"
  /\ futures' = futures \ {w}
  /\ cursor' = {}
  /\ failure' = TRUE
  /\ main' = "join"
  /\ UNCHANGED <<nextWork, completed, spent, budgetReached, st, callVars>>

(* The batch is collected: compare what was spent with the cap. *)
Tally ==
  /\ main = "collect"
  /\ cursor = {}
  /\ IF CapReached
     THEN budgetReached' = TRUE /\ cursor' = futures /\ main' = "sweep"
     ELSE main' = "fill" /\ UNCHANGED <<budgetReached, cursor>>
  /\ UNCHANGED <<failure, nextWork, futures, completed, spent, st, callVars>>

(* Variant: queued futures are left to run. *)
LeftAlone(w) == st[w]
Cancel(w) == IF st[w] = "pending" THEN "cancelled" ELSE st[w]

(* future.cancel(), one future at a time, while workers keep running: only
   a future no worker has taken yet can be cancelled. *)
Sweep(w) ==
  /\ main = "sweep"
  /\ IsLeast(w, cursor)
  /\ cursor' = cursor \ {w}
  /\ st' = [st EXCEPT ![w] = Cancel(w)]
  /\ UNCHANGED <<main, failure, nextWork, futures, completed, spent, budgetReached, callVars>>

SweepDone ==
  /\ main = "sweep"
  /\ cursor = {}
  /\ main' = "fill"
  /\ UNCHANGED <<failure, nextWork, futures, cursor, completed, spent, budgetReached, st, callVars>>

(* Variant: a run stopped by its budget goes on to its reports. *)
RaisesUnlessBudget == failure
Raises == failure \/ budgetReached

(* The with-block's exit joins the workers; then either the exception goes
   on, or the budget error is raised, or the run goes on to its reports. *)
Join ==
  /\ main = "join"
  /\ Queue \union Running = {}
  /\ main' = IF Raises THEN "raised" ELSE "dispatched"
  /\ UNCHANGED <<failure, nextWork, futures, cursor, completed, spent, budgetReached, st, callVars>>

-----------------------------------------------------------------------------
(* The worker threads. *)

(* Variant: the queue is not first-in, first-out. *)
AnyInQueue(w) == w \in Queue
Oldest(w) == IsLeast(w, Queue)

(* A free worker takes the oldest future: it runs it, or notices that it
   was cancelled. *)
Start(w) ==
  /\ Oldest(w)
  /\ Cardinality(Running) < Jobs
  /\ st' = [st EXCEPT ![w] = IF st[w] = "pending" THEN "lookup" ELSE "notified"]
  /\ UNCHANGED <<mainVars, callVars>>

(* A cached envelope is used as it is, cost included. *)
Hit(w) ==
  /\ st[w] = "lookup"
  /\ ~NoCache
  /\ \E c \in Costs :
       /\ cache' = [cache EXCEPT ![w] = "hit"]
       /\ cost' = [cost EXCEPT ![w] = c]
  /\ st' = [st EXCEPT ![w] = "write_stage"]
  /\ UNCHANGED <<mainVars, charged, stages, calls>>

Miss(w) ==
  /\ st[w] = "lookup"
  /\ st' = [st EXCEPT ![w] = "execute"]
  /\ UNCHANGED <<mainVars, callVars>>

(* executor.run returns an envelope and the cache entry is stored. *)
Execute(w) ==
  /\ st[w] = "execute"
  /\ \E c \in Costs :
       /\ charged' = [charged EXCEPT ![w] = c]
       /\ cost' = [cost EXCEPT ![w] = c]
  /\ cache' = [cache EXCEPT ![w] = "miss"]
  /\ st' = [st EXCEPT ![w] = "write_stage"]
  /\ UNCHANGED <<mainVars, stages, calls>>

(* Anything in the try block raises, before or after the provider charged:
   the call becomes a stage error whose envelope costs nothing. *)
ExecuteError(w) ==
  /\ st[w] = "execute"
  /\ \E c \in Costs : charged' = [charged EXCEPT ![w] = c]
  /\ cost' = [cost EXCEPT ![w] = 0]
  /\ cache' = [cache EXCEPT ![w] = "miss"]
  /\ st' = [st EXCEPT ![w] = "write_stage"]
  /\ UNCHANGED <<mainVars, stages, calls>>

WriteStage(w) ==
  /\ st[w] = "write_stage"
  /\ stages' = stages \union {w}
  /\ st' = [st EXCEPT ![w] = "write_call"]
  /\ UNCHANGED <<mainVars, cache, cost, charged, calls>>

WriteCall(w) ==
  /\ st[w] = "write_call"
  /\ calls' = calls \union {w}
  /\ st' = [st EXCEPT ![w] = "finished"]
  /\ UNCHANGED <<mainVars, cache, cost, charged, stages>>

(* A probe or a write outside the try block raises; a failed write may have
   linked its file already. *)
Raise(w) ==
  /\ MayRaise
  /\ \/ st[w] = "lookup" /\ UNCHANGED <<stages, calls>>
     \/ st[w] = "write_stage" /\ stages' \in {stages, stages \union {w}} /\ UNCHANGED calls
     \/ st[w] = "write_call" /\ calls' \in {calls, calls \union {w}} /\ UNCHANGED stages
  /\ st' = [st EXCEPT ![w] = "failed"]
  /\ UNCHANGED <<mainVars, cache, cost, charged>>

-----------------------------------------------------------------------------
Collect(w) == SkipCancelled(w) \/ TakeResult(w) \/ Propagate(w)

MainStep ==
  \/ Submit \/ LoopTest \/ WaitFirst \/ Tally \/ SweepDone \/ Join
  \/ \E w \in Work : Collect(w) \/ Sweep(w)

RunStep(w) ==
  \/ Hit(w) \/ Miss(w) \/ Execute(w) \/ ExecuteError(w)
  \/ WriteStage(w) \/ WriteCall(w) \/ Raise(w)

WorkerStep == \E w \in Work : Start(w) \/ RunStep(w)

(* The run has left the dispatch loop. *)
Terminated ==
  /\ main \in {"dispatched", "raised"}
  /\ UNCHANGED vars

Next == MainStep \/ WorkerStep \/ Terminated

Spec == Init /\ [][Next]_vars

(* The main thread and every thread inside _run_one are scheduled; the
   executor has its own timeout, so Execute or ExecuteError happens. *)
Fairness ==
  /\ WF_vars(MainStep)
  /\ \A w \in Work : WF_vars(Start(w)) /\ WF_vars(RunStep(w))

FairSpec == Spec /\ Fairness

-----------------------------------------------------------------------------
(* Properties. *)

(* Every variable stays in its type. *)
TypeOK ==
  /\ main \in {"fill", "wait", "collect", "sweep", "join", "dispatched", "raised"}
  /\ failure \in BOOLEAN
  /\ nextWork \in 1..(WorkCount + 1)
  /\ futures \in SUBSET Work
  /\ cursor \in SUBSET Work
  /\ st \in [Work -> States]
  /\ cache \in [Work -> {"none", "hit", "miss"}]
  /\ cost \in [Work -> Costs]
  /\ charged \in [Work -> Costs]
  /\ completed \in SUBSET Work
  /\ spent \in Nat
  /\ budgetReached \in BOOLEAN
  /\ stages \in SUBSET Work
  /\ calls \in SUBSET Work

(* What a run reports as spent stays below the cap plus one full pool of
   calls: only the calls in the pool when the cap is passed can overshoot.
   With a cap of zero, the first pool of calls is still paid. *)
OvershootBounded ==
  \/ spent < CapCost + Jobs * MaxCallCost
  \/ CapCost = 0 /\ spent <= Jobs * MaxCallCost

(* Once the main thread has cancelled what it can after reaching the cap, no
   call starts executing any more, in whatever order workers and main thread
   met during the cancellation. *)
NothingStartsOnceStopped ==
  [][budgetReached /\ main # "sweep" =>
       \A w \in Work : st'[w] \in RunningStates => st[w] \in RunningStates]_vars

(* A run that goes on to its reports has collected the result of every work
   item, and the stage file and the call file of each are on disk. *)
DispatchedMeansEveryCall ==
  main = "dispatched" => completed = Work /\ calls = Work /\ stages = Work

(* A run stopped by its budget has drained its pool: every call file and
   every stage file on disk is of a call whose cost was added up. *)
StoppedRunAccountsItsFiles ==
  main = "raised" /\ ~failure => calls = completed /\ stages = completed

(* What the collected cache misses cost, and the sum over all items. *)
MissCosts == [w \in Work |-> IF w \in completed /\ cache[w] = "miss" THEN cost[w] ELSE 0]
SumOf(m) ==
  LET sum[n \in 0..WorkCount] == IF n = 0 THEN 0 ELSE sum[n - 1] + m[n]
  IN sum[WorkCount]

(* The cost the main thread has added up is the sum of cost_usd over the
   collected cache misses, whatever the order their futures finished in: a
   cached envelope is never charged, and no call is charged a second time. *)
SpentIsTheMissesCost == spent = SumOf(MissCosts)

(* The pool implements the batch contract: sent in order, once, at most Jobs
   at a time; complete only if every call settled. *)
BatchPhase ==
  [w \in Work |-> CASE st[w] \in RunningStates -> "sent"
                    [] st[w] = "finished" -> "settled"
                    [] st[w] = "failed" -> "lost"
                    [] OTHER -> "unsent"]

BatchVerdict ==
  CASE main = "dispatched" -> "complete"
    [] main = "raised" -> "raised"
    [] OTHER -> "running"

Batch == INSTANCE EvaluationBatch WITH phase <- BatchPhase, verdict <- BatchVerdict

ImplementsBatch == Batch!Spec

(* The inductive invariant behind the four safety properties, by parts. *)

(* The futures dict: at most Jobs futures, all of submitted items. *)
PoolInv ==
  /\ futures \subseteq 1..(nextWork - 1)
  /\ cursor \subseteq futures
  /\ Cardinality(futures) <= Jobs

(* A submitted item is in the dict until it was collected, skipped as
   cancelled, or left behind by an exception. *)
FutureInv ==
  \A w \in Work :
    /\ st[w] = "unsubmitted" <=> w >= nextWork
    /\ st[w] \in {"cancelled", "notified"} => budgetReached
    /\ w < nextWork => \/ w \in futures
                       \/ w \in completed
                       \/ st[w] = "notified"
                       \/ failure
    /\ w \in completed => st[w] = "finished"

(* What is queued comes after everything a worker has started. *)
Started == {w \in Work : st[w] \in RunningStates \union {"finished", "failed"}}
OrderInv == \A w \in Queue, v \in Started : v < w

(* The files of a call follow its progress. *)
FileInv ==
  \A w \in Work :
    /\ w \in calls => st[w] \in {"finished", "failed"}
    /\ w \in stages => st[w] \in {"write_call", "finished", "failed"}
    /\ st[w] \in {"write_call", "finished"} => w \in stages
    /\ st[w] = "finished" => w \in calls

(* Room for every future still in the dict to cost the maximum. *)
BudgetInv ==
  /\ \/ spent + MaxCallCost * Cardinality(futures) < CapCost + MaxCallCost * Jobs
     \/ CapCost = 0 /\ spent + MaxCallCost * Cardinality(futures) <= MaxCallCost * Jobs
  /\ main = "fill" /\ ~budgetReached => ~CapReached

(* After the cap, only the futures the sweep has not visited can start. *)
StopInv ==
  \A w \in Work :
    st[w] = "pending" /\ budgetReached => main = "sweep" /\ w \in cursor

(* The control state of the main thread. *)
ControlInv ==
  /\ main = "sweep" => budgetReached
  /\ failure => main \in {"join", "raised"}
  /\ main \in {"join", "dispatched", "raised"} /\ ~failure =>
       futures = {} /\ (budgetReached \/ nextWork = WorkCount + 1)
  /\ main \in {"dispatched", "raised"} => Queue \union Running = {}
  /\ main = "dispatched" => ~failure /\ ~budgetReached
  /\ main = "raised" => failure \/ budgetReached

DispatchInv ==
  /\ TypeOK
  /\ PoolInv
  /\ FutureInv
  /\ OrderInv
  /\ FileInv
  /\ BudgetInv
  /\ StopInv
  /\ ControlInv

(* No result is appended that is still to be collected. *)
AccountInv ==
  /\ futures \intersect completed = {}
  /\ SpentIsTheMissesCost

(* Whatever fails, is cancelled or costs too much, the main thread leaves the
   dispatch loop: no wait on a future that no worker will ever finish. *)
LeavesDispatch == <>(main \in {"dispatched", "raised"})
=============================================================================
