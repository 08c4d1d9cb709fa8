--------------------------- MODULE DispatchProofs ---------------------------
(***************************************************************************)
(* Proofs that the call pool of Dispatch keeps its budget, files and order *)
(* for every number of work items, workers, cap and call cost.             *)
(***************************************************************************)
EXTENDS Dispatch, FiniteSetTheorems, WellFoundedInduction, TLAPS

-----------------------------------------------------------------------------
(* Facts about the futures dict. *)

(* The dict is a finite set: it holds work indices only. *)
LEMMA FuturesFinite ==
  ASSUME TypeOK
  PROVE  /\ IsFiniteSet(futures)
         /\ Cardinality(futures) \in Nat
<1>1. IsFiniteSet(Work)
  BY FS_Interval, DispatchAssumption DEF Work
<1>2. IsFiniteSet(futures)
  BY <1>1, FS_Subset DEF TypeOK
<1> QED
  BY <1>2, FS_CardinalityType

(* The reserve kept for one future pays for the call it turns out to be. *)
LEMMA Reserve ==
  ASSUME NEW m \in Nat, NEW k \in Nat
  PROVE  /\ m * (k + 1) = m * k + m
         /\ m * k \in Nat
OBVIOUS

(* A larger pool needs no smaller reserve. *)
LEMMA ReserveGrows ==
  ASSUME NEW m \in Nat, NEW j \in Nat, NEW k \in Nat, j <= k
  PROVE  m * j <= m * k
<1>1. m * k = m * j + m * (k - j) /\ k - j \in Nat
  OBVIOUS
<1>2. m * (k - j) \in Nat
  BY <1>1
<1> QED
  BY <1>1, <1>2

-----------------------------------------------------------------------------
(* The first state. *)

(* Init establishes every part of the invariant. *)
LEMMA InitInv == Init => DispatchInv
<1> SUFFICES ASSUME Init PROVE DispatchInv
  OBVIOUS
<1> USE DispatchAssumption
<1>1. TypeOK
  <2>1. st \in [Work -> States]
    BY DEF Init, States
  <2>2. cost \in [Work -> Costs] /\ charged \in [Work -> Costs]
    BY DEF Init, Costs
  <2>3. cache \in [Work -> {"none", "hit", "miss"}]
    BY DEF Init
  <2>4. nextWork \in 1..(WorkCount + 1) /\ spent \in Nat
    BY DEF Init
  <2> QED
    BY <2>1, <2>2, <2>3, <2>4 DEF Init, TypeOK
<1>2. Cardinality(futures) = 0
  BY FS_EmptySet DEF Init
<1>3. PoolInv
  BY <1>2 DEF Init, PoolInv
<1>4. FutureInv /\ OrderInv /\ FileInv /\ StopInv
  BY DEF Init, FutureInv, OrderInv, FileInv, StopInv, Work, Queue, Started, RunningStates
<1>5. BudgetInv
  <2>1. MaxCallCost * Jobs \in Nat
    BY Reserve
  <2> QED
    BY <1>2, <2>1 DEF Init, BudgetInv, CapReached
<1>6. ControlInv
  BY DEF Init, ControlInv
<1> QED
  BY <1>1, <1>3, <1>4, <1>5, <1>6 DEF DispatchInv

-----------------------------------------------------------------------------
(* The steps. *)

(* One step of the pool, whoever takes it. *)
LEMMA TypeStep ==
  ASSUME TypeOK, [Next]_vars
  PROVE  TypeOK'
<1> USE DispatchAssumption DEF TypeOK
<1>1. CASE Submit
  <2>1. nextWork \in Work /\ nextWork + 1 \in 1..(WorkCount + 1)
    BY <1>1 DEF Submit, CanSubmit, Work
  <2>2. st' \in [Work -> States]
    BY <1>1, <2>1 DEF Submit, States
  <2> QED
    BY <1>1, <2>1, <2>2 DEF Submit, callVars
<1>2. CASE LoopTest
  BY <1>2 DEF LoopTest, NothingLeft, callVars
<1>3. CASE WaitFirst
  BY <1>3 DEF WaitFirst, callVars
<1>4. CASE Tally
  BY <1>4 DEF Tally, callVars
<1>5. CASE SweepDone
  BY <1>5 DEF SweepDone, callVars
<1>6. CASE Join
  BY <1>6 DEF Join, Raises, callVars
<1>7. ASSUME NEW w \in Work, SkipCancelled(w) PROVE TypeOK'
  BY <1>7 DEF SkipCancelled, callVars
<1>8. ASSUME NEW w \in Work, TakeResult(w) PROVE TypeOK'
  <2>1. cost[w] \in Nat
    BY DEF Costs
  <2>2. spent' \in Nat
    BY <1>8, <2>1 DEF TakeResult, Charge
  <2> QED
    BY <1>8, <2>2 DEF TakeResult, Charge, callVars
<1>9. ASSUME NEW w \in Work, Propagate(w) PROVE TypeOK'
  BY <1>9 DEF Propagate, callVars
<1>10. ASSUME NEW w \in Work, Sweep(w) PROVE TypeOK'
  BY <1>10 DEF Sweep, Cancel, callVars, States
<1>11. ASSUME NEW w \in Work, Start(w) PROVE TypeOK'
  BY <1>11 DEF Start, Oldest, mainVars, callVars, States, RunningStates, DoneStates
<1>12. ASSUME NEW w \in Work, Hit(w) \/ Miss(w) \/ Execute(w) \/ ExecuteError(w) PROVE TypeOK'
  BY <1>12 DEF Hit, Miss, Execute, ExecuteError, mainVars, callVars, States, RunningStates, Costs
<1>13. ASSUME NEW w \in Work, WriteStage(w) \/ WriteCall(w) \/ Raise(w) PROVE TypeOK'
  BY <1>13 DEF WriteStage, WriteCall, Raise, mainVars, States, RunningStates, DoneStates
<1>14. CASE UNCHANGED vars
  BY <1>14 DEF vars, mainVars, callVars
<1> QED
  BY <1>1, <1>2, <1>3, <1>4, <1>5, <1>6, <1>7, <1>8, <1>9, <1>10, <1>11, <1>12, <1>13, <1>14
     DEF Next, MainStep, WorkerStep, RunStep, Collect, Terminated

(* The files and the progress of each call. *)
LEMMA FileStep ==
  ASSUME TypeOK, FutureInv, FileInv, [Next]_vars
  PROVE  FileInv'
<1> USE DEF FileInv
<1>1. ASSUME NEW w \in Work, RunStep(w) PROVE FileInv'
  BY <1>1 DEF RunStep, Hit, Miss, Execute, ExecuteError, WriteStage, WriteCall, Raise, TypeOK, callVars, RunningStates
<1>2. ASSUME NEW w \in Work, Start(w) PROVE FileInv'
  BY <1>2 DEF Start, Oldest, TypeOK, callVars, IsLeast, Queue
<1>3. ASSUME NEW w \in Work, Sweep(w) PROVE FileInv'
  BY <1>3 DEF Sweep, Cancel, TypeOK, callVars
<1>4. CASE Submit
  BY <1>4 DEF Submit, CanSubmit, TypeOK, callVars, FutureInv, Work
<1>5. CASE UNCHANGED <<st, stages, calls>>
  BY <1>5
<1> QED
  BY <1>1, <1>2, <1>3, <1>4, <1>5
     DEF Next, MainStep, WorkerStep, Collect, Terminated, LoopTest, NothingLeft, WaitFirst, Tally, SweepDone,
         Join, Raises, SkipCancelled, TakeResult, Charge, Propagate, vars, callVars

(* A step that takes no future out of the dict and submits none. *)
LEMMA PoolStep ==
  ASSUME TypeOK, PoolInv, [Next]_vars
  PROVE  PoolInv'
<1> USE DEF PoolInv
<1>0. IsFiniteSet(futures) /\ Cardinality(futures) \in Nat
  BY FuturesFinite
<1>1. CASE Submit
  <2>1. nextWork \in Nat /\ nextWork >= 1
    BY DispatchAssumption DEF TypeOK
  <2>2. futures' \subseteq 1..(nextWork' - 1) /\ cursor' \subseteq futures'
    BY <1>1, <2>1 DEF Submit
  <2>3. Cardinality(futures') <= Cardinality(futures) + 1
    BY <1>0, <1>1, FS_AddElement DEF Submit
  <2>4. Cardinality(futures') \in Nat
    BY <1>0, <1>1, FS_AddElement, FS_CardinalityType DEF Submit
  <2> QED
    BY <1>0, <1>1, <2>2, <2>3, <2>4, DispatchAssumption DEF Submit, CanSubmit
<1>2. ASSUME NEW w \in Work, Collect(w) PROVE PoolInv'
  <2>1. futures' = futures \ {w} /\ cursor' \subseteq cursor \ {w} /\ nextWork' = nextWork
    BY <1>2 DEF Collect, SkipCancelled, TakeResult, Charge, Propagate
  <2>2. Cardinality(futures') <= Jobs
    BY <1>0, <2>1, FS_Subset, FS_CardinalityType, DispatchAssumption
  <2> QED
    BY <2>1, <2>2
<1>3. CASE futures' = futures /\ nextWork' = nextWork /\ cursor' \subseteq futures
  BY <1>3
<1>4. ASSUME NEW w \in Work, RunStep(w) PROVE UNCHANGED mainVars
  BY <1>4 DEF RunStep, Hit, Miss, Execute, ExecuteError, WriteStage, WriteCall, Raise
<1> QED
  BY <1>1, <1>2, <1>3, <1>4
     DEF Next, MainStep, WorkerStep, Terminated, LoopTest, NothingLeft, WaitFirst, Tally, SweepDone, Join, Raises,
         Sweep, Cancel, Start, Oldest, vars, mainVars

(* Where each submitted item is. *)
LEMMA FutureStep ==
  ASSUME TypeOK, PoolInv, FutureInv, StopInv, ControlInv, [Next]_vars
  PROVE  FutureInv'
<1> USE DEF FutureInv
<1>1. CASE Submit
  BY <1>1, DispatchAssumption DEF Submit, CanSubmit, TypeOK, Work
<1>2. ASSUME NEW w \in Work, SkipCancelled(w) PROVE FutureInv'
  BY <1>2 DEF SkipCancelled
<1>3. ASSUME NEW w \in Work, TakeResult(w) PROVE FutureInv'
  BY <1>3 DEF TakeResult, Charge
<1>4. ASSUME NEW w \in Work, Propagate(w) PROVE FutureInv'
  BY <1>4 DEF Propagate
<1>5. ASSUME NEW w \in Work, Sweep(w) PROVE FutureInv'
  BY <1>5 DEF Sweep, Cancel, TypeOK, ControlInv
<1>6. ASSUME NEW w \in Work, Start(w) PROVE FutureInv'
  BY <1>6 DEF Start, Oldest, TypeOK, IsLeast, Queue, mainVars
<1>7. ASSUME NEW w \in Work, RunStep(w) PROVE FutureInv'
  BY <1>7 DEF RunStep, Hit, Miss, Execute, ExecuteError, WriteStage, WriteCall, Raise, TypeOK, mainVars
<1>8. CASE Tally
  BY <1>8 DEF Tally
<1>9. CASE UNCHANGED <<st, futures, nextWork, completed, failure, budgetReached>>
  BY <1>9
<1> QED
  BY <1>1, <1>2, <1>3, <1>4, <1>5, <1>6, <1>7, <1>8, <1>9
     DEF Next, MainStep, WorkerStep, Collect, Terminated, LoopTest, NothingLeft, WaitFirst, SweepDone, Join, Raises,
         vars, mainVars

(* Workers take futures in the order they were submitted. *)
LEMMA OrderStep ==
  ASSUME TypeOK, FutureInv, OrderInv, [Next]_vars
  PROVE  OrderInv'
<1> USE DEF OrderInv, Queue, Started
<1>1. CASE Submit
  BY <1>1, DispatchAssumption DEF Submit, CanSubmit, TypeOK, Work, FutureInv, RunningStates
<1>2. ASSUME NEW w \in Work, Sweep(w) PROVE OrderInv'
  BY <1>2 DEF Sweep, Cancel, TypeOK, RunningStates
<1>3. ASSUME NEW w \in Work, Start(w) PROVE OrderInv'
  BY <1>3 DEF Start, Oldest, TypeOK, IsLeast, RunningStates, Work
<1>4. ASSUME NEW w \in Work, RunStep(w) PROVE OrderInv'
  BY <1>4 DEF RunStep, Hit, Miss, Execute, ExecuteError, WriteStage, WriteCall, Raise, TypeOK, RunningStates
<1>5. CASE UNCHANGED st
  BY <1>5
<1> QED
  BY <1>1, <1>2, <1>3, <1>4, <1>5
     DEF Next, MainStep, WorkerStep, Collect, Terminated, LoopTest, NothingLeft, WaitFirst, Tally, SweepDone,
         Join, Raises, SkipCancelled, TakeResult, Charge, Propagate, vars

(* The reserve for the futures in the dict. *)
LEMMA BudgetStep ==
  ASSUME TypeOK, PoolInv, BudgetInv, ControlInv, [Next]_vars
  PROVE  BudgetInv'
<1> USE DispatchAssumption DEF BudgetInv, CapReached
<1>0. /\ IsFiniteSet(futures)
      /\ Cardinality(futures) \in Nat
      /\ MaxCallCost * Cardinality(futures) \in Nat
      /\ MaxCallCost * Jobs \in Nat
      /\ spent \in Nat
  BY FuturesFinite, Reserve DEF TypeOK
<1>1. CASE Submit
  <2>1. /\ Cardinality(futures') \in Nat
        /\ Cardinality(futures') <= Jobs
    BY <1>0, <1>1, FS_AddElement, FS_CardinalityType, SMTT(30) DEF Submit, CanSubmit
  <2>2. MaxCallCost * Cardinality(futures') <= MaxCallCost * Jobs
    BY <2>1, ReserveGrows
  <2>3. MaxCallCost * Cardinality(futures') \in Nat
    BY <2>1, Reserve
  <2>4. spent' = spent /\ budgetReached' = budgetReached /\ main' = main /\ ~CapReached
    BY <1>1 DEF Submit, CanSubmit
  <2> QED
    BY <1>0, <2>2, <2>3, <2>4
<1>2. ASSUME NEW w \in Work, Collect(w) PROVE BudgetInv'
  <2>1. futures' = futures \ {w} /\ w \in futures /\ main' # "fill"
    BY <1>2 DEF Collect, SkipCancelled, TakeResult, Charge, Propagate, PoolInv, IsLeast
  <2>2. Cardinality(futures) = Cardinality(futures') + 1 /\ Cardinality(futures') \in Nat
    <3>1. IsFiniteSet(futures \ {w}) /\ Cardinality(futures \ {w}) = Cardinality(futures) - 1
      BY <1>0, <2>1, FS_RemoveElement
    <3>2. Cardinality(futures \ {w}) \in Nat
      BY <3>1, FS_CardinalityType
    <3> QED
      BY <1>0, <2>1, <3>1, <3>2
  <2>3. /\ MaxCallCost * Cardinality(futures) = MaxCallCost * Cardinality(futures') + MaxCallCost
        /\ MaxCallCost * Cardinality(futures') \in Nat
    BY <2>2, Reserve
  <2>4. cost[w] \in Nat /\ cost[w] <= MaxCallCost
    BY DEF TypeOK, Costs
  <2>5. spent' \in Nat /\ spent' <= spent + MaxCallCost
    BY <1>0, <1>2, <2>4 DEF Collect, SkipCancelled, TakeResult, Charge, Propagate
  <2> QED
    BY <1>0, <2>1, <2>3, <2>5
<1>3. CASE Tally
  BY <1>3 DEF Tally
<1>4. CASE SweepDone
  BY <1>4 DEF SweepDone, ControlInv
<1>5. ASSUME NEW w \in Work, RunStep(w) PROVE UNCHANGED mainVars
  BY <1>5 DEF RunStep, Hit, Miss, Execute, ExecuteError, WriteStage, WriteCall, Raise
<1>6. CASE UNCHANGED <<futures, spent, budgetReached>> /\ (main' = main \/ main' # "fill")
  BY <1>6
<1> QED
  BY <1>1, <1>2, <1>3, <1>4, <1>5, <1>6
     DEF Next, MainStep, WorkerStep, Terminated, LoopTest, NothingLeft, WaitFirst, Join, Raises, Sweep, Cancel, Start, Oldest,
         vars, mainVars

(* Which futures can still start once the cap is reached. *)
LEMMA StopStep ==
  ASSUME TypeOK, PoolInv, FutureInv, StopInv, ControlInv, [Next]_vars
  PROVE  StopInv'
<1> USE DEF StopInv
<1>1. CASE Submit
  BY <1>1 DEF Submit, CanSubmit
<1>2. CASE Tally
  <2>1. ASSUME NEW w \in Work, st[w] = "pending" PROVE w \in futures
    BY <1>2, <2>1, DispatchAssumption DEF Tally, FutureInv, ControlInv, TypeOK, Work
  <2> QED
    BY <1>2, <2>1 DEF Tally
<1>3. ASSUME NEW w \in Work, Sweep(w) PROVE StopInv'
  BY <1>3 DEF Sweep, Cancel, TypeOK
<1>4. CASE SweepDone
  BY <1>4 DEF SweepDone
<1>5. ASSUME NEW w \in Work, Collect(w) PROVE StopInv'
  BY <1>5 DEF Collect, SkipCancelled, TakeResult, Charge, Propagate
<1>6. ASSUME NEW w \in Work, Start(w) PROVE StopInv'
  BY <1>6 DEF Start, Oldest, TypeOK, mainVars
<1>7. ASSUME NEW w \in Work, RunStep(w) PROVE StopInv'
  BY <1>7 DEF RunStep, Hit, Miss, Execute, ExecuteError, WriteStage, WriteCall, Raise, TypeOK, mainVars
<1>8. CASE LoopTest
  BY <1>8 DEF LoopTest, NothingLeft
<1>9. CASE WaitFirst
  BY <1>9 DEF WaitFirst
<1>10. CASE Join
  BY <1>10 DEF Join, Raises
<1>11. CASE UNCHANGED vars
  BY <1>11 DEF vars, mainVars
<1> QED
  BY <1>1, <1>2, <1>3, <1>4, <1>5, <1>6, <1>7, <1>8, <1>9, <1>10, <1>11
     DEF Next, MainStep, WorkerStep, Terminated

(* The control state: what the main thread knows when it leaves the loop. *)
LEMMA ControlStep ==
  ASSUME TypeOK, PoolInv, FutureInv, ControlInv, [Next]_vars
  PROVE  ControlInv'
<1> USE DEF ControlInv
<1>1. CASE Submit
  BY <1>1 DEF Submit
<1>2. CASE LoopTest
  <2>1. futures = {} => Cardinality(futures) = 0
    BY FS_EmptySet
  <2>2. futures = {} => budgetReached \/ nextWork = WorkCount + 1
    BY <1>2, <2>1, DispatchAssumption DEF LoopTest, NothingLeft, CanSubmit, TypeOK
  <2> QED
    BY <1>2, <2>2 DEF LoopTest, NothingLeft
<1>3. CASE WaitFirst
  BY <1>3 DEF WaitFirst
<1>4. CASE Tally
  BY <1>4 DEF Tally
<1>5. CASE SweepDone
  BY <1>5 DEF SweepDone
<1>6. CASE Join
  BY <1>6 DEF Join, Raises, Queue, Running
<1>7. ASSUME NEW w \in Work, Collect(w) PROVE ControlInv'
  BY <1>7 DEF Collect, SkipCancelled, TakeResult, Charge, Propagate
<1>8. ASSUME NEW w \in Work, Sweep(w) PROVE ControlInv'
  BY <1>8 DEF Sweep, Cancel
<1>9. ASSUME NEW w \in Work, Start(w) PROVE ControlInv'
  BY <1>9 DEF Start, Oldest, IsLeast, mainVars
<1>10. ASSUME NEW w \in Work, RunStep(w) PROVE ControlInv'
  <2>1. w \in Running
    BY <1>10 DEF RunStep, Hit, Miss, Execute, ExecuteError, WriteStage, WriteCall, Raise, Running, RunningStates
  <2>2. UNCHANGED mainVars
    BY <1>10 DEF RunStep, Hit, Miss, Execute, ExecuteError, WriteStage, WriteCall, Raise
  <2> QED
    BY <2>1, <2>2 DEF mainVars
<1>11. CASE UNCHANGED vars
  BY <1>11 DEF vars, mainVars, Queue, Running
<1> QED
  BY <1>1, <1>2, <1>3, <1>4, <1>5, <1>6, <1>7, <1>8, <1>9, <1>10, <1>11
     DEF Next, MainStep, WorkerStep, Terminated

-----------------------------------------------------------------------------
(* The theorems. *)

(* The invariant holds in every reachable state. *)
THEOREM Invariance == Spec => []DispatchInv
<1>1. DispatchInv /\ [Next]_vars => DispatchInv'
  BY TypeStep, PoolStep, FutureStep, OrderStep, FileStep, BudgetStep, StopStep, ControlStep
     DEF DispatchInv
<1> QED
  BY InitInv, <1>1, PTL DEF Spec

(* Every variable of the pool stays in its type. *)
THEOREM TypeCorrect == Spec => []TypeOK
<1>1. DispatchInv => TypeOK
  BY DEF DispatchInv
<1> QED
  BY Invariance, <1>1, PTL

(* A run reports less than the cap plus one full pool of calls, whatever the
   order in which calls finish and however many fail. *)
THEOREM BudgetTheorem == Spec => []OvershootBounded
<1>1. DispatchInv => OvershootBounded
  <2> SUFFICES ASSUME DispatchInv PROVE OvershootBounded
    OBVIOUS
  <2>1. /\ Cardinality(futures) \in Nat
        /\ MaxCallCost * Cardinality(futures) \in Nat
        /\ MaxCallCost * Jobs \in Nat
        /\ MaxCallCost * Jobs = Jobs * MaxCallCost
        /\ spent \in Nat
    BY FuturesFinite, Reserve, DispatchAssumption DEF DispatchInv, TypeOK
  <2> QED
    BY <2>1, DispatchAssumption DEF DispatchInv, BudgetInv, OvershootBounded
<1> QED
  BY Invariance, <1>1, PTL

(* A run that goes on to its reports has every result and every file. *)
THEOREM CompletenessTheorem == Spec => []DispatchedMeansEveryCall
<1>1. DispatchInv => DispatchedMeansEveryCall
  <2> SUFFICES ASSUME DispatchInv, main = "dispatched"
               PROVE  completed = Work /\ calls = Work /\ stages = Work
    BY DEF DispatchedMeansEveryCall
  <2>1. futures = {} /\ nextWork = WorkCount + 1 /\ ~failure /\ ~budgetReached
    BY DEF DispatchInv, ControlInv
  <2>2. ASSUME NEW w \in Work PROVE w \in completed /\ w \in calls /\ w \in stages
    BY <2>1, DispatchAssumption DEF DispatchInv, FutureInv, FileInv, Work
  <2> QED
    BY <2>2 DEF DispatchInv, TypeOK
<1> QED
  BY Invariance, <1>1, PTL

(* A run stopped by its budget leaves no file of a call it did not account
   for. *)
THEOREM DrainTheorem == Spec => []StoppedRunAccountsItsFiles
<1>1. DispatchInv => StoppedRunAccountsItsFiles
  <2> SUFFICES ASSUME DispatchInv, main = "raised", ~failure
               PROVE  calls = completed /\ stages = completed
    BY DEF StoppedRunAccountsItsFiles
  <2>1. futures = {} /\ Queue \union Running = {}
    BY DEF DispatchInv, ControlInv
  <2>2. ASSUME NEW w \in Work, w \in calls \/ w \in stages PROVE w \in completed
    <3>1. st[w] \in {"finished", "failed"}
      BY <2>1, <2>2 DEF DispatchInv, FileInv, Running, RunningStates
    <3>2. w < nextWork
      BY <3>1, DispatchAssumption DEF DispatchInv, FutureInv, TypeOK, Work
    <3> QED
      BY <2>1, <3>1, <3>2 DEF DispatchInv, FutureInv
  <2>3. ASSUME NEW w \in Work, w \in completed PROVE w \in calls /\ w \in stages
    BY <2>3 DEF DispatchInv, FutureInv, FileInv
  <2> QED
    BY <2>2, <2>3 DEF DispatchInv, TypeOK
<1> QED
  BY Invariance, <1>1, PTL

(* After the sweep no call starts any more. *)
THEOREM StopTheorem == Spec => NothingStartsOnceStopped
<1>1. DispatchInv /\ [Next]_vars =>
        [budgetReached /\ main # "sweep" =>
           \A w \in Work : st'[w] \in RunningStates => st[w] \in RunningStates]_vars
  <2> SUFFICES ASSUME DispatchInv, [Next]_vars, budgetReached, main # "sweep",
                      NEW w \in Work, st'[w] \in RunningStates
               PROVE  st[w] \in RunningStates
    OBVIOUS
  <2>1. st[w] # "pending"
    BY DEF DispatchInv, StopInv
  <2>2. ASSUME NEW u \in Work, Start(u) PROVE st[w] \in RunningStates
    BY <2>1, <2>2 DEF Start, Oldest, IsLeast, Queue, DispatchInv, TypeOK, RunningStates
  <2>3. ASSUME NEW u \in Work, RunStep(u) PROVE st[w] \in RunningStates
    BY <2>3 DEF RunStep, Hit, Miss, Execute, ExecuteError, WriteStage, WriteCall, Raise,
                DispatchInv, TypeOK, RunningStates
  <2>4. ASSUME NEW u \in Work, Sweep(u) PROVE st[w] \in RunningStates
    BY <2>4 DEF Sweep, Cancel
  <2>5. CASE Submit
    BY <2>5 DEF Submit, CanSubmit
  <2>6. CASE st' = st
    BY <2>6
  <2> QED
    BY <2>2, <2>3, <2>4, <2>5, <2>6
       DEF Next, MainStep, WorkerStep, Collect, Terminated, LoopTest, NothingLeft, WaitFirst, Tally, SweepDone,
           Join, Raises, SkipCancelled, TakeResult, Charge, Propagate, vars
<1> QED
  BY Invariance, <1>1, PTL DEF Spec, NothingStartsOnceStopped

-----------------------------------------------------------------------------
(* What the run has spent is the cost of its collected cache misses. *)

(* The order of the numbers is well founded. *)
LEMMA NatOrder == \E R : IsWellFoundedOn(R, Nat) /\ \A x, y \in Nat : <<y, x>> \in R <=> y < x
<1>1. IsWellFoundedOn(OpToRel(<, Nat), Nat)
  BY NatLessThanWellFounded
<1>2. \A x, y \in Nat : <<y, x>> \in OpToRel(<, Nat) <=> y < x
  BY DEF OpToRel
<1> QED
  BY <1>1, <1>2, Zenon

(* A nonempty set of numbers has a least element. *)
LEMMA Least == ASSUME NEW T, T \subseteq Nat, T # {} PROVE \E m \in T : \A k \in T : m <= k
<1>1. PICK R : IsWellFoundedOn(R, Nat) /\ \A x, y \in Nat : <<y, x>> \in R <=> y < x
  BY NatOrder
<1>2. PICK x \in T : \A y \in T : ~(<<y, x>> \in R)
  BY <1>1, WFMin
<1>3. ASSUME NEW k \in T PROVE x <= k
  <2>1. x \in Nat /\ k \in Nat
    OBVIOUS
  <2>2. ~(<<k, x>> \in R)
    BY <1>2
  <2> QED
    BY <1>1, <2>1, <2>2
<1> QED
  BY <1>3

(* What holds of 0 and passes on to the next number holds up to N. *)
LEMMA Induct ==
  ASSUME NEW N \in Nat, NEW H, 0 \in H, \A n \in 1..N : n - 1 \in H => n \in H
  PROVE  0..N \subseteq H
<1> SUFFICES ASSUME NEW k \in 0..N, k \notin H PROVE FALSE
  OBVIOUS
<1> DEFINE T == {n \in 0..N : n \notin H}
<1>1. T \subseteq Nat /\ T # {}
  OBVIOUS
<1>2. PICK m \in T : \A n \in T : m <= n
  <2> HIDE DEF T
  <2> QED
    BY <1>1, Least
<1>3. m \in 1..N /\ m \notin H
  OBVIOUS
<1>4. m - 1 \in H
  BY <1>2, <1>3
<1> QED
  BY <1>3, <1>4

(* f adds up m, one item after the other. *)
AddsUp(f, m, N) ==
  /\ f \in [0..N -> Nat]
  /\ f[0] = 0
  /\ \A n \in 1..N : f[n] = f[n - 1] + m[n]

(* Costs can be added up as far as there are items. *)
LEMMA SumsExist ==
  ASSUME NEW m \in [Work -> Nat]
  PROVE  \E f : AddsUp(f, m, WorkCount)
<1> USE DispatchAssumption
<1> DEFINE H == {n \in 0..WorkCount : \E f : AddsUp(f, m, n)}
<1>1. 0 \in H
  <2>1. AddsUp([n \in 0..0 |-> 0], m, 0)
    BY DEF AddsUp
  <2> QED
    BY <2>1
<1>2. ASSUME NEW n \in 1..WorkCount, n - 1 \in H PROVE n \in H
  <2>1. PICK f : AddsUp(f, m, n - 1)
    BY <1>2
  <2> DEFINE g == [i \in 0..n |-> IF i = n THEN f[n - 1] + m[n] ELSE f[i]]
  <2>2. f[n - 1] \in Nat /\ m[n] \in Nat
    BY <2>1 DEF AddsUp, Work
  <2>3. g \in [0..n -> Nat] /\ g[0] = 0
    BY <2>1, <2>2 DEF AddsUp
  <2>4. \A i \in 1..n : g[i] = g[i - 1] + m[i]
    BY <2>1 DEF AddsUp
  <2>5. AddsUp(g, m, n)
    <3> HIDE DEF g
    <3> QED
      BY <2>3, <2>4 DEF AddsUp
  <2> QED
    BY <2>5
<1>3. 0..WorkCount \subseteq H
  <2> HIDE DEF H
  <2> QED
    BY <1>1, <1>2, Induct
<1> QED
  BY <1>3

(* SumOf is the last of the sums. *)
LEMMA SumFacts ==
  ASSUME NEW m \in [Work -> Nat]
  PROVE  \E f : AddsUp(f, m, WorkCount) /\ SumOf(m) = f[WorkCount]
<1> USE DispatchAssumption
<1> DEFINE Eq(f) == f = [n \in 0..WorkCount |-> IF n = 0 THEN 0 ELSE f[n - 1] + m[n]]
           s == CHOOSE f : Eq(f)
<1>1. PICK f : AddsUp(f, m, WorkCount)
  BY SumsExist
<1>2. Eq(f)
  BY <1>1 DEF AddsUp
<1>3. Eq(s)
  BY <1>2
<1>4. SumOf(m) = s[WorkCount]
  BY DEF SumOf
<1> HIDE DEF s
<1>5. s[0] = 0 /\ \A n \in 1..WorkCount : s[n] = s[n - 1] + m[n]
  BY <1>3
<1> DEFINE H == {n \in 0..WorkCount : s[n] \in Nat}
<1>6. 0 \in H
  BY <1>5
<1>7. ASSUME NEW n \in 1..WorkCount, n - 1 \in H PROVE n \in H
  BY <1>5, <1>7 DEF Work
<1>8. 0..WorkCount \subseteq H
  <2> HIDE DEF H
  <2> QED
    BY <1>6, <1>7, Induct
<1>9. s \in [0..WorkCount -> Nat]
  BY <1>3, <1>8
<1> QED
  BY <1>4, <1>5, <1>9 DEF AddsUp

(* One item's cost goes up by c: so does the sum. *)
LEMMA SumGrows ==
  ASSUME NEW m \in [Work -> Nat], NEW w \in Work, NEW c \in Nat, m[w] = 0
  PROVE  SumOf([m EXCEPT ![w] = c]) = SumOf(m) + c
<1> USE DispatchAssumption
<1> DEFINE k == [m EXCEPT ![w] = c]
<1>1. k \in [Work -> Nat] /\ k[w] = c /\ \A n \in Work : n # w => k[n] = m[n]
  OBVIOUS
<1> HIDE DEF k
<1>2. PICK f : AddsUp(f, m, WorkCount) /\ SumOf(m) = f[WorkCount]
  BY SumFacts
<1>3. PICK g : AddsUp(g, k, WorkCount) /\ SumOf(k) = g[WorkCount]
  BY <1>1, SumFacts
<1> DEFINE H == {n \in 0..WorkCount : g[n] = f[n] + (IF n < w THEN 0 ELSE c)}
<1>4. 0 \in H
  BY <1>2, <1>3 DEF AddsUp, Work
<1>5. ASSUME NEW n \in 1..WorkCount, n - 1 \in H PROVE n \in H
  <2>1. f[n - 1] \in Nat /\ m[n] \in Nat /\ k[n] \in Nat
    BY <1>1, <1>2 DEF AddsUp, Work
  <2>2. g[n] = g[n - 1] + k[n] /\ f[n] = f[n - 1] + m[n]
    BY <1>2, <1>3 DEF AddsUp
  <2>3. g[n - 1] = f[n - 1] + (IF n - 1 < w THEN 0 ELSE c)
    BY <1>5
  <2>4. CASE n = w
    BY <1>1, <2>1, <2>2, <2>3, <2>4
  <2>5. CASE n < w
    BY <1>1, <2>1, <2>2, <2>3, <2>5 DEF Work
  <2>6. CASE n > w
    BY <1>1, <2>1, <2>2, <2>3, <2>6 DEF Work
  <2> QED
    BY <2>4, <2>5, <2>6 DEF Work
<1>6. 0..WorkCount \subseteq H
  <2> HIDE DEF H
  <2> QED
    BY <1>4, <1>5, Induct
<1>7. WorkCount \in H
  BY <1>6
<1>8. SumOf(k) = SumOf(m) + c
  BY <1>2, <1>3, <1>7 DEF Work
<1> QED
  BY <1>8 DEF k

(* Nothing costs nothing. *)
LEMMA SumOfNothing ==
  ASSUME NEW m \in [Work -> Nat], \A w \in Work : m[w] = 0
  PROVE  SumOf(m) = 0
<1> USE DispatchAssumption
<1>1. PICK f : AddsUp(f, m, WorkCount) /\ SumOf(m) = f[WorkCount]
  BY SumFacts
<1> DEFINE H == {n \in 0..WorkCount : f[n] = 0}
<1>2. 0 \in H
  BY <1>1 DEF AddsUp
<1>3. ASSUME NEW n \in 1..WorkCount, n - 1 \in H PROVE n \in H
  BY <1>1, <1>3 DEF AddsUp, Work
<1>4. 0..WorkCount \subseteq H
  <2> HIDE DEF H
  <2> QED
    BY <1>2, <1>3, Induct
<1> QED
  BY <1>1, <1>4

(* Every miss has a cost to add up. *)
LEMMA MissCostsType == ASSUME TypeOK PROVE MissCosts \in [Work -> Nat]
BY DispatchAssumption DEF TypeOK, MissCosts, Costs

(* A call that is not collected yet may still change, a collected one not. *)
LEMMA SettledCosts ==
  ASSUME TypeOK, FutureInv, NEW w \in Work, RunStep(w)
  PROVE  UNCHANGED MissCosts
<1>1. w \notin completed /\ UNCHANGED completed
  BY DEF RunStep, Hit, Miss, Execute, ExecuteError, WriteStage, WriteCall, Raise, mainVars, FutureInv
<1>2. \A v \in Work : v # w => cache'[v] = cache[v] /\ cost'[v] = cost[v]
  BY DEF RunStep, Hit, Miss, Execute, ExecuteError, WriteStage, WriteCall, Raise, callVars, TypeOK
<1> QED
  BY <1>1, <1>2 DEF MissCosts

(* A result is appended once, with what it cost. *)
LEMMA AccountStep ==
  ASSUME DispatchInv, AccountInv, [Next]_vars
  PROVE  AccountInv'
<1> USE DEF AccountInv, SpentIsTheMissesCost
<1>1. ASSUME NEW w \in Work, TakeResult(w) PROVE AccountInv'
  <2>1. w \notin completed
    BY <1>1 DEF TakeResult, IsLeast, DispatchInv, PoolInv
  <2>2. (futures \intersect completed)' = {}
    BY <1>1 DEF TakeResult
  <2>3. Charge(w) \in Nat
    BY DispatchAssumption DEF Charge, DispatchInv, TypeOK, Costs
  <2>4. MissCosts[w] = 0 /\ MissCosts \in [Work -> Nat]
    BY <2>1, MissCostsType DEF MissCosts, DispatchInv
  <2>5. MissCosts' = [MissCosts EXCEPT ![w] = Charge(w)]
    BY <1>1, <2>1 DEF TakeResult, MissCosts, Charge, callVars
  <2>6. SumOf(MissCosts') = SumOf(MissCosts) + Charge(w)
    <3> DEFINE m == MissCosts
    <3> HIDE DEF m
    <3>1. SumOf([m EXCEPT ![w] = Charge(w)]) = SumOf(m) + Charge(w)
      BY <2>3, <2>4, SumGrows DEF m
    <3> QED
      BY <2>5, <3>1 DEF m
  <2>7. spent' = SumOf(MissCosts')
    BY <1>1, <2>6 DEF TakeResult
  <2>8. SumOf(MissCosts)' = SumOf(MissCosts')
    BY DEF SumOf
  <2> QED
    BY <2>2, <2>7, <2>8
<1>2. ASSUME NEW w \in Work, RunStep(w) PROVE AccountInv'
  <2>1. UNCHANGED <<spent, futures, completed>>
    BY <1>2 DEF RunStep, Hit, Miss, Execute, ExecuteError, WriteStage, WriteCall, Raise, mainVars
  <2>2. UNCHANGED MissCosts
    BY <1>2, SettledCosts DEF DispatchInv
  <2> QED
    BY <2>1, <2>2 DEF SumOf
<1>3. CASE Submit
  <2>1. nextWork \in Work /\ nextWork \notin completed
    BY <1>3, DispatchAssumption DEF Submit, CanSubmit, DispatchInv, TypeOK, FutureInv, Work
  <2>2. UNCHANGED <<spent, MissCosts, completed>>
    BY <1>3 DEF Submit, callVars, MissCosts
  <2>3. (futures \intersect completed)' = {}
    BY <1>3, <2>1 DEF Submit
  <2> QED
    BY <2>2, <2>3 DEF SumOf
<1>4. ASSUME NEW w \in Work, SkipCancelled(w) \/ Propagate(w) PROVE AccountInv'
  <2>1. UNCHANGED <<spent, MissCosts, completed>> /\ futures' \subseteq futures
    BY <1>4 DEF SkipCancelled, Propagate, callVars, MissCosts
  <2> QED
    BY <2>1 DEF SumOf
<1>5. ASSUME UNCHANGED <<spent, futures, completed, cache, cost>> PROVE AccountInv'
  <2>1. UNCHANGED <<spent, MissCosts, completed, futures>>
    BY <1>5 DEF MissCosts
  <2> QED
    BY <2>1 DEF SumOf
<1>6. ASSUME NEW w \in Work, Start(w) \/ Sweep(w) PROVE AccountInv'
  BY <1>5, <1>6 DEF Start, Sweep, mainVars, callVars
<1>7. CASE LoopTest \/ WaitFirst \/ Tally \/ SweepDone \/ Join
  BY <1>5, <1>7 DEF LoopTest, WaitFirst, Tally, SweepDone, Join, callVars
<1>8. CASE UNCHANGED vars
  BY <1>5, <1>8 DEF vars, mainVars, callVars
<1> QED
  BY <1>1, <1>2, <1>3, <1>4, <1>6, <1>7, <1>8
     DEF Next, MainStep, WorkerStep, Collect, Terminated

(* What a run reports as spent is what its collected cache misses cost, each
   counted once: no cached envelope, no call twice. *)
THEOREM AccountTheorem == Spec => []SpentIsTheMissesCost
<1>1. Init => AccountInv
  <2> SUFFICES ASSUME Init PROVE AccountInv
    OBVIOUS
  <2>1. MissCosts \in [Work -> Nat] /\ \A w \in Work : MissCosts[w] = 0
    BY DEF Init, MissCosts
  <2>2. SumOf(MissCosts) = 0
    <3> DEFINE m == MissCosts
    <3> HIDE DEF m
    <3>1. SumOf(m) = 0
      BY <2>1, SumOfNothing DEF m
    <3> QED
      BY <3>1 DEF m
  <2> QED
    BY <2>2 DEF Init, AccountInv, SpentIsTheMissesCost
<1>2. DispatchInv /\ AccountInv /\ [Next]_vars => AccountInv'
  BY AccountStep
<1>3. AccountInv => SpentIsTheMissesCost
  BY DEF AccountInv
<1> QED
  BY Invariance, <1>1, <1>2, <1>3, PTL DEF Spec

-----------------------------------------------------------------------------
(* The pool implements the batch contract. *)

(* What a change of st does to the phases of the batch. *)
LEMMA PhaseOf ==
  ASSUME NEW w \in Work
  PROVE  /\ BatchPhase[w] = "sent" <=> st[w] \in RunningStates
         /\ BatchPhase[w] = "settled" <=> st[w] = "finished"
         /\ BatchPhase[w] = "lost" <=> st[w] = "failed"
         /\ BatchPhase[w] = "unsent" <=> st[w] \notin RunningStates \union {"finished", "failed"}
         /\ BatchPhase[w] \in {"sent", "settled", "lost", "unsent"}
BY DEF BatchPhase, RunningStates

(* The contract counts as the pool does. *)
LEMMA SameCount == ASSUME NEW S PROVE Batch!Cardinality(S) = Cardinality(S)
BY DEF Batch!Cardinality, Cardinality

(* A worker that takes a pending future sends its call. *)
LEMMA StartSends ==
  ASSUME DispatchInv, NEW w \in Work, Start(w), st[w] = "pending"
  PROVE  Batch!Send(w)
<1>1. BatchVerdict = "running" /\ BatchVerdict' = "running"
  BY DEF Start, Oldest, IsLeast, DispatchInv, ControlInv, BatchVerdict, mainVars
<1>2. \A v \in Work : BatchPhase[v] # "unsent" => v < w
  <2> SUFFICES ASSUME NEW v \in Work, BatchPhase[v] # "unsent" PROVE v < w
    OBVIOUS
  <2>1. v \in Started
    BY PhaseOf DEF Started
  <2>2. w \in Queue
    BY DEF Start, Oldest, IsLeast
  <2> QED
    BY <2>1, <2>2 DEF DispatchInv, OrderInv
<1>3. BatchPhase[w] = "unsent"
  BY PhaseOf DEF RunningStates
<1>4. Batch!InPhase("sent") = Running
  BY PhaseOf DEF Batch!InPhase, Batch!Work, Running, Work
<1>5. BatchPhase' = [BatchPhase EXCEPT ![w] = "sent"]
  BY DEF Start, Oldest, DispatchInv, TypeOK, BatchPhase, RunningStates
<1> QED
  BY <1>1, <1>2, <1>3, <1>4, <1>5, SameCount DEF Batch!Send, Batch!Work, Work, Start, Oldest

(* A step of _run_one sends, settles or loses nothing but its own call. *)
LEMMA RunStepMaps ==
  ASSUME DispatchInv, NEW w \in Work, RunStep(w)
  PROVE  Batch!Settle(w) \/ Batch!Lose(w) \/ UNCHANGED <<BatchPhase, BatchVerdict>>
<1>1. st[w] \in RunningStates /\ UNCHANGED BatchVerdict
  BY DEF RunStep, Hit, Miss, Execute, ExecuteError, WriteStage, WriteCall, Raise, RunningStates,
         BatchVerdict, mainVars
<1>2. BatchPhase[w] = "sent"
  BY <1>1, PhaseOf
<1>3. CASE WriteCall(w)
  <2>1. BatchPhase' = [BatchPhase EXCEPT ![w] = "settled"]
    BY <1>3 DEF WriteCall, DispatchInv, TypeOK, BatchPhase, RunningStates
  <2> QED
    BY <1>1, <1>2, <2>1 DEF Batch!Settle
<1>4. CASE Raise(w)
  <2>1. BatchPhase' = [BatchPhase EXCEPT ![w] = "lost"]
    BY <1>4 DEF Raise, DispatchInv, TypeOK, BatchPhase, RunningStates
  <2> QED
    BY <1>1, <1>2, <2>1 DEF Batch!Lose
<1>5. CASE Hit(w) \/ Miss(w) \/ Execute(w) \/ ExecuteError(w) \/ WriteStage(w)
  <2>1. BatchPhase' = BatchPhase
    BY <1>5 DEF Hit, Miss, Execute, ExecuteError, WriteStage, DispatchInv, TypeOK, BatchPhase,
                RunningStates
  <2> QED
    BY <1>1, <2>1
<1> QED
  BY <1>3, <1>4, <1>5 DEF RunStep

(* Leaving the loop ends the batch with the verdict the run acts on. *)
LEMMA JoinEnds ==
  ASSUME DispatchInv, Join
  PROVE  \E v \in {"complete", "raised"} : Batch!End(v)
<1>1. BatchVerdict = "running" /\ BatchVerdict' \in {"complete", "raised"}
  BY DEF Join, Raises, BatchVerdict
<1>2. UNCHANGED BatchPhase
  BY DEF Join, Raises, BatchPhase
<1>3. Batch!InPhase("sent") = {}
  BY PhaseOf DEF Join, Raises, Batch!InPhase, Batch!Work, Work, Running
<1>4. BatchVerdict' = "complete" => Batch!InPhase("settled") = Batch!Work
  <2> SUFFICES ASSUME BatchVerdict' = "complete", NEW w \in Work
               PROVE  BatchPhase[w] = "settled"
    BY DEF Batch!InPhase, Batch!Work, Work
  <2>1. ~failure /\ ~budgetReached
    BY DEF Join, Raises, BatchVerdict
  <2>2. futures = {} /\ nextWork = WorkCount + 1
    BY <2>1 DEF Join, Raises, DispatchInv, ControlInv
  <2>3. st[w] = "finished"
    BY <2>1, <2>2, DispatchAssumption DEF DispatchInv, FutureInv, Work
  <2> QED
    BY <2>3, PhaseOf
<1> QED
  BY <1>1, <1>2, <1>3, <1>4 DEF Batch!End

(* Every behaviour of the pool is a behaviour of the batch contract. *)
THEOREM Refinement == Spec => ImplementsBatch
<1>1. Init => Batch!Init
  BY DEF Init, Batch!Init, BatchPhase, BatchVerdict, Batch!Work, Work, RunningStates
<1>2. DispatchInv /\ [Next]_vars => [Batch!Next]_(Batch!vars)
  <2> SUFFICES ASSUME DispatchInv, [Next]_vars
               PROVE  Batch!Next \/ UNCHANGED <<BatchPhase, BatchVerdict>>
    BY DEF Batch!vars
  <2>1. ASSUME NEW w \in Work, Start(w) PROVE Batch!Next \/ UNCHANGED <<BatchPhase, BatchVerdict>>
    <3>1. CASE st[w] = "pending"
      BY <2>1, <3>1, StartSends DEF Batch!Next, Batch!Work, Work
    <3>2. CASE st[w] # "pending"
      BY <2>1, <3>2 DEF Start, Oldest, IsLeast, Queue, DispatchInv, TypeOK, BatchPhase, BatchVerdict,
                        RunningStates, mainVars
    <3> QED
      BY <3>1, <3>2
  <2>2. ASSUME NEW w \in Work, RunStep(w) PROVE Batch!Next \/ UNCHANGED <<BatchPhase, BatchVerdict>>
    BY <2>2, RunStepMaps DEF Batch!Next, Batch!Work, Work
  <2>3. CASE Join
    BY <2>3, JoinEnds DEF Batch!Next
  <2>4. CASE Submit
    <3>1. st[nextWork] = "unsubmitted" /\ nextWork \in Work
      BY <2>4, DispatchAssumption DEF Submit, CanSubmit, DispatchInv, FutureInv, TypeOK, Work
    <3> QED
      BY <2>4, <3>1 DEF Submit, DispatchInv, TypeOK, BatchPhase, BatchVerdict, RunningStates
  <2>5. ASSUME NEW w \in Work, Sweep(w) PROVE UNCHANGED <<BatchPhase, BatchVerdict>>
    BY <2>5 DEF Sweep, Cancel, DispatchInv, TypeOK, BatchPhase, BatchVerdict, RunningStates
  <2>6. ASSUME NEW w \in Work, Collect(w) PROVE UNCHANGED <<BatchPhase, BatchVerdict>>
    BY <2>6 DEF Collect, SkipCancelled, TakeResult, Charge, Propagate, BatchPhase, BatchVerdict
  <2>7. CASE LoopTest \/ WaitFirst \/ Tally \/ SweepDone
    BY <2>7 DEF LoopTest, NothingLeft, WaitFirst, Tally, SweepDone, BatchPhase, BatchVerdict
  <2>8. CASE UNCHANGED vars
    BY <2>8 DEF vars, mainVars, BatchPhase, BatchVerdict
  <2> QED
    BY <2>1, <2>2, <2>3, <2>4, <2>5, <2>6, <2>7, <2>8
       DEF Next, MainStep, WorkerStep, Terminated
<1> QED
  BY Invariance, <1>1, <1>2, PTL DEF Spec, ImplementsBatch, Batch!Spec
=============================================================================
