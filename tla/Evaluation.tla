----------------------------- MODULE Evaluation -----------------------------
(***************************************************************************)
(* What a pipeline run and an analyzer run have in common: one process     *)
(* that goes through its pairs of an item and a version, writes the same    *)
(* kinds of files into a results directory of its own, and renders.         *)
(***************************************************************************)
EXTENDS Reduction

VARIABLES
  conf,     \* the configuration, its task set and the pairs in their order
  pc,       \* where the process is; "done", "died" (an exception), "killed"
  at,       \* the number of the current pair
  rows,     \* the replay rows of the current pair
  got,      \* what the executor of the current pair gave
  stages,   \* stages/: the identities <<version, item, stage>>
  calls,    \* calls/: the records, in the order of their writing
  events,   \* replay.jsonl
  asserts,  \* asserts/: [id, results], results a sequence
  inputs,   \* whether the input snapshots are written
  total,    \* the cost added up
  metrics   \* metrics.json: a set of at most one summary

vars == <<conf, pc, at, rows, got, stages, calls, events, asserts, inputs, total, metrics>>

Ended == {"done", "died", "killed"}

Nothing == [request |-> FALSE, env |-> {}]

EvaluationInit ==
  /\ pc = "start" /\ at = 1 /\ rows = <<>> /\ got = Nothing
  /\ stages = {} /\ calls = <<>> /\ events = <<>> /\ asserts = {}
  /\ inputs = FALSE /\ total = 0 /\ metrics = {}

Product(a, b) ==
  [n \in 1..Len(a) * Len(b) |-> <<a[((n - 1) \div Len(b)) + 1], b[((n - 1) % Len(b)) + 1]>>]

Die == pc' = "died" /\ UNCHANGED <<conf, at, rows, got, stages, calls, events, asserts, inputs, total, metrics>>

Kill ==
  /\ pc \notin Ended
  /\ pc' = "killed"
  /\ UNCHANGED <<conf, at, rows, got, stages, calls, events, asserts, inputs, total, metrics>>
=============================================================================
