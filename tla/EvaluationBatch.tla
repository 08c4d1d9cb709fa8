--------------------------- MODULE EvaluationBatch ---------------------------
(***************************************************************************)
(* What a structured run promises about the calls of one batch, whatever   *)
(* its worker pool, cache and budget do: calls are sent in work order,     *)
(* each at most once and never more than Jobs at a time, and the batch     *)
(* is reported complete only when every call has settled.  Dispatch        *)
(* implements this module.                                                 *)
(***************************************************************************)
EXTENDS Naturals, FiniteSets

CONSTANTS
  WorkCount,   \* number of (version, item, sample) calls
  Jobs         \* how many may be outstanding

Work == 1..WorkCount

VARIABLES
  phase,       \* phase[w]: "unsent", "sent", "settled" or "lost"
  verdict      \* "running", "complete" or "raised"

vars == <<phase, verdict>>

InPhase(p) == {w \in Work : phase[w] = p}

Init ==
  /\ phase = [w \in Work |-> "unsent"]
  /\ verdict = "running"

(* A call leaves for its executor, after every call sent before it. *)
Send(w) ==
  /\ verdict = "running"
  /\ phase[w] = "unsent"
  /\ \A v \in Work : phase[v] # "unsent" => v < w
  /\ Cardinality(InPhase("sent")) < Jobs
  /\ phase' = [phase EXCEPT ![w] = "sent"]
  /\ UNCHANGED verdict

(* Its records are on disk. *)
Settle(w) ==
  /\ phase[w] = "sent"
  /\ phase' = [phase EXCEPT ![w] = "settled"]
  /\ UNCHANGED verdict

(* It raised instead of returning its records. *)
Lose(w) ==
  /\ phase[w] = "sent"
  /\ phase' = [phase EXCEPT ![w] = "lost"]
  /\ UNCHANGED verdict

(* The batch ends once nothing is outstanding. *)
End(v) ==
  /\ verdict = "running"
  /\ InPhase("sent") = {}
  /\ v = "complete" => InPhase("settled") = Work
  /\ verdict' = v
  /\ UNCHANGED phase

Next ==
  \/ \E w \in Work : Send(w) \/ Settle(w) \/ Lose(w)
  \/ \E v \in {"complete", "raised"} : End(v)

Spec == Init /\ [][Next]_vars
=============================================================================
