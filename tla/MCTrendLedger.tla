--------------------------- MODULE MCTrendLedger ---------------------------
(***************************************************************************)
(* Four calls on one ledger; the first three carry the same row (a run and *)
(* two replays of it), the fourth another one.                             *)
(***************************************************************************)
EXTENDS TrendLedger, TLC

CONSTANTS p1, p2, p3, p4

FourCalls == {p1, p2, p3, p4}
SharedIdentity == p1 :> "run" @@ p2 :> "run" @@ p3 :> "run" @@ p4 :> "other"
SameIdentityCalls == Permutations({p1, p2, p3})
=============================================================================
