----------------------------- MODULE MCDispatch -----------------------------
(***************************************************************************)
(* Model-checking instances of Dispatch, and the properties that need sums *)
(* over sets.                                                              *)
(***************************************************************************)
EXTENDS Dispatch, FiniteSetsExt

(* README, "dispatch stops once positive accumulated cost reaches the cap":
   what the providers charged for the collected calls overshoots the cap by
   at most one pool of calls. *)
ChargesOvershootBounded ==
  MapThenSumSet(LAMBDA w : charged[w], completed) < CapCost + Jobs * MaxCallCost
=============================================================================
