---------------------------- MODULE MCResultTree ----------------------------
(***************************************************************************)
(* Two ordinary runs and a forced one given the same directory, and a      *)
(* replay; two calls per run.                                              *)
(***************************************************************************)
EXTENDS ResultTree, TLC

CONSTANTS run1, run2, forced, replay1

TwoRunsAndForced == {run1, run2, forced}
OneForced == {forced}
OneRun == {run1}
OneReplay == {replay1}
OrdinaryRuns == Permutations({run1, run2})
=============================================================================
