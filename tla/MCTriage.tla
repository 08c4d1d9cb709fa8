------------------------------ MODULE MCTriage ------------------------------
(***************************************************************************)
(* Two deltas and two scrubs; two deltas and two weekly runs; the lanes of *)
(* one weekly run, and of two that share a directory, over the section of  *)
(* one delta.  The event of b is that of a in a forked session, c lies in  *)
(* a sandbox, and a report can show a row twice.                           *)
(***************************************************************************)
EXTENDS WeeklyTriage

MCReports == {<<"a">>, <<"a", "b">>, <<"b", "c", "c">>}
MCParent == [k \in {"b"} |-> "a"]
Jobs(d, s, w, n) ==
  [deltas |-> d, scrubs |-> s, weeklies |-> w, days |-> n, reports |-> MCReports, cuts |-> TRUE,
   lanes |-> {}, rounds |-> 0, wide |-> FALSE]
Lanes(w, lanes, r, wide) ==
  [deltas |-> 1, scrubs |-> 0, weeklies |-> w, days |-> 0, reports |-> {<<"a">>}, cuts |-> FALSE,
   lanes |-> lanes, rounds |-> r, wide |-> wide]
MCPlans ==
  {Jobs(2, 2, 0, 0), Jobs(2, 0, 2, 2),
   Lanes(1, {"opus", "sol"}, 2, TRUE), Lanes(2, {"opus", "sol"}, 1, FALSE),
   Lanes(2, {"sol"}, 2, TRUE), Lanes(2, {"sol"}, 3, FALSE)}

(* How codex can end: with an answer, without one, with an error, broken off. *)
Says(c, f, e) == [complete |-> c, final |-> f, error |-> e, credits |-> TRUE]
MCRollouts == {Says(TRUE, TRUE, "none"), Says(TRUE, FALSE, "none"), Says(TRUE, FALSE, "other"),
               Says(FALSE, FALSE, "none")}
=============================================================================
