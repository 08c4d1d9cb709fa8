--------------------------- MODULE MCReferenceRun ---------------------------
(***************************************************************************)
(* Two attempts: a wave of two ids, once the same twice, or two waves of   *)
(* one, the second after the first has ended or died, with and without     *)
(* --force, with either agent.  The runs: a good one, one cut by the time  *)
(* limit, one whose output is garbled; any of them may leave something of  *)
(* its agent running.                                                      *)
(***************************************************************************)
EXTENDS ReferenceRun

CONSTANTS t1, t2

MCTasks == {t1, t2}
MCWaves == {<<t1>>, <<t1, t1>>, <<t1, t2>>}
Fact(t, j, g, z, e) == [timedOut |-> t, json |-> j, garbled |-> g, zero |-> z, isError |-> e]
MCOptions == {<<FALSE, "claude">>, <<TRUE, "claude">>, <<TRUE, "codex">>, <<FALSE, "dry">>}
MCRunFacts == {Fact(FALSE, TRUE, FALSE, TRUE, FALSE), Fact(TRUE, TRUE, FALSE, FALSE, TRUE),
               Fact(FALSE, FALSE, TRUE, TRUE, FALSE)}

=============================================================================
