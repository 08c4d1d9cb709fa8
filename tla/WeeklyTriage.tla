---------------------------- MODULE WeeklyTriage ----------------------------
(***************************************************************************)
(* mining/scripts/weekly_triage.sh with codex_dispatch.py, beside the      *)
(* deltas and scrubs of Triage: a weekly run takes the inbox sections of   *)
(* the last Week days, has them judged by two lanes at once, opus through  *)
(* claude and sol through codex_dispatch, and has a fold write the report. *)
(*                                                                         *)
(* A run keeps its files in a directory named after the day, which another *)
(* run of the day may use too, before or at once.  A file is represented   *)
(* by the runs whose text it holds, and the log of codex by its session    *)
(* banners: <<w, n>> is that of round n of run w.                          *)
(***************************************************************************)
EXTENDS Triage, FiniteSets

CONSTANTS
  Week,         \* the days a weekly run looks back
  MaxWeeklies,  \* bound on the weekly runs
  Rollouts      \* what the rollout of a run of codex can say when it is over

ASSUME WeeklyAssumption ==
  /\ Week \in Nat /\ MaxWeeklies \in Nat
  /\ Rollouts \subseteq [complete : BOOLEAN, final : BOOLEAN,
                         error : {"none", "auth", "other"}, credits : BOOLEAN]

VARIABLES
  weeklies,   \* weeklies[w]: where weekly run w stands and what it has seen
  dirs        \* dirs[n]: the directory of day n

vars == <<triageVars, weeklies, dirs>>

Weeklies == 1..MaxWeeklies
NoWeekly == [pc |-> "off", today |-> 0, length |-> 0, input |-> {},
             opus |-> "off", sol |-> "off", rounds |-> <<>>,
             records |-> 0, exit |-> "none", readOpus |-> {}, readSol |-> 0, report |-> 0]
EmptyDir == [opus |-> {}, sol |-> 0, report |-> 0, log |-> <<>>, wide |-> FALSE]

Init ==
  /\ TriageInit
  /\ weeklies = [w \in Weeklies |-> NoWeekly]
  /\ dirs = [n \in 0..MaxDay |-> EmptyDir]

Dir(w) == dirs[weeklies[w].today]

-----------------------------------------------------------------------------
(* Variant: the day a week ago is left out. *)
RecentExclusive(section, today) == section.day + Week > today

Recent(section, today) == section.day + Week >= today

(* The line that says whether section n is kept: the last heading found at the
   start of a line. *)
Heads(m, n) == m <= n /\ inbox[m].headed /\ \A k \in m + 1..n : ~inbox[k].headed
Keep(n, today) == \E m \in 1..n : Heads(m, n) /\ Recent(inbox[m], today)

(* The week input; with no evidence in it the run stops. *)
ReadWeek(w) ==
  LET input == {n \in DOMAIN inbox : Keep(n, day)} IN
  /\ weeklies[w].pc = "off"
  /\ w <= plan.weeklies
  /\ w > 1 => weeklies[w - 1].pc # "off"
  /\ weeklies' = [weeklies EXCEPT ![w] =
       IF input = {} THEN [@ EXCEPT !.pc = "ended", !.today = day, !.length = Len(inbox)]
       ELSE [@ EXCEPT !.pc = "lanes", !.today = day, !.length = Len(inbox), !.input = input,
                      !.opus = "start", !.sol = "preflight"]]
  /\ UNCHANGED <<triageVars, dirs>>

(* The opus lane: the shell empties opus-eval.md, and claude prints into it. *)
OpusStarts(w) ==
  /\ "opus" \in plan.lanes
  /\ weeklies[w].opus = "start"
  /\ weeklies' = [weeklies EXCEPT ![w].opus = "running"]
  /\ dirs' = [dirs EXCEPT ![weeklies[w].today].opus = {}]
  /\ UNCHANGED triageVars

OpusEnds(w, answers) ==
  /\ weeklies[w].opus = "running"
  /\ weeklies' = [weeklies EXCEPT ![w].opus = "ended"]
  /\ dirs' = [dirs EXCEPT ![weeklies[w].today].opus = IF answers THEN @ \union {w} ELSE @]
  /\ UNCHANGED triageVars

-----------------------------------------------------------------------------
(* The sol lane: codex_dispatch --retry-once. *)

Attempts == 2
Infrastructure == {"auth", "error", "credit"}

(* Variant: an error without a known cause is tried again. *)
ClassifyRetrying(r) ==
  IF ~r.complete THEN "no-completion"
  ELSE IF r.final THEN "ok"
  ELSE IF r.error = "auth" THEN "auth"
  ELSE IF r.error = "none" /\ ~r.credits THEN "credit" ELSE "empty-no-error"

(* The verdict on a round whose rollout was found. *)
Classify(r) ==
  IF ~r.complete THEN "no-completion"
  ELSE IF r.final THEN "ok"
  ELSE IF r.error # "none" THEN (IF r.error = "auth" THEN "auth" ELSE "error")
  ELSE IF ~r.credits THEN "credit" ELSE "empty-no-error"

(* codex cannot log in: a crash record, and nothing is launched. *)
PreflightFails(w) ==
  /\ "sol" \in plan.lanes
  /\ weeklies[w].sol = "preflight"
  /\ weeklies' = [weeklies EXCEPT ![w].sol = "ended", ![w].exit = "97", ![w].records = 1]
  /\ UNCHANGED <<triageVars, dirs>>

Preflight(w) ==
  /\ "sol" \in plan.lanes
  /\ weeklies[w].sol = "preflight"
  /\ weeklies' = [weeklies EXCEPT ![w].sol = "round"]
  /\ UNCHANGED <<triageVars, dirs>>

-----------------------------------------------------------------------------
(* A round: codex exec, and what dispatch_round makes of it. *)

(* What a rollout says that is not over. *)
Unfinished == [complete |-> FALSE, final |-> FALSE, error |-> "none", credits |-> TRUE]

(* The mark, the length of the log, is taken as codex starts; for the properties,
   whether codex has written sol-eval.md. *)
StartRound(w) ==
  /\ weeklies[w].sol = "round"
  /\ FoldFunction(LAMBDA s, n : Len(s.rounds) + n, 0, weeklies) < plan.rounds
  /\ weeklies' = [weeklies EXCEPT ![w].sol = "running",
       ![w].rounds = Append(@, [mark |-> Len(Dir(w).log), wide |-> Dir(w).wide, wrote |-> FALSE,
                                rollout |-> Unfinished, kind |-> "none", read |-> <<>>])]
  /\ UNCHANGED <<triageVars, dirs>>

Number(w) == Len(weeklies[w].rounds)
Current(w) == weeklies[w].rounds[Number(w)]
InRound(w, e) == weeklies' = [weeklies EXCEPT ![w].rounds[Number(w)] = e]

(* codex prints its session id, once the rollout of that name is there. *)
PrintsBanner(w) ==
  /\ weeklies[w].sol = "running"
  /\ <<w, Number(w)>> \notin Range(Dir(w).log)
  /\ dirs' = [dirs EXCEPT ![weeklies[w].today].log = Append(@, <<w, Number(w)>>)]
  /\ UNCHANGED <<triageVars, weeklies>>

(* It prints a character of several bytes. *)
PrintsWide(w) ==
  /\ plan.wide
  /\ weeklies[w].sol = "running"
  /\ dirs' = [dirs EXCEPT ![weeklies[w].today].wide = TRUE]
  /\ UNCHANGED <<triageVars, weeklies>>

WritesSol(w) ==
  /\ weeklies[w].sol = "running"
  /\ dirs' = [dirs EXCEPT ![weeklies[w].today].sol = w]
  /\ InRound(w, [Current(w) EXCEPT !.wrote = TRUE])
  /\ UNCHANGED triageVars

(* The rollout has its last line, and codex goes. *)
CodexEnds(w, r) ==
  /\ weeklies[w].sol = "running"
  /\ weeklies' = [weeklies EXCEPT ![w].sol = "verdict",
       ![w].rounds[Number(w)] = [Current(w) EXCEPT !.rollout = r]]
  /\ UNCHANGED <<triageVars, dirs>>

(* The banner dispatch_round takes for its own: the first after the mark.  The
   mark is a number of bytes and used as one of characters: once there are wide
   ones before it, banners that follow it are skipped, or all.  0: none. *)
After(w) == {j \in DOMAIN Dir(w).log : j > Current(w).mark}
Found(w) ==
  IF Current(w).wide \/ After(w) = {} THEN {0} \union After(w)
  ELSE {j \in After(w) : \A k \in After(w) : j <= k}

(* The round that printed banner j, and what is said of it. *)
RoundOf(w, j) == weeklies[Dir(w).log[j][1]].rounds[Dir(w).log[j][2]]
Kind(w, j) == IF j = 0 THEN "spawn-death" ELSE Classify(RoundOf(w, j).rollout)

(* Where a verdict leaves the dispatch, in its round n. *)
ExitOf(kind, n) ==
  IF kind = "ok" THEN "codex"
  ELSE IF kind \in Infrastructure THEN "97"
  ELSE IF n < Attempts THEN "none" ELSE "98"

(* The verdict, and the crash record when that is not "ok"; for the properties,
   whose session was read. *)
Judge(w, j) ==
  LET kind == Kind(w, j)
      exit == ExitOf(kind, Number(w))
  IN
  /\ weeklies[w].sol = "verdict"
  /\ j \in Found(w)
  /\ weeklies' = [weeklies EXCEPT
       ![w].rounds[Number(w)] = [Current(w) EXCEPT !.kind = kind,
                                   !.read = IF j = 0 THEN <<>> ELSE Dir(w).log[j]],
       ![w].exit = exit, ![w].sol = IF exit = "none" THEN "round" ELSE "ended",
       ![w].records = IF kind = "ok" THEN @ ELSE @ + 1]
  /\ UNCHANGED <<triageVars, dirs>>

(* Something nobody catches: no codex on the PATH, a log, a rollout or the crash
   log that cannot be read or written.  The shell only sees another exit code. *)
DispatchRaises(w) ==
  /\ "sol" \in plan.lanes
  /\ weeklies[w].sol \in {"preflight", "round", "verdict"}
  /\ weeklies' = [weeklies EXCEPT ![w].sol = "ended", ![w].exit = "1"]
  /\ UNCHANGED <<triageVars, dirs>>

-----------------------------------------------------------------------------
(* Both lanes are awaited, however they end; the fold reads what is in the
   directory, and the report that lies there then is copied. *)
Fold(w, writes) ==
  /\ weeklies[w].pc = "lanes"
  /\ weeklies[w].opus = "ended" /\ weeklies[w].sol = "ended"
  /\ dirs' = [dirs EXCEPT ![weeklies[w].today].report = IF writes THEN w ELSE @]
  /\ weeklies' = [weeklies EXCEPT ![w] =
       [@ EXCEPT !.pc = "ended", !.readOpus = Dir(w).opus, !.readSol = Dir(w).sol,
                 !.report = IF writes THEN w ELSE Dir(w).report]]
  /\ UNCHANGED triageVars

(* The shell dies; its lanes go on. *)
WeeklyDies(w) ==
  /\ weeklies[w].pc = "lanes"
  /\ weeklies' = [weeklies EXCEPT ![w].pc = "died"]
  /\ UNCHANGED <<triageVars, dirs>>

WeeklyStep(w) ==
  \/ ReadWeek(w) \/ OpusStarts(w) \/ (\E answers \in BOOLEAN : OpusEnds(w, answers))
  \/ PreflightFails(w) \/ Preflight(w) \/ DispatchRaises(w)
  \/ StartRound(w) \/ PrintsBanner(w) \/ PrintsWide(w) \/ WritesSol(w)
  \/ (\E r \in Rollouts : CodexEnds(w, r)) \/ (\E j \in 0..Len(Dir(w).log) : Judge(w, j))
  \/ (\E writes \in BOOLEAN : Fold(w, writes)) \/ WeeklyDies(w)

Next ==
  \/ TriageNext /\ UNCHANGED <<weeklies, dirs>>
  \/ \E w \in Weeklies : WeeklyStep(w)

Spec == Init /\ [][Next]_vars

-----------------------------------------------------------------------------
(* Nothing falls between two weekly runs that are a week apart: a section that
   was added after the first had read the inbox is in the input of the second,
   the evidence of the same day included, unless the delta that wrote it began
   on an earlier day.  A section whose heading does not begin a line goes where
   the section goes that heads it: if that was there before the first run, it
   may be in neither input. *)
SectionsReachAWeek ==
  \A v, w \in Weeklies :
    (/\ weeklies[v].pc # "off" /\ weeklies[w].pc # "off"
     /\ weeklies[w].today <= weeklies[v].today + Week)
    => \A n \in (weeklies[v].length + 1)..weeklies[w].length :
         \A m \in (weeklies[v].length + 1)..n :
           (Heads(m, n) /\ inbox[m].day = inbox[m].on) => n \in weeklies[w].input

(* Another run of the same day, which shares the directory. *)
Sibling(v, w) == v # w /\ weeklies[v].pc # "off" /\ weeklies[v].today = weeklies[w].today
Alone(w) == \A v \in Weeklies : ~Sibling(v, w)

Answered(r) == r.complete /\ r.final
AccountFailed(r) == r.complete /\ ~r.final /\ (r.error # "none" \/ ~r.credits)
Rollout(session) == weeklies[session[1]].rounds[session[2]].rollout
Undecided(s) == s.sol \in {"running", "verdict"} \/ s.exit = "1"

(* "Never let a dead run pass as no findings": the dispatch passes only on an
   answer, that of its last round or of another run of the day; it tries at most
   twice, and each round that was judged has a crash record unless it passed.
   A run that is alone that day passes on an answer and never spends another
   round after a failure of the account, unless the log held wide characters
   before the round or the verdict was never reached. *)
DeadRoundsAreTold ==
  \A w \in Weeklies : LET s == weeklies[w] n == Number(w) IN
    /\ s.exit = "codex" =>
         /\ Answered(Rollout(s.rounds[n].read))
         /\ s.rounds[n].read = <<w, n>> \/ Sibling(s.rounds[n].read[1], w)
    /\ n <= Attempts
    /\ s.records = Cardinality({k \in 1..n : s.rounds[k].kind \notin {"ok", "none"}})
                   + (IF s.exit = "97" /\ n = 0 THEN 1 ELSE 0)
    /\ \A k \in 1..n : s.rounds[k].kind = "none" => k = n /\ Undecided(s)
    /\ \A k \in 1..n :
         (/\ Alone(w) /\ ~s.rounds[k].wide /\ <<w, k>> \in Range(Dir(w).log)
          /\ s.rounds[k].kind # "none") =>
           /\ Answered(s.rounds[k].rollout) => k = n /\ s.exit = "codex"
           /\ AccountFailed(s.rounds[k].rollout) => k = n /\ s.exit = "97"

(* What a fold reads and what is copied as the week's report is of its own run,
   unless another run of the day was there; and the sol lane counts as empty
   only when none of its rounds wrote its file. *)
OwnLanes ==
  \A w \in Weeklies : LET s == weeklies[w] IN s.pc = "ended" =>
    /\ \A v \in s.readOpus : v = w \/ Sibling(v, w)
    /\ s.readSol = 0 => \A k \in DOMAIN s.rounds : ~s.rounds[k].wrote
    /\ \A v \in {s.readSol, s.report} \ {0, w} : Sibling(v, w)

(* The two promises of the lanes. *)
LanesTellWhatTheyHave == DeadRoundsAreTold /\ OwnLanes
=============================================================================
