---------------------------- MODULE ReferenceRun ----------------------------
(***************************************************************************)
(* bench/run_reference.py: several invocations, each with its own wave of  *)
(* task ids, clone a task's repository, let a headless agent work in the   *)
(* clone, measure what it left and keep everything in bench/out/<ID>/.     *)
(*                                                                         *)
(* An attempt is one pass of run_task over one id.  Attempts are numbered  *)
(* as they claim their output directory; a file of that directory is       *)
(* represented by the attempt that wrote it, and a workspace by the        *)
(* attempt that cloned it and the attempts whose agent wrote in it.        *)
(***************************************************************************)
EXTENDS Naturals, Sequences, FiniteSets, Functions

CONSTANTS
  NumInvocations, \* processes running main(), in the order of their start
  Tasks,         \* task ids with a file in --tasks-dir
  Waves,         \* the --tasks lists given: sequences of task ids
  MaxAttempts,   \* bound on the attempts of all invocations together
  Options,       \* the --force flag and the mode it is run in: pairs
  RunFacts       \* what an agent's run can look like when it is over

ASSUME ReferenceAssumption ==
  /\ Waves \subseteq Seq(Tasks)
  /\ Options \subseteq BOOLEAN \X {"claude", "codex", "dry"}
  /\ Tasks # {} /\ MaxAttempts \in Nat /\ NumInvocations \in Nat \ {0}
  /\ RunFacts \subseteq [timedOut : BOOLEAN, json : BOOLEAN, garbled : BOOLEAN,
                         zero : BOOLEAN, isError : BOOLEAN]

VARIABLES
  pc,       \* pc[i]: where invocation i stands
  wave,     \* wave[i]: the ids still to do, the current one first
  ids,      \* ids[i]: the ids it was given
  forced,   \* forced[i]: --force
  mode,     \* mode[i]: "claude", "codex" or "dry"
  worst,    \* worst[i]: the exit code so far
  at,       \* at[i]: the attempt in progress
  last,     \* the number of attempts so far
  log,      \* log[a]: what run_task knows in attempt a
  dir,      \* dir[t]: the attempt that made out_dir, 0 when there is none
  file,     \* file[t][f]: the attempt that wrote f there, 0 when absent
  ws,       \* ws[t]: the workspace of t
  live,     \* the attempts of whose agent a process still runs
  newest,   \* newest[t][m]: the attempt with m in t's workspace whose transcript was
            \* written last, 0 when there is none
  fresh     \* fresh[t]: the m whose newest the attempt at t holds to be recent

vars == <<pc, wave, ids, forced, mode, worst, at, last, log, dir, file, ws, live,
          newest, fresh>>
invVars == <<wave, ids, forced, mode, worst, at, last>>
outVars == <<dir, file>>
sessions == <<newest, fresh>>

Invocations == 1..NumInvocations
Agents == {"claude", "codex"}
Attempts == 1..MaxAttempts
Files == {"run", "guard", "diff", "evidence", "transcript", "summary"}
NoFiles == [f \in Files |-> 0]
NoSpace == [base |-> 0, writers |-> {}]
InAttempt == {"clone", "scaffold", "agent", "running", "record", "guard", "diff",
              "evidence", "transcript", "summary"}
Over == {"off", "done", "aborted", "killed"}

(* The fields of an attempt: who makes it, of which task and how; whether the
   model was paid, something of its agent outlived the wait for it, its session
   wrote a transcript, its directory was dropped; the agent's run while it
   matters; the clone and the writers that diff and evidence saw; whose
   transcript was found. *)
Blank == [by |-> CHOOSE i \in Invocations : TRUE, task |-> CHOOSE t \in Tasks : TRUE,
          forced |-> FALSE, mode |-> "dry", charged |-> FALSE, outlived |-> FALSE,
          wrote |-> FALSE, dropped |-> FALSE, facts |-> {}, clone |-> 0, saw |-> {}, found |-> 0]

Init ==
  /\ pc = [i \in Invocations |-> "off"]
  /\ wave = [i \in Invocations |-> <<>>]
  /\ ids = [i \in Invocations |-> <<>>]
  /\ forced = [i \in Invocations |-> FALSE]
  /\ mode = [i \in Invocations |-> "dry"]
  /\ worst = [i \in Invocations |-> 0]
  /\ at = [i \in Invocations |-> 0]
  /\ last = 0
  /\ log = [a \in Attempts |-> Blank]
  /\ dir = [t \in Tasks |-> 0]
  /\ file = [t \in Tasks |-> NoFiles]
  /\ ws = [t \in Tasks |-> NoSpace]
  /\ live = {}
  /\ newest = [t \in Tasks |-> [m \in Agents |-> 0]]
  /\ fresh = [t \in Tasks |-> {}]

-----------------------------------------------------------------------------
(* The wave. *)

Current(i) == Head(wave[i])

(* Bounds: two waves that run at once have disjoint ids; all waves together
   have at most MaxAttempts ids. *)
Start(i, w, o) ==
  /\ pc[i] = "off"
  /\ i > 1 => pc[i - 1] # "off"
  /\ w # <<>>
  /\ FoldFunction(LAMBDA x, n : Len(x) + n, Len(w), ids) <= MaxAttempts
  /\ \A j \in Invocations : pc[j] \notin Over => Range(w) \cap Range(ids[j]) = {}
  /\ pc' = [pc EXCEPT ![i] = "next"]
  /\ wave' = [wave EXCEPT ![i] = w]
  /\ ids' = [ids EXCEPT ![i] = w]
  /\ forced' = [forced EXCEPT ![i] = o[1]]
  /\ mode' = [mode EXCEPT ![i] = o[2]]
  /\ UNCHANGED <<worst, at, last, log, dir, file, ws, live, sessions>>

(* Variant: a task that crashed does not count. *)
SettleQuietly(i, code) ==
  /\ worst' = [worst EXCEPT ![i] = IF code > @ /\ code # 6 THEN code ELSE @]
  /\ wave' = [wave EXCEPT ![i] = Tail(@)]
  /\ pc' = [pc EXCEPT ![i] = "next"]
  /\ UNCHANGED <<ids, forced, mode, at, last>>


(* run_task has returned code, or raised. *)
Settle(i, code) ==
  /\ worst' = [worst EXCEPT ![i] = IF code > @ THEN code ELSE @]
  /\ wave' = [wave EXCEPT ![i] = Tail(@)]
  /\ pc' = [pc EXCEPT ![i] = "next"]
  /\ UNCHANGED <<ids, forced, mode, at, last>>

EndWave(i) ==
  /\ pc[i] = "next"
  /\ wave[i] = <<>>
  /\ pc' = [pc EXCEPT ![i] = "done"]
  /\ UNCHANGED <<invVars, log, outVars, ws, live, sessions>>

(* load_task: the yaml does not parse, which main catches as a crash. *)
LoadCrashes(i) ==
  /\ pc[i] = "next"
  /\ wave[i] # <<>>
  /\ Settle(i, 6)
  /\ UNCHANGED <<log, outVars, ws, live, sessions>>

(* load_task: no such file, a missing field or another id.  SystemExit is no
   Exception: it ends main. *)
LoadExits(i) ==
  /\ pc[i] = "next"
  /\ wave[i] # <<>>
  /\ pc' = [pc EXCEPT ![i] = "aborted"]
  /\ UNCHANGED <<invVars, log, outVars, ws, live, sessions>>

-----------------------------------------------------------------------------
(* Variant: only a finished directory is refused. *)
FinishedThere(t) == file[t]["summary"] # 0

OutputThere(t) == dir[t] # 0

(* out_dir exists and there is no --force: return 4. *)
Refuse(i) ==
  /\ pc[i] = "next"
  /\ wave[i] # <<>>
  /\ OutputThere(Current(i))
  /\ ~forced[i]
  /\ Settle(i, 4)
  /\ UNCHANGED <<log, outVars, ws, live, sessions>>

(* --force: shutil.rmtree(out_dir). *)
Remove(i) ==
  /\ pc[i] = "next"
  /\ wave[i] # <<>>
  /\ dir[Current(i)] # 0
  /\ forced[i]
  /\ log' = [log EXCEPT ![dir[Current(i)]] =
       [@ EXCEPT !.dropped = TRUE, !.clone = 0, !.saw = {}, !.found = 0]]
  /\ dir' = [dir EXCEPT ![Current(i)] = 0]
  /\ file' = [file EXCEPT ![Current(i)] = NoFiles]
  /\ pc' = [pc EXCEPT ![i] = "make"]
  /\ UNCHANGED <<invVars, ws, live, sessions>>

(* Variant: --force writes into the directory that is there. *)
ReadyOrForced(i, t) == forced[i] \/ dir[t] = 0

Ready(i, t) == ~OutputThere(t)

(* out_dir.mkdir, which raises when it exists, and git status of the source. *)
Claim(i) ==
  /\ pc[i] \in {"next", "make"}
  /\ wave[i] # <<>>
  /\ last < MaxAttempts
  /\ Ready(i, Current(i))
  /\ dir' = [dir EXCEPT ![Current(i)] = last + 1]
  /\ log' = [log EXCEPT ![last + 1] =
       [Blank EXCEPT !.by = i, !.task = Current(i), !.forced = forced[i],
                     !.mode = mode[i]]]
  /\ at' = [at EXCEPT ![i] = last + 1]
  /\ last' = last + 1
  /\ pc' = [pc EXCEPT ![i] = "clone"]
  /\ UNCHANGED <<wave, ids, forced, mode, worst, file, ws, live, sessions>>

(* Variant: a workspace that is there is used again. *)
UsedAgain(a, t) == IF ws[t] = NoSpace THEN [base |-> a, writers |-> {}] ELSE ws[t]

Cloned(a, t) == [base |-> a, writers |-> {}]

(* The workspace is removed and cloned afresh, with hard links and if that
   fails without, checked out at pre_tag and cut off from its origin. *)
Clone(i) ==
  LET t == Current(i) IN
  /\ pc[i] = "clone"
  /\ ws' = [ws EXCEPT ![t] = Cloned(at[i], t)]
  /\ pc' = [pc EXCEPT ![i] = "scaffold"]
  /\ UNCHANGED <<invVars, log, outVars, live, sessions>>

(* git fails or takes too long; what there is of the clone stays. *)
CloneFails(i) ==
  LET t == Current(i) IN
  /\ pc[i] = "clone"
  /\ \E left \in {NoSpace, Cloned(at[i], t)} : ws' = [ws EXCEPT ![t] = left]
  /\ file' = [file EXCEPT ![t]["summary"] = at[i]]
  /\ Settle(i, 5)
  /\ UNCHANGED <<log, dir, live, sessions>>

(* check_scaffold and inject_tree add files that git is told to ignore. *)
Scaffold(i) ==
  /\ pc[i] = "scaffold"
  /\ pc' = [pc EXCEPT ![i] = IF mode[i] = "dry" THEN "record" ELSE "agent"]
  /\ UNCHANGED <<invVars, log, outVars, ws, live, sessions>>

-----------------------------------------------------------------------------
(* The agent: a process of its own session, so that it outlives main. *)

(* since_ts is taken: what was written in the five seconds before counts too. *)
Spawn(i) ==
  LET t == Current(i) IN
  /\ pc[i] = "agent"
  /\ live' = live \union {at[i]}
  /\ log' = [log EXCEPT ![at[i]].charged = TRUE]
  /\ \E recent \in SUBSET {m \in {mode[i]} : newest[t][m] # 0} :
       fresh' = [fresh EXCEPT ![t] = recent]
  /\ pc' = [pc EXCEPT ![i] = "running"]
  /\ UNCHANGED <<invVars, outVars, ws, newest>>

(* The agent edits the directory it was started in, whoever cloned it since. *)
AgentEdits(a) ==
  /\ a \in live
  /\ ws[log[a].task].base # 0
  /\ ws' = [ws EXCEPT ![log[a].task].writers = @ \union {a}]
  /\ UNCHANGED <<pc, invVars, log, outVars, live, sessions>>

(* The CLI writes to its session's transcript, far from the workspace. *)
AgentLogs(a) ==
  LET t == log[a].task IN
  /\ a \in live
  /\ log' = [log EXCEPT ![a].wrote = TRUE]
  /\ newest' = [newest EXCEPT ![t][log[a].mode] = a]
  /\ fresh' = [fresh EXCEPT ![t] = @ \union {log[a].mode}]
  /\ UNCHANGED <<pc, invVars, outVars, ws, live>>

(* run_codex_impl makes its own cli_result; json.loads gives claude's, or no
   object at all. *)
Possible(m, f) ==
  IF m = "codex"
  THEN f.json /\ ~f.garbled /\ (f.isError <=> f.timedOut \/ ~f.zero)
  ELSE ~(f.json /\ f.garbled) /\ (f.isError => f.json)

(* Nobody waits for the agent any more.  A process it left in the background
   lives on, one that took no notice of a SIGTERM, or the whole group when it
   could not be signalled. *)
Ended(e, facts, stays) == [e EXCEPT !.facts = facts, !.outlived = @ \/ stays]
WaitOver(i, facts) ==
  \E stays \in BOOLEAN :
    /\ live' = IF stays THEN live ELSE live \ {at[i]}
    /\ log' = [log EXCEPT ![at[i]] = Ended(@, facts, stays)]

(* communicate returns or, at the time limit, raises; then the group is
   signalled and what it had written is collected. *)
AgentEnds(i, f) ==
  /\ pc[i] = "running"
  /\ Possible(mode[i], f)
  /\ WaitOver(i, {f})
  /\ pc' = [pc EXCEPT ![i] = "record"]
  /\ UNCHANGED <<invVars, outVars, ws, sessions>>

(* What nobody waits for ends some time. *)
Awaited(a) == \E i \in Invocations : at[i] = a /\ pc[i] = "running"
SurvivorEnds(a) ==
  /\ a \in live
  /\ ~Awaited(a)
  /\ live' = live \ {a}
  /\ UNCHANGED <<pc, invVars, log, outVars, ws, sessions>>

-----------------------------------------------------------------------------
(* What is kept of the attempt. *)

WriteFile(i, f) == file' = [file EXCEPT ![Current(i)][f] = at[i]]

WriteRun(i) ==
  /\ pc[i] = "record"
  /\ WriteFile(i, "run")
  /\ pc' = [pc EXCEPT ![i] = "guard"]
  /\ UNCHANGED <<invVars, log, dir, ws, live, sessions>>

WriteGuard(i) ==
  /\ pc[i] = "guard"
  /\ WriteFile(i, "guard")
  /\ pc' = [pc EXCEPT ![i] = "diff"]
  /\ UNCHANGED <<invVars, log, dir, ws, live, sessions>>

(* The shim's digest, git diff and git status. *)
WriteDiff(i) ==
  /\ pc[i] = "diff"
  /\ WriteFile(i, "diff")
  /\ log' = [log EXCEPT ![at[i]].saw = ws[Current(i)].writers]
  /\ pc' = [pc EXCEPT ![i] = "evidence"]
  /\ UNCHANGED <<invVars, dir, ws, live, sessions>>

(* Each command of success_evidence runs to an end of its own. *)
WriteEvidence(i) ==
  /\ pc[i] = "evidence"
  /\ WriteFile(i, "evidence")
  /\ log' = [log EXCEPT ![at[i]].clone = ws[Current(i)].base,
                        ![at[i]].saw = @ \union ws[Current(i)].writers]
  /\ pc' = [pc EXCEPT ![i] = "transcript"]
  /\ UNCHANGED <<invVars, dir, ws, live, sessions>>

(* Among the transcripts of sessions held in t's workspace the one written last,
   if that is recent. *)
NewestIn(t, m) == {b \in Attempts : b = newest[t][m] /\ m \in fresh[t]}

(* The session id in cli_result is that of the CLI's own session: its attempt. *)
Printed(a) == IF \E f \in log[a].facts : f.json THEN a ELSE 0

(* Variant: the transcript is looked for by directory, as codex's is. *)
FindableByDirectory(a) == NewestIn(log[a].task, log[a].mode)

(* claude: the file that bears the printed session id, if there is one. *)
Findable(a) ==
  IF log[a].mode = "claude"
  THEN {b \in Attempts : b = Printed(a) /\ log[b].wrote}
  ELSE NewestIn(log[a].task, log[a].mode)

CopyTranscript(i) ==
  /\ pc[i] = "transcript"
  /\ mode[i] # "dry"
  /\ \E b \in Findable(at[i]) :
       /\ log' = [log EXCEPT ![at[i]].found = b]
       /\ WriteFile(i, "transcript")
  /\ pc' = [pc EXCEPT ![i] = "summary"]
  /\ UNCHANGED <<invVars, dir, ws, live, sessions>>

(* --dry-run, or nothing that can be verified and is stable. *)
NoTranscript(i) ==
  /\ pc[i] = "transcript"
  /\ pc' = [pc EXCEPT ![i] = "summary"]
  /\ UNCHANGED <<invVars, log, outVars, ws, live, sessions>>

(* classify_run: the first of these that holds. *)
Status(a) ==
  LET f == CHOOSE f \in log[a].facts : TRUE
      real == log[a].mode # "dry"
  IN CASE real /\ f.timedOut -> "timeout"
       [] real /\ ~f.timedOut /\ f.garbled -> "parse_error"
       [] real /\ ~f.timedOut /\ ~f.garbled /\ ~f.zero -> "nonzero_exit"
       [] real /\ ~f.timedOut /\ ~f.garbled /\ f.zero /\ f.isError -> "api_error"
       [] real /\ ~f.timedOut /\ ~f.garbled /\ f.zero /\ ~f.isError /\ log[a].found = 0 ->
            "transcript_missing"
       [] OTHER -> "ok"

(* Only a transcript that is missing makes the exit code. *)
Summarize(i) ==
  /\ pc[i] = "summary"
  /\ WriteFile(i, "summary")
  /\ Settle(i, IF Status(at[i]) = "transcript_missing" THEN 7 ELSE 0)
  /\ log' = [log EXCEPT ![at[i]].facts = {}]
  /\ UNCHANGED <<dir, ws, live, sessions>>

(* Something nobody catches before main: git ls-tree fails, codex is not on
   the PATH, its group is gone or does not end when it is killed, what an agent
   printed is no text, an evidence command does not split, a file cannot be
   written. *)
Crash(i) ==
  /\ pc[i] \in InAttempt
  /\ \/ pc[i] = "running" /\ WaitOver(i, {})
     \/ pc[i] # "running" /\ log' = [log EXCEPT ![at[i]].facts = {}] /\ UNCHANGED live
  /\ Settle(i, 6)
  /\ UNCHANGED <<outVars, ws, sessions>>

(* The process dies; the agent does not. *)
Kill(i) ==
  /\ pc[i] \notin Over
  /\ pc' = [pc EXCEPT ![i] = "killed"]
  /\ log' = [a \in Attempts |->
       IF pc[i] \in InAttempt /\ a = at[i]
       THEN Ended(log[a], {}, pc[i] = "running") ELSE log[a]]
  /\ UNCHANGED <<invVars, outVars, ws, live, sessions>>

-----------------------------------------------------------------------------
Step(i) ==
  \/ EndWave(i) \/ LoadCrashes(i) \/ LoadExits(i) \/ Refuse(i) \/ Remove(i) \/ Claim(i)
  \/ Clone(i) \/ CloneFails(i) \/ Scaffold(i) \/ Spawn(i)
  \/ \E f \in RunFacts : AgentEnds(i, f)
  \/ WriteRun(i) \/ WriteGuard(i) \/ WriteDiff(i)
  \/ WriteEvidence(i)
  \/ CopyTranscript(i) \/ NoTranscript(i) \/ Summarize(i) \/ Crash(i)

Agent(a) == AgentEdits(a) \/ AgentLogs(a) \/ SurvivorEnds(a)

Next ==
  \/ \E i \in Invocations, w \in Waves, o \in Options : Start(i, w, o)
  \/ \E i \in Invocations : Step(i) \/ Kill(i)
  \/ \E a \in Attempts : Agent(a)

Spec == Init /\ [][Next]_vars
FairSpec == Spec /\ \A i \in Invocations : WF_vars(Step(i))

-----------------------------------------------------------------------------
Modes == Agents \union {"dry"}
Entries == [by : Invocations, task : Tasks, forced : BOOLEAN, mode : Modes,
            charged : BOOLEAN, outlived : BOOLEAN, wrote : BOOLEAN, dropped : BOOLEAN,
            facts : SUBSET RunFacts, clone : Nat, saw : SUBSET Nat, found : Nat]

(* Every variable stays in its type, and no directory is of an attempt that has
   not begun. *)
TypeOK ==
  /\ pc \in [Invocations -> InAttempt \union Over \union {"next", "make"}]
  /\ wave \in [Invocations -> Seq(Tasks)] /\ ids \in [Invocations -> Seq(Tasks)]
  /\ forced \in [Invocations -> BOOLEAN] /\ mode \in [Invocations -> Modes]
  /\ worst \in [Invocations -> Nat]
  /\ at \in [Invocations -> Nat] /\ last \in 0..MaxAttempts
  /\ log \in [Attempts -> Entries]
  /\ dir \in [Tasks -> 0..last] /\ file \in [Tasks -> [Files -> Nat]]
  /\ ws \in [Tasks -> [base : Nat, writers : SUBSET Nat]]
  /\ live \subseteq Attempts
  /\ newest \in [Tasks -> [Agents -> Nat]] /\ fresh \in [Tasks -> SUBSET Modes]

(* A directory never mixes two attempts: whatever was killed, crashed, forced
   or listed twice in a wave, all its files are of the attempt that made it. *)
OneAttempt ==
  \A t \in Tasks : \A f \in Files : file[t][f] \in {0, dir[t]}

(* "Idempotence": once an agent was paid for a task, no attempt without
   --force pays again, unless a --force run dropped that output. *)
PaidOnce ==
  \A a, b \in Attempts :
    (a < b /\ log[a].task = log[b].task /\ log[a].charged /\ log[b].charged /\ ~log[b].forced)
      => log[a].dropped

(* What the evidence was measured on is the attempt's own clone, and nobody
   wrote in it but the attempt's agent and what earlier attempts at the same
   task left running when their harness stopped to wait. *)
MeasuredOwnClone ==
  \A t \in Tasks : LET a == file[t]["evidence"] IN
    a # 0 => /\ log[a].clone = a
             /\ \A b \in log[a].saw : b = a \/ (b < a /\ log[b].task = t /\ log[b].outlived)

(* The transcript kept with an attempt is that of its own session, though other
   sessions were held in the same directory.  One of codex's may be an earlier
   attempt's at the same task, but only when the attempt's own session wrote
   none or the earlier agent outlived the wait for it. *)
OwnTranscript ==
  [][\A t \in Tasks : LET a == file'[t]["transcript"] IN
       (a # 0 /\ file[t]["transcript"] # a) =>
         LET b == log'[a].found IN
           \/ b = a /\ log[a].wrote
           \/ /\ log[a].mode = "codex"
              /\ b < a /\ log[b].task = t /\ log[b].mode = "codex"
              /\ log[b].outlived \/ ~log[a].wrote]_vars

(* A wave that exits with 0 leaves the finished output of its own attempts for
   every id it was given. *)
ZeroExitMeansSummaries ==
  [][\A i \in Invocations : (pc[i] # "done" /\ pc'[i] = "done" /\ worst[i] = 0) =>
       \A t \in Range(ids[i]) :
         /\ file[t]["summary"] # 0
         /\ file[t]["summary"] = dir[t]
         /\ log[dir[t]].by = i]_vars

=============================================================================
