------------------------- MODULE ReferenceRunProofs -------------------------
(***************************************************************************)
(* Proofs about the reference wave, for any number of invocations, any     *)
(* tasks, waves and options and any way an agent's run can end.            *)
(***************************************************************************)
EXTENDS ReferenceRun, TLAPS

(* Invocations that run at once work on different tasks. *)
Apart ==
  /\ \A i \in Invocations : Range(wave[i]) \subseteq Range(ids[i])
  /\ \A i, j \in Invocations :
       (i # j /\ pc[i] \notin Over /\ pc[j] \notin Over) => Range(ids[i]) \cap Range(ids[j]) = {}

(* An invocation in an attempt holds the directory of its task. *)
Holding ==
  \A i \in Invocations : pc[i] \in InAttempt =>
    /\ wave[i] # <<>>
    /\ at[i] \in 1..last
    /\ dir[Current(i)] = at[i]

(* An attempt has its directory until a --force run drops it. *)
Kept ==
  /\ \A t \in Tasks : dir[t] # 0 => log[dir[t]].task = t
  /\ \A a \in 1..last : log[a].dropped \/ dir[log[a].task] = a
  /\ \A a, b \in 1..last : (a < b /\ log[a].task = log[b].task) => log[a].dropped
  /\ \A a \in Attempts : a > last => ~log[a].charged

RunInv == TypeOK /\ Apart /\ Holding /\ Kept /\ OneAttempt

-----------------------------------------------------------------------------
LEMMA Waving ==
  ASSUME NEW w \in Seq(Tasks), w # <<>>
  PROVE  /\ Head(w) \in Tasks /\ Head(w) \in Range(w)
         /\ Tail(w) \in Seq(Tasks) /\ Range(Tail(w)) \subseteq Range(w)
<1>1. Len(w) \in Nat \ {0} /\ 1 \in DOMAIN w /\ Head(w) = w[1] OBVIOUS
<1>2. \A n \in DOMAIN Tail(w) : n + 1 \in DOMAIN w /\ Tail(w)[n] = w[n + 1] OBVIOUS
<1> QED BY <1>1, <1>2 DEF Range

(* The updates of an attempt's entry that the actions make. *)
LEMMA EntryChanges ==
  ASSUME NEW e \in Entries, NEW n \in Nat, NEW s \in SUBSET Nat, NEW fs \in SUBSET RunFacts
  PROVE  /\ [e EXCEPT !.dropped = TRUE, !.clone = 0, !.saw = {}, !.found = 0] \in Entries
         /\ [e EXCEPT !.charged = TRUE] \in Entries
         /\ [e EXCEPT !.facts = fs] \in Entries
         /\ [e EXCEPT !.wrote = TRUE] \in Entries
         /\ [e EXCEPT !.saw = s] \in Entries
         /\ [e EXCEPT !.clone = n] \in Entries
         /\ [e EXCEPT !.found = n] \in Entries
         /\ \A b \in BOOLEAN : Ended(e, fs, b) \in Entries
BY DEF Entries, Ended

(* What becomes of the log when the wait for an agent is over. *)
LEMMA WaitLog ==
  ASSUME NEW i \in Invocations, NEW fs, WaitOver(i, fs)
  PROVE  /\ live' \subseteq live
         /\ \E b \in BOOLEAN :
              /\ log' = [log EXCEPT ![at[i]] = Ended(log[at[i]], fs, b)]
              /\ at[i] \in live' => b
BY DEF WaitOver

LEMMA NewEntry ==
  ASSUME ReferenceAssumption, NEW i \in Invocations, NEW t \in Tasks, NEW b \in BOOLEAN, NEW m \in Modes
  PROVE  [Blank EXCEPT !.by = i, !.task = t, !.forced = b, !.mode = m] \in Entries
BY DEF Entries, Blank

LEMMA Initially == ASSUME ReferenceAssumption, Init PROVE RunInv
<1>1. Blank \in Entries
  <2>1. 1 \in Invocations BY DEF ReferenceAssumption, Invocations
  <2>2. (CHOOSE i \in Invocations : TRUE) \in Invocations BY <2>1
  <2>3. (CHOOSE t \in Tasks : TRUE) \in Tasks BY DEF ReferenceAssumption
  <2> QED BY <2>2, <2>3 DEF Blank, Entries, Modes
<1>2. TypeOK
  <2>1. log \in [Attempts -> Entries] BY <1>1 DEF Init
  <2>2. file \in [Tasks -> [Files -> Nat]] BY DEF Init, NoFiles
  <2>3. ws \in [Tasks -> [base : Nat, writers : SUBSET Nat]] BY DEF Init, NoSpace
  <2>4. /\ pc \in [Invocations -> InAttempt \union Over \union {"next", "make"}]
        /\ wave \in [Invocations -> Seq(Tasks)] /\ ids \in [Invocations -> Seq(Tasks)]
    BY DEF Init, Over
  <2> QED BY <2>1, <2>2, <2>3, <2>4 DEF ReferenceAssumption, Init, TypeOK, Modes
<1>3. Apart /\ Holding
  BY DEF Init, Apart, Holding, Over, InAttempt, Range
<1>4. Kept /\ OneAttempt
  BY DEF Init, Kept, OneAttempt, NoFiles, Blank, Files
<1> QED BY <1>2, <1>3, <1>4 DEF RunInv

(* The step forward of one invocation: only its place in the program changes. *)
LEMMA TypedStep == ASSUME ReferenceAssumption, TypeOK, Holding, Next PROVE TypeOK'
<1> USE DEF TypeOK, sessions
<1>1. ASSUME NEW i \in Invocations, NEW w \in Waves, NEW o \in Options, Start(i, w, o)
      PROVE  TypeOK'
  BY <1>1 DEF Start, ReferenceAssumption, Modes, Agents
<1>2. ASSUME NEW i \in Invocations, EndWave(i) \/ LoadExits(i)
      PROVE  TypeOK'
  BY <1>2 DEF EndWave, LoadExits, Over, invVars, outVars
<1>3. ASSUME NEW i \in Invocations, wave[i] # <<>>, NEW code \in Nat, Settle(i, code),
             log' \in [Attempts -> Entries], file' \in [Tasks -> [Files -> Nat]],
             ws' \in [Tasks -> [base : Nat, writers : SUBSET Nat]], UNCHANGED dir, live' \subseteq live,
             UNCHANGED sessions
      PROVE  TypeOK'
  <2>1. wave' \in [Invocations -> Seq(Tasks)] BY <1>3, Waving DEF Settle
  <2> QED BY <1>3, <2>1 DEF Settle
<1>4. ASSUME NEW i \in Invocations, LoadCrashes(i) \/ Refuse(i)
      PROVE  TypeOK'
  BY <1>3, <1>4 DEF LoadCrashes, Refuse, outVars
<1>5. ASSUME NEW i \in Invocations, Remove(i)
      PROVE  TypeOK'
  <2>1. Current(i) \in Tasks BY <1>5, Waving DEF Remove, Current
  <2>2. dir[Current(i)] \in Attempts BY <1>5, <2>1 DEF Remove, Attempts, ReferenceAssumption
  <2>3. log' \in [Attempts -> Entries] BY <1>5, <2>2, EntryChanges DEF Remove
  <2>4. file' \in [Tasks -> [Files -> Nat]] BY <1>5, <2>1 DEF Remove, NoFiles
  <2> QED BY <1>5, <2>1, <2>3, <2>4, SMTT(30) DEF Remove, invVars
<1>6. ASSUME NEW i \in Invocations, Claim(i)
      PROVE  TypeOK'
  <2>1. Current(i) \in Tasks BY <1>6, Waving DEF Claim, Current
  <2>2. last + 1 \in Attempts /\ last' \in 0..MaxAttempts
    BY <1>6 DEF Claim, Attempts, ReferenceAssumption
  <2>3. log' \in [Attempts -> Entries] BY <1>6, <2>1, <2>2, NewEntry DEF Claim
  <2>4. dir' \in [Tasks -> 0..last'] BY <1>6, <2>1, <2>2 DEF Claim
  <2>5. at' \in [Invocations -> Nat] BY <1>6 DEF Claim
  <2> QED BY <1>6, <2>2, <2>3, <2>4, <2>5 DEF Claim, InAttempt
<1>7. ASSUME NEW i \in Invocations, pc[i] \in InAttempt
      PROVE  wave[i] # <<>> /\ Current(i) \in Tasks /\ at[i] \in Attempts /\ at[i] \in Nat
  BY <1>7, Waving DEF Holding, Current, Attempts, ReferenceAssumption
<1>8. ASSUME NEW i \in Invocations, pc[i] \in InAttempt, NEW f \in Files, WriteFile(i, f)
      PROVE  file' \in [Tasks -> [Files -> Nat]]
  BY <1>7, <1>8 DEF WriteFile
<1>9. ASSUME NEW i \in Invocations, Clone(i) \/ Scaffold(i) \/ WriteRun(i) \/ WriteGuard(i)
      PROVE  TypeOK'
  <2>1. pc[i] \in InAttempt BY <1>9 DEF Clone, Scaffold, WriteRun, WriteGuard, InAttempt
  <2>2. file' \in [Tasks -> [Files -> Nat]]
    BY <1>8, <1>9, <2>1 DEF Clone, Scaffold, WriteRun, WriteGuard, outVars, Files
  <2>3. ws' \in [Tasks -> [base : Nat, writers : SUBSET Nat]]
    <3>1. Cloned(at[i], Current(i)) \in [base : Nat, writers : SUBSET Nat]
      BY <1>7, <2>1 DEF Cloned
    <3> QED BY <1>7, <1>9, <2>1, <3>1 DEF Clone, Scaffold, WriteRun, WriteGuard
  <2> QED BY <1>9, <2>2, <2>3 DEF Clone, Scaffold, WriteRun, WriteGuard, invVars, outVars, InAttempt
<1>10. ASSUME NEW i \in Invocations, CloneFails(i) PROVE TypeOK'
  <2>1. pc[i] \in InAttempt BY <1>10 DEF CloneFails, InAttempt
  <2>2. file' \in [Tasks -> [Files -> Nat]] BY <1>7, <1>10, <2>1 DEF CloneFails, Files
  <2>3. ws' \in [Tasks -> [base : Nat, writers : SUBSET Nat]]
    BY <1>7, <1>10, <2>1 DEF CloneFails, Cloned, NoSpace
  <2> QED BY <1>3, <1>7, <1>10, <2>1, <2>2, <2>3 DEF CloneFails
<1>11. ASSUME NEW i \in Invocations, Spawn(i) PROVE TypeOK'
  <2>1. pc[i] \in InAttempt BY <1>11 DEF Spawn, InAttempt
  <2>2. log' \in [Attempts -> Entries] BY <1>7, <1>11, <2>1, EntryChanges DEF Spawn
  <2>3. fresh' \in [Tasks -> SUBSET Modes]
    <3>1. PICK recent \in SUBSET {m \in {mode[i]} : newest[Current(i)][m] # 0} :
            fresh' = [fresh EXCEPT ![Current(i)] = recent]
      BY <1>11 DEF Spawn
    <3>2. recent \in SUBSET Modes OBVIOUS
    <3> QED BY <1>7, <2>1, <3>1, <3>2
  <2> QED BY <1>7, <1>11, <2>1, <2>2, <2>3 DEF Spawn, InAttempt, invVars, outVars
<1>12. ASSUME NEW i \in Invocations, NEW f \in RunFacts, AgentEnds(i, f)
       PROVE  TypeOK'
  <2>1. pc[i] \in InAttempt BY <1>12 DEF AgentEnds, InAttempt
  <2>2. PICK b \in BOOLEAN :
          log' = [log EXCEPT ![at[i]] = Ended(log[at[i]], {f}, b)]
    BY <1>12, WaitLog DEF AgentEnds
  <2>3. log' \in [Attempts -> Entries] BY <1>7, <2>1, <2>2, EntryChanges
  <2>4. live' \subseteq live BY <1>12, WaitLog DEF AgentEnds
  <2> QED BY <1>12, <2>3, <2>4 DEF AgentEnds, InAttempt, invVars, outVars
<1>13. ASSUME NEW i \in Invocations, WriteDiff(i) PROVE TypeOK'
  <2>1. pc[i] \in InAttempt BY <1>13 DEF WriteDiff, InAttempt
  <2>2. log' \in [Attempts -> Entries] BY <1>7, <1>13, <2>1, EntryChanges DEF WriteDiff
  <2>3. file' \in [Tasks -> [Files -> Nat]] BY <1>8, <1>13, <2>1 DEF WriteDiff, Files
  <2> QED BY <1>13, <2>2, <2>3 DEF WriteDiff, InAttempt, invVars
<1>14. ASSUME NEW i \in Invocations, WriteEvidence(i) PROVE TypeOK'
  <2>1. pc[i] \in InAttempt BY <1>14 DEF WriteEvidence, InAttempt
  <2>2. log' \in [Attempts -> Entries]
    <3> DEFINE e == log[at[i]] space == ws[Current(i)]
    <3>1. e \in Entries /\ e.saw \union space.writers \in SUBSET Nat /\ space.base \in Nat
      BY <1>7, <2>1 DEF Entries
    <3>2. [e EXCEPT !.clone = space.base] \in Entries BY <3>1, EntryChanges
    <3>3. [[e EXCEPT !.clone = space.base] EXCEPT !.saw = e.saw \union space.writers] \in Entries
      BY <3>1, <3>2, EntryChanges
    <3>4. log' = [log EXCEPT ![at[i]] = [[e EXCEPT !.clone = space.base] EXCEPT !.saw = e.saw \union space.writers]]
      BY <1>7, <1>14, <2>1, <3>1 DEF WriteEvidence, Entries
    <3> QED BY <3>3, <3>4
  <2>3. file' \in [Tasks -> [Files -> Nat]] BY <1>8, <1>14, <2>1 DEF WriteEvidence, Files
  <2> QED BY <1>14, <2>2, <2>3 DEF WriteEvidence, InAttempt, invVars
<1>15. ASSUME NEW i \in Invocations, CopyTranscript(i) \/ NoTranscript(i) PROVE TypeOK'
  <2>1. pc[i] \in InAttempt BY <1>15 DEF CopyTranscript, NoTranscript, InAttempt
  <2>2. Findable(at[i]) \subseteq Nat BY <1>7, <2>1 DEF Findable, NewestIn, Attempts
  <2>3. log' \in [Attempts -> Entries]
    <3>1. CASE NoTranscript(i) BY <3>1 DEF NoTranscript
    <3>2. CASE CopyTranscript(i)
      <4>1. PICK b \in Findable(at[i]) : log' = [log EXCEPT ![at[i]].found = b]
        BY <3>2 DEF CopyTranscript
      <4>2. [log[at[i]] EXCEPT !.found = b] \in Entries BY <1>7, <2>1, <2>2, EntryChanges
      <4> QED BY <1>7, <2>1, <4>1, <4>2
    <3> QED BY <1>15, <3>1, <3>2
  <2>4. file' \in [Tasks -> [Files -> Nat]]
    BY <1>8, <1>15, <2>1 DEF CopyTranscript, NoTranscript, outVars, Files
  <2> QED BY <1>15, <2>3, <2>4 DEF CopyTranscript, NoTranscript, InAttempt, invVars, outVars
<1>16. ASSUME NEW i \in Invocations, Summarize(i) \/ Crash(i) PROVE TypeOK'
  <2>1. pc[i] \in InAttempt BY <1>16 DEF Summarize, Crash, InAttempt
  <2>2. [log[at[i]] EXCEPT !.facts = {}] \in Entries BY <1>7, <2>1, EntryChanges
  <2>3. log' \in [Attempts -> Entries] /\ live' \subseteq live
    <3>1. CASE WaitOver(i, {})
      <4>1. PICK b \in BOOLEAN : log' = [log EXCEPT ![at[i]] = Ended(log[at[i]], {}, b)]
        BY <3>1, WaitLog
      <4>2. Ended(log[at[i]], {}, b) \in Entries BY <1>7, <2>1, EntryChanges
      <4> QED BY <3>1, <4>1, <4>2, WaitLog
    <3>2. CASE ~WaitOver(i, {}) BY <1>7, <1>16, <2>1, <2>2, <3>2 DEF Summarize, Crash
    <3> QED BY <3>1, <3>2
  <2>4. file' \in [Tasks -> [Files -> Nat]]
    BY <1>8, <1>16, <2>1 DEF Summarize, Crash, outVars, Files
  <2>5. ASSUME NEW code \in Nat, Settle(i, code), UNCHANGED <<dir, ws, newest, fresh>> PROVE TypeOK'
    BY <1>3, <1>7, <2>1, <2>3, <2>4, <2>5
  <2>6. CASE Summarize(i)
    <3>1. PICK code \in {0, 7} : Settle(i, code) BY <2>6 DEF Summarize
    <3> QED BY <2>5, <2>6, <3>1 DEF Summarize
  <2>7. CASE Crash(i) BY <2>5, <2>7 DEF Crash, outVars
  <2> QED BY <1>16, <2>6, <2>7
<1>17. ASSUME NEW i \in Invocations, Kill(i) PROVE TypeOK'
  <2>1. log' \in [Attempts -> Entries]
    <3>1. ASSUME NEW a \in Attempts
          PROVE  Ended(log[a], {}, pc[i] = "running") \in Entries
      BY EntryChanges
    <3> QED BY <1>17, <3>1 DEF Kill
  <2> QED BY <1>17, <2>1 DEF Kill, Over, invVars, outVars
<1>18. ASSUME NEW a \in Attempts, Agent(a) PROVE TypeOK'
  <2>1. log[a].task \in Tasks /\ a \in Nat BY DEF Entries, Attempts
  <2>2. [ws[log[a].task] EXCEPT !.writers = @ \union {a}] \in [base : Nat, writers : SUBSET Nat]
    BY <2>1
  <2>3. CASE AgentEdits(a)
    <3>1. ws' \in [Tasks -> [base : Nat, writers : SUBSET Nat]] BY <2>1, <2>2, <2>3 DEF AgentEdits
    <3> QED BY <2>3, <3>1 DEF AgentEdits, invVars, outVars
  <2>4. CASE SurvivorEnds(a) BY <2>4 DEF SurvivorEnds, invVars, outVars
  <2>5. CASE AgentLogs(a)
    <3>1. log' \in [Attempts -> Entries] BY <2>5, EntryChanges DEF AgentLogs
    <3>2. log[a].mode \in Modes BY DEF Entries
    <3>3. newest' \in [Tasks -> [Agents -> Nat]] BY <2>1, <2>5 DEF AgentLogs
    <3>4. fresh' \in [Tasks -> SUBSET Modes] BY <2>1, <2>5, <3>2 DEF AgentLogs
    <3> QED BY <2>5, <3>1, <3>3, <3>4 DEF AgentLogs, invVars, outVars
  <2> QED BY <1>18, <2>3, <2>4, <2>5 DEF Agent
<1> QED
  BY <1>1, <1>2, <1>4, <1>5, <1>6, <1>9, <1>10, <1>11, <1>12, <1>13, <1>14, <1>15, <1>16, <1>17, <1>18
  DEF Next, Step

-----------------------------------------------------------------------------
(* What every step does that neither starts an invocation nor removes or
   claims a directory. *)
Quiet ==
  /\ UNCHANGED <<dir, last, ids, mode>>
  /\ \A i \in Invocations :
       /\ pc'[i] \notin Over => pc[i] \notin Over
       /\ pc'[i] \in InAttempt => pc[i] \in InAttempt /\ wave'[i] = wave[i] /\ at'[i] = at[i]
       /\ Range(wave'[i]) \subseteq Range(wave[i])
  /\ \A a \in Attempts :
       /\ log'[a].task = log[a].task /\ log'[a].dropped = log[a].dropped
       /\ log'[a].mode = log[a].mode
       /\ log'[a].charged => log[a].charged \/ a <= last
  /\ \A t \in Tasks, f \in Files : file'[t][f] \in {file[t][f], dir[t]}

Keeps(new, old) ==
  /\ new.task = old.task /\ new.dropped = old.dropped
  /\ new.mode = old.mode /\ new.charged = old.charged

LEMMA EntryKeeps ==
  ASSUME NEW e \in Entries, NEW n, NEW s, NEW fs
  PROVE  /\ Keeps([e EXCEPT !.facts = fs], e)
         /\ \A b \in BOOLEAN : Keeps(Ended(e, fs, b), e)
         /\ Keeps([e EXCEPT !.wrote = TRUE], e)
         /\ Keeps([e EXCEPT !.saw = s], e)
         /\ Keeps([[e EXCEPT !.clone = n] EXCEPT !.saw = s], e)
         /\ Keeps([e EXCEPT !.found = n], e)
         /\ Keeps(e, e)
BY DEF Entries, Keeps, Ended

(* An update of one entry. *)
LEMMA OneEntry ==
  ASSUME log \in [Attempts -> Entries], NEW a \in Attempts, NEW e, Keeps(e, log[a]),
         log' = [log EXCEPT ![a] = e]
  PROVE  \A b \in Attempts : Keeps(log'[b], log[b])
BY EntryKeeps

LEMMA QuietStep ==
  ASSUME ReferenceAssumption, TypeOK, Holding, Next,
         \A i \in Invocations : ~Remove(i) /\ ~Claim(i),
         \A i \in Invocations, w \in Waves, o \in Options : ~Start(i, w, o)
  PROVE  Quiet
<1> USE DEF TypeOK
<1>1. ASSUME NEW i \in Invocations, wave[i] # <<>>, pc[i] \notin Over, NEW code \in Nat,
             Settle(i, code), UNCHANGED dir,
             \A a \in Attempts : Keeps(log'[a], log[a]),
             \A t \in Tasks, f \in Files : file'[t][f] \in {file[t][f], dir[t]}
      PROVE  Quiet
  <2>1. /\ wave' = [wave EXCEPT ![i] = Tail(@)] /\ pc' = [pc EXCEPT ![i] = "next"]
        /\ UNCHANGED <<ids, mode, at, last>>
    BY <1>1 DEF Settle
  <2>2. Range(Tail(wave[i])) \subseteq Range(wave[i]) BY <1>1, Waving
  <2>3. ASSUME NEW j \in Invocations
        PROVE  /\ pc'[j] \notin Over => pc[j] \notin Over
               /\ pc'[j] \in InAttempt => pc[j] \in InAttempt /\ wave'[j] = wave[j] /\ at'[j] = at[j]
               /\ Range(wave'[j]) \subseteq Range(wave[j])
    BY <1>1, <2>1, <2>2 DEF Over, InAttempt
  <2> QED BY <1>1, <2>1, <2>3 DEF Quiet, Keeps
<1>2. ASSUME NEW i \in Invocations, pc[i] \in InAttempt
      PROVE  /\ wave[i] # <<>> /\ Current(i) \in Tasks /\ at[i] \in Attempts /\ at[i] <= last
             /\ dir[Current(i)] = at[i] /\ log[at[i]] \in Entries
  BY <1>2, Waving DEF Holding, Current, Attempts, ReferenceAssumption
<1>3. ASSUME NEW i \in Invocations, pc[i] \in InAttempt, NEW f \in Files, WriteFile(i, f)
      PROVE  \A t \in Tasks, g \in Files : file'[t][g] \in {file[t][g], dir[t]}
  BY <1>2, <1>3 DEF WriteFile
<1>4. ASSUME NEW i \in Invocations, EndWave(i) \/ LoadExits(i) PROVE Quiet
  BY <1>4 DEF EndWave, LoadExits, Over, InAttempt, invVars, outVars, Quiet
<1>5. ASSUME NEW i \in Invocations, LoadCrashes(i) \/ Refuse(i) PROVE Quiet
  BY <1>1, <1>5, EntryKeeps DEF LoadCrashes, Refuse, outVars, Over
<1>6. ASSUME NEW i \in Invocations, Clone(i) \/ Scaffold(i) \/ WriteRun(i) \/ WriteGuard(i)
      PROVE  Quiet
  <2>1. pc[i] \in InAttempt BY <1>6 DEF Clone, Scaffold, WriteRun, WriteGuard, InAttempt
  <2>2. \A t \in Tasks, g \in Files : file'[t][g] \in {file[t][g], dir[t]}
    BY <1>3, <1>6, <2>1 DEF Clone, Scaffold, WriteRun, WriteGuard, outVars, Files
  <2> QED BY <1>6, <2>1, <2>2 DEF Clone, Scaffold, WriteRun, WriteGuard, invVars, outVars, InAttempt,
        Over, Quiet
<1>7. ASSUME NEW i \in Invocations, CloneFails(i) PROVE Quiet
  <2>1. pc[i] \in InAttempt BY <1>7 DEF CloneFails, InAttempt
  <2>2. \A t \in Tasks, g \in Files : file'[t][g] \in {file[t][g], dir[t]}
    <3>1. WriteFile(i, "summary") BY <1>7 DEF CloneFails, WriteFile
    <3> QED BY <1>3, <2>1, <3>1 DEF Files
  <2>3. Settle(i, 5) /\ UNCHANGED <<log, dir>> BY <1>7 DEF CloneFails
  <2>4. \A a \in Attempts : Keeps(log'[a], log[a]) BY <2>3, EntryKeeps
  <2> QED BY <1>1, <1>2, <2>1, <2>2, <2>3, <2>4 DEF InAttempt, Over
<1>8. ASSUME NEW i \in Invocations, Spawn(i) PROVE Quiet
  <2>1. pc[i] \in InAttempt BY <1>8 DEF Spawn, InAttempt
  <2>2. \A a \in Attempts :
          /\ log'[a].task = log[a].task /\ log'[a].dropped = log[a].dropped
          /\ log'[a].mode = log[a].mode /\ (log'[a].charged => log[a].charged \/ a <= last)
    <3>1. log' = [log EXCEPT ![at[i]].charged = TRUE] BY <1>8 DEF Spawn
    <3> QED BY <1>2, <2>1, <3>1 DEF Entries
  <2>3. /\ pc[i] = "agent" /\ pc' = [pc EXCEPT ![i] = "running"]
        /\ UNCHANGED <<dir, file, last, ids, mode, wave, at>>
    BY <1>8 DEF Spawn, invVars, outVars
  <2> QED BY <2>1, <2>2, <2>3 DEF InAttempt, Over, Quiet
<1>9. ASSUME NEW i \in Invocations, NEW f \in RunFacts, AgentEnds(i, f)
      PROVE  Quiet
  <2>1. pc[i] \in InAttempt BY <1>9 DEF AgentEnds, InAttempt
  <2>2. \A a \in Attempts : Keeps(log'[a], log[a])
    <3>1. PICK b \in BOOLEAN :
            log' = [log EXCEPT ![at[i]] = Ended(log[at[i]], {f}, b)]
      BY <1>9, WaitLog DEF AgentEnds
    <3>2. Keeps(Ended(log[at[i]], {f}, b), log[at[i]])
      BY <1>2, <2>1, EntryKeeps
    <3> QED BY <1>2, <2>1, <3>1, <3>2, OneEntry
  <2> QED BY <1>9, <2>1, <2>2 DEF Keeps, AgentEnds, InAttempt, Over, invVars, outVars, Quiet
<1>10. ASSUME NEW i \in Invocations, WriteDiff(i) \/ WriteEvidence(i) PROVE Quiet
  <2>1. pc[i] \in InAttempt BY <1>10 DEF WriteDiff, WriteEvidence, InAttempt
  <2>2. \A a \in Attempts : Keeps(log'[a], log[a])
    <3>1. CASE WriteDiff(i)
      <4>1. Keeps([log[at[i]] EXCEPT !.saw = ws[Current(i)].writers], log[at[i]])
        BY <1>2, <2>1, EntryKeeps
      <4> QED BY <1>2, <2>1, <3>1, <4>1, OneEntry DEF WriteDiff
    <3>2. CASE WriteEvidence(i)
      <4> DEFINE e == log[at[i]] space == ws[Current(i)]
                 new == [[e EXCEPT !.clone = space.base] EXCEPT !.saw = e.saw \union space.writers]
      <4>1. Keeps(new, e) BY <1>2, <2>1, EntryKeeps
      <4>2. log' = [log EXCEPT ![at[i]] = new] BY <1>2, <2>1, <3>2 DEF WriteEvidence, Entries
      <4> QED BY <1>2, <2>1, <4>1, <4>2, OneEntry
    <3> QED BY <1>10, <3>1, <3>2
  <2>3. \A t \in Tasks, g \in Files : file'[t][g] \in {file[t][g], dir[t]}
    BY <1>3, <1>10, <2>1 DEF WriteDiff, WriteEvidence, Files
  <2> QED BY <1>10, <2>1, <2>2, <2>3 DEF Keeps, WriteDiff, WriteEvidence, InAttempt, Over, invVars, Quiet
<1>11. ASSUME NEW i \in Invocations, CopyTranscript(i) \/ NoTranscript(i) PROVE Quiet
  <2>1. pc[i] \in InAttempt BY <1>11 DEF CopyTranscript, NoTranscript, InAttempt
  <2>2. \A a \in Attempts : Keeps(log'[a], log[a])
    <3>1. CASE NoTranscript(i) BY <3>1, EntryKeeps DEF NoTranscript
    <3>2. CASE CopyTranscript(i)
      <4>1. PICK b \in Findable(at[i]) : log' = [log EXCEPT ![at[i]].found = b]
        BY <3>2 DEF CopyTranscript
      <4>2. Keeps([log[at[i]] EXCEPT !.found = b], log[at[i]]) BY <1>2, <2>1, EntryKeeps
      <4> QED BY <1>2, <2>1, <4>1, <4>2, OneEntry
    <3> QED BY <1>11, <3>1, <3>2
  <2>3. \A t \in Tasks, g \in Files : file'[t][g] \in {file[t][g], dir[t]}
    BY <1>3, <1>11, <2>1 DEF CopyTranscript, NoTranscript, Files, outVars
  <2> QED BY <1>11, <2>1, <2>2, <2>3 DEF Keeps, CopyTranscript, NoTranscript, InAttempt, Over, invVars,
        outVars, Quiet
<1>12. ASSUME NEW i \in Invocations, Summarize(i) \/ Crash(i) PROVE Quiet
  <2>1. pc[i] \in InAttempt BY <1>12 DEF Summarize, Crash, InAttempt
  <2>2. \A a \in Attempts : Keeps(log'[a], log[a])
    <3>1. Keeps([log[at[i]] EXCEPT !.facts = {}], log[at[i]]) BY <1>2, <2>1, EntryKeeps
    <3>2. CASE WaitOver(i, {})
      <4>1. PICK b \in BOOLEAN :
              log' = [log EXCEPT ![at[i]] = Ended(log[at[i]], {}, b)]
        BY <3>2, WaitLog
      <4>2. Keeps(Ended(log[at[i]], {}, b), log[at[i]])
        BY <1>2, <2>1, EntryKeeps
      <4> QED BY <1>2, <2>1, <4>1, <4>2, OneEntry
    <3>3. CASE ~WaitOver(i, {})
      BY <1>2, <1>12, <2>1, <3>1, <3>3, OneEntry DEF Summarize, Crash
    <3> QED BY <3>2, <3>3
  <2>3. \A t \in Tasks, g \in Files : file'[t][g] \in {file[t][g], dir[t]}
    BY <1>3, <1>12, <2>1 DEF Summarize, Crash, Files, outVars
  <2> QED BY <1>1, <1>2, <1>12, <2>1, <2>2, <2>3 DEF Summarize, Crash, outVars, InAttempt, Over
<1>13. ASSUME NEW i \in Invocations, Kill(i) PROVE Quiet
  <2>1. \A a \in Attempts : Keeps(log'[a], log[a])
    <3>1. ASSUME NEW a \in Attempts
          PROVE  Keeps(Ended(log[a], {}, pc[i] = "running"), log[a])
      BY EntryKeeps
    <3> QED BY <1>13, <3>1, EntryKeeps DEF Kill
  <2> QED BY <1>13, <2>1 DEF Keeps, Kill, InAttempt, Over, invVars, outVars, Quiet
<1>14. ASSUME NEW a \in Attempts, Agent(a) PROVE Quiet
  <2>1. CASE AgentLogs(a)
    <3>1. Keeps([log[a] EXCEPT !.wrote = TRUE], log[a]) BY EntryKeeps
    <3>2. \A b \in Attempts : Keeps(log'[b], log[b]) BY <2>1, <3>1, OneEntry DEF AgentLogs
    <3> QED BY <2>1, <3>2 DEF AgentLogs, Keeps, invVars, outVars, Quiet
  <2>2. CASE AgentEdits(a) \/ SurvivorEnds(a)
    BY <2>2 DEF AgentEdits, SurvivorEnds, invVars, outVars, Quiet
  <2> QED BY <1>14, <2>1, <2>2 DEF Agent
<1> QED
  BY <1>4, <1>5, <1>6, <1>7, <1>8, <1>9, <1>10, <1>11, <1>12, <1>13, <1>14 DEF Next, Step

-----------------------------------------------------------------------------
LEMMA StartStep ==
  ASSUME ReferenceAssumption, RunInv, NEW i \in Invocations, NEW w \in Waves, NEW o \in Options,
         Start(i, w, o)
  PROVE  Apart' /\ Holding' /\ Kept' /\ OneAttempt'
<1> USE DEF RunInv, TypeOK
<1>1. /\ wave' = [wave EXCEPT ![i] = w] /\ ids' = [ids EXCEPT ![i] = w]
      /\ pc' = [pc EXCEPT ![i] = "next"]
      /\ UNCHANGED <<at, last, log, dir, file>>
  BY DEF Start
<1>2. Apart'
  <2>1. \A j \in Invocations : pc[j] \notin Over => Range(w) \cap Range(ids[j]) = {} BY DEF Start
  <2>2. \A j \in Invocations : Range(wave'[j]) \subseteq Range(ids'[j]) BY <1>1 DEF Apart
  <2>3. ASSUME NEW j \in Invocations, NEW k \in Invocations, j # k, pc'[j] \notin Over, pc'[k] \notin Over
        PROVE  Range(ids'[j]) \cap Range(ids'[k]) = {}
    <3>1. CASE j = i BY <1>1, <2>1, <2>3, <3>1
    <3>2. CASE k = i BY <1>1, <2>1, <2>3, <3>2
    <3>3. CASE j # i /\ k # i BY <1>1, <2>3, <3>3 DEF Apart
    <3> QED BY <3>1, <3>2, <3>3
  <2> QED BY <2>2, <2>3 DEF Apart
<1>3. Holding' BY <1>1 DEF Holding, InAttempt, Current
<1>4. Kept' /\ OneAttempt' BY <1>1 DEF Kept, OneAttempt
<1> QED BY <1>2, <1>3, <1>4

(* Nobody else is in an attempt at a task that an invocation turns to. *)
LEMMA NobodyElse ==
  ASSUME RunInv, NEW i \in Invocations, NEW j \in Invocations, i # j,
         wave[i] # <<>>, pc[i] \notin Over, pc[j] \in InAttempt
  PROVE  Current(j) # Current(i)
<1>1. wave[i] \in Seq(Tasks) /\ wave[j] \in Seq(Tasks) /\ wave[j] # <<>>
  BY DEF RunInv, TypeOK, Holding
<1>2. Current(i) \in Range(ids[i]) /\ Current(j) \in Range(ids[j])
  BY <1>1, Waving DEF RunInv, Apart, Current
<1>3. pc[j] \notin Over BY DEF InAttempt, Over
<1> QED BY <1>2, <1>3 DEF RunInv, Apart

LEMMA RemoveStep ==
  ASSUME ReferenceAssumption, RunInv, NEW i \in Invocations, Remove(i)
  PROVE  Apart' /\ Holding' /\ Kept' /\ OneAttempt'
<1> USE DEF RunInv, TypeOK
<1> DEFINE t == Current(i) d == dir[t]
<1>1. /\ t \in Tasks /\ d \in 1..last /\ d \in Attempts /\ log[d] \in Entries
  BY Waving DEF Remove, Current, Attempts, ReferenceAssumption
<1>2. /\ dir' = [dir EXCEPT ![t] = 0] /\ file' = [file EXCEPT ![t] = NoFiles]
      /\ UNCHANGED <<wave, ids, at, last>> /\ pc[i] = "next"
      /\ pc' = [pc EXCEPT ![i] = "make"] /\ wave[i] # <<>>
  BY DEF Remove, invVars
<1>3. Apart' BY <1>2, SMTT(30) DEF Apart, Over
<1>4. ASSUME NEW j \in Invocations, pc'[j] \in InAttempt
      PROVE  wave'[j] # <<>> /\ at'[j] \in 1..last' /\ dir'[Current(j)'] = at'[j]
  <2>1. j # i /\ pc[j] \in InAttempt BY <1>2, <1>4 DEF InAttempt
  <2>2. Current(j) # t BY <1>2, <2>1, NobodyElse DEF Over
  <2>3. wave[j] # <<>> /\ Current(j) \in Tasks BY <2>1, Waving DEF Holding, Current
  <2> QED BY <1>2, <2>1, <2>2, <2>3 DEF Holding, Current
<1>5. \A a \in Attempts :
        /\ log'[a].task = log[a].task /\ log'[a].charged = log[a].charged
        /\ log'[a].dropped = (IF a = d THEN TRUE ELSE log[a].dropped)
  BY <1>1 DEF Remove, Entries
<1>6. 1..last \subseteq Attempts BY DEF Attempts, ReferenceAssumption
<1>7. Kept'
  <2>1. ASSUME NEW u \in Tasks, dir'[u] # 0 PROVE log'[dir'[u]].task = u
    <3>1. u # t /\ dir'[u] = dir[u] BY <1>1, <1>2, <2>1
    <3>2. dir[u] \in 1..last BY <2>1, <3>1
    <3>3. log'[dir[u]].task = log[dir[u]].task BY <1>5, <1>6, <3>2
    <3> QED BY <2>1, <3>1, <3>3 DEF Kept
  <2>2. \A a \in 1..last : log'[a].dropped \/ dir'[log'[a].task] = a
    <3>1. ASSUME NEW a \in 1..last PROVE log'[a].dropped \/ dir'[log'[a].task] = a
      <4>1. a \in Attempts /\ log[a] \in Entries BY <1>6
      <4>2. log[a].task \in Tasks BY <4>1 DEF Entries
      <4>3. log'[a].task = log[a].task BY <1>5, <4>1
      <4>4. CASE a = d BY <1>5, <4>1, <4>4
      <4>5. CASE a # d
        <5>1. log'[a].dropped = log[a].dropped BY <1>5, <4>1, <4>5
        <5>2. log[a].dropped \/ dir[log[a].task] = a BY DEF Kept
        <5>3. dir[log[a].task] = a => dir'[log[a].task] = a BY <1>2, <4>2, <4>5
        <5> QED BY <4>3, <5>1, <5>2, <5>3
      <4> QED BY <4>4, <4>5
    <3> QED BY <3>1
  <2>3. \A a, b \in 1..last : (a < b /\ log'[a].task = log'[b].task) => log'[a].dropped
    BY <1>5, <1>6 DEF Kept
  <2>4. \A a \in Attempts : a > last => ~log'[a].charged BY <1>5 DEF Kept
  <2> QED BY <1>2, <2>1, <2>2, <2>3, <2>4 DEF Kept
<1>8. OneAttempt' BY <1>1, <1>2 DEF OneAttempt, NoFiles
<1> QED BY <1>3, <1>4, <1>7, <1>8 DEF Holding

LEMMA ClaimStep ==
  ASSUME ReferenceAssumption, RunInv, NEW i \in Invocations, Claim(i)
  PROVE  Apart' /\ Holding' /\ Kept' /\ OneAttempt'
<1> USE DEF RunInv, TypeOK
<1> DEFINE t == Current(i) n == last + 1
<1>1. t \in Tasks /\ dir[t] = 0 /\ n \in Attempts /\ 1..last \subseteq Attempts
  BY Waving, SMTT(30) DEF Claim, Current, Attempts, ReferenceAssumption, Ready, OutputThere
<1>2. /\ dir' = [dir EXCEPT ![t] = n] /\ at' = [at EXCEPT ![i] = n] /\ last' = n
      /\ UNCHANGED <<wave, ids, file>> /\ pc[i] \in {"next", "make"}
      /\ pc' = [pc EXCEPT ![i] = "clone"] /\ wave[i] # <<>>
  BY DEF Claim
<1>3. Apart' BY <1>2, SMTT(30) DEF Apart, Over
<1>4. ASSUME NEW j \in Invocations, pc'[j] \in InAttempt
      PROVE  wave'[j] # <<>> /\ at'[j] \in 1..last' /\ dir'[Current(j)'] = at'[j]
  <2>1. CASE j = i BY <1>1, <1>2, <2>1 DEF Current
  <2>2. CASE j # i
    <3>1. pc[j] \in InAttempt BY <1>2, <1>4, <2>2
    <3>2. Current(j) # t BY <1>2, <2>2, <3>1, NobodyElse DEF Over
    <3>3. wave[j] # <<>> /\ Current(j) \in Tasks /\ at[j] \in 1..last
      BY <3>1, Waving DEF Holding, Current
    <3> QED BY <1>2, <2>2, <3>1, <3>2, <3>3, SMTT(30) DEF Holding, Current
  <2> QED BY <2>1, <2>2
<1>5. /\ log'[n].task = t /\ ~log'[n].dropped
      /\ \A a \in Attempts : a # n => log'[a] = log[a]
  <2> DEFINE e == [Blank EXCEPT !.by = i, !.task = t, !.forced = forced[i], !.mode = mode[i]]
  <2>1. log' = [log EXCEPT ![n] = e] BY DEF Claim
  <2>2. e.task = t /\ ~e.dropped BY DEF Blank
  <2> HIDE DEF e
  <2> QED BY <1>1, <2>1, <2>2
<1>6. Kept'
  <2>1. ASSUME NEW u \in Tasks, dir'[u] # 0 PROVE log'[dir'[u]].task = u
    <3>1. CASE u = t BY <1>1, <1>2, <1>5, <3>1
    <3>2. CASE u # t
      <4>1. dir'[u] = dir[u] /\ dir[u] \in 1..last BY <1>2, <2>1, <3>2
      <4>2. log'[dir[u]] = log[dir[u]] BY <1>1, <1>5, <4>1
      <4> QED BY <2>1, <4>1, <4>2 DEF Kept
    <3> QED BY <3>1, <3>2
  <2>2. ASSUME NEW a \in 1..last
        PROVE  /\ log'[a] = log[a] /\ log[a].task \in Tasks
               /\ log[a].task = t => log[a].dropped
    <3>1. a \in Attempts /\ a # n /\ log[a] \in Entries BY <1>1
    <3>2. log[a].task \in Tasks BY <3>1 DEF Entries
    <3> QED BY <1>1, <1>5, <3>1, <3>2 DEF Kept
  <2>3. \A a \in 1..last' : log'[a].dropped \/ dir'[log'[a].task] = a
    <3>1. ASSUME NEW a \in 1..last' PROVE log'[a].dropped \/ dir'[log'[a].task] = a
      <4>1. CASE a = n BY <1>1, <1>2, <1>5, <4>1
      <4>2. CASE a \in 1..last
        <5>1. log'[a] = log[a] /\ log[a].task \in Tasks BY <2>2, <4>2
        <5>2. CASE log[a].dropped BY <5>1, <5>2
        <5>3. CASE ~log[a].dropped
          <6>1. log[a].task # t /\ dir[log[a].task] = a BY <2>2, <4>2, <5>3 DEF Kept
          <6> QED BY <1>2, <5>1, <6>1
        <5> QED BY <5>2, <5>3
      <4> QED BY <1>2, <4>1, <4>2
    <3> QED BY <3>1
  <2>4. \A a, b \in 1..last' : (a < b /\ log'[a].task = log'[b].task) => log'[a].dropped
    <3>1. ASSUME NEW a \in 1..last', NEW b \in 1..last', a < b, log'[a].task = log'[b].task
          PROVE  log'[a].dropped
      <4>1. a \in 1..last BY <1>2, <3>1
      <4>2. CASE b = n BY <1>5, <2>2, <3>1, <4>1, <4>2
      <4>3. CASE b \in 1..last BY <2>2, <3>1, <4>1, <4>3 DEF Kept
      <4> QED BY <1>2, <4>2, <4>3
    <3> QED BY <3>1
  <2>5. \A a \in Attempts : a > last' => ~log'[a].charged
    <3>1. ASSUME NEW a \in Attempts, a > last' PROVE ~log'[a].charged
      <4>1. a \in Nat /\ a > last /\ a # n BY <1>2, <3>1 DEF Attempts, ReferenceAssumption
      <4>2. log'[a] = log[a] BY <1>5, <4>1
      <4> QED BY <4>1, <4>2 DEF Kept
    <3> QED BY <3>1
  <2> QED BY <2>1, <2>3, <2>4, <2>5 DEF Kept
<1>7. OneAttempt' BY <1>1, <1>2 DEF OneAttempt
<1> QED BY <1>3, <1>4, <1>6, <1>7 DEF Holding

LEMMA QuietKeeps ==
  ASSUME ReferenceAssumption, RunInv, Quiet
  PROVE  Apart' /\ Holding' /\ Kept' /\ OneAttempt'
<1> USE DEF RunInv, TypeOK, Quiet
<1>1. Apart' BY DEF Apart
<1>2. Holding' BY DEF Holding, Current
<1>3. 1..last \subseteq Attempts BY DEF Attempts, ReferenceAssumption
<1>4. Kept'
  <2>1. ASSUME NEW t \in Tasks, dir'[t] # 0 PROVE log'[dir'[t]].task = t
    <3>1. dir'[t] = dir[t] /\ dir[t] \in Attempts BY <1>3, <2>1
    <3>2. log'[dir[t]].task = log[dir[t]].task BY <3>1
    <3> QED BY <2>1, <3>1, <3>2 DEF Kept
  <2>2. ASSUME NEW a \in 1..last PROVE log'[a].dropped \/ dir'[log'[a].task] = a
    <3>1. log'[a].task = log[a].task /\ log'[a].dropped = log[a].dropped BY <1>3
    <3> QED BY <3>1 DEF Kept
  <2>3. ASSUME NEW a \in 1..last, NEW b \in 1..last, a < b, log'[a].task = log'[b].task
        PROVE  log'[a].dropped
    <3>1. /\ log'[a].task = log[a].task /\ log'[a].dropped = log[a].dropped
          /\ log'[b].task = log[b].task
      BY <1>3
    <3> QED BY <2>3, <3>1 DEF Kept
  <2>4. ASSUME NEW a \in Attempts, a > last PROVE ~log'[a].charged
    <3>1. a \in Nat /\ ~(a <= last) BY <2>4 DEF Attempts, ReferenceAssumption
    <3> QED BY <2>4, <3>1 DEF Kept
  <2> QED BY <2>1, <2>2, <2>3, <2>4 DEF Kept
<1>5. OneAttempt' BY DEF OneAttempt
<1> QED BY <1>1, <1>2, <1>4, <1>5

LEMMA Inductive == ASSUME ReferenceAssumption, RunInv, [Next]_vars PROVE RunInv'
<1>1. CASE UNCHANGED vars
  BY <1>1 DEF vars, invVars, outVars, sessions, RunInv, TypeOK, Apart, Holding, Kept, OneAttempt, Current
<1>2. CASE Next
  <2>1. TypeOK' BY <1>2, TypedStep DEF RunInv
  <2>2. CASE \E i \in Invocations, w \in Waves, o \in Options : Start(i, w, o)
    BY <2>1, <2>2, StartStep DEF RunInv
  <2>3. CASE \E i \in Invocations : Remove(i) BY <2>1, <2>3, RemoveStep DEF RunInv
  <2>4. CASE \E i \in Invocations : Claim(i) BY <2>1, <2>4, ClaimStep DEF RunInv
  <2>5. CASE /\ \A i \in Invocations : ~Remove(i) /\ ~Claim(i)
             /\ \A i \in Invocations, w \in Waves, o \in Options : ~Start(i, w, o)
    <3>1. Quiet BY <1>2, <2>5, QuietStep DEF RunInv
    <3>2. Apart' /\ Holding' /\ Kept' /\ OneAttempt' BY <3>1, QuietKeeps
    <3> QED BY <2>1, <3>2 DEF RunInv
  <2> QED BY <2>2, <2>3, <2>4, <2>5
<1> QED BY <1>1, <1>2

(* The inductive invariant of the reference wave: directories are held by one
   invocation at a time and every attempt has its own until --force drops it. *)
THEOREM Invariance == ASSUME ReferenceAssumption PROVE Spec => []RunInv
<1>1. Init => RunInv BY Initially
<1>2. RunInv /\ [Next]_vars => RunInv' BY Inductive
<1> QED BY <1>1, <1>2, PTL DEF Spec

(* Every variable of a reference wave stays in its type. *)
THEOREM TypeCorrect == ASSUME ReferenceAssumption PROVE Spec => []TypeOK
<1>1. RunInv => TypeOK BY DEF RunInv
<1> QED BY <1>1, Invariance, PTL

(* An output directory never mixes the files of two attempts, however many
   invocations run and whatever kills, crashes or forces them. *)
THEOREM OneAttemptTheorem == ASSUME ReferenceAssumption PROVE Spec => []OneAttempt
<1>1. RunInv => OneAttempt BY DEF RunInv
<1> QED BY <1>1, Invariance, PTL

(* An agent is paid for a task again only after a --force run has dropped what
   the earlier attempt left. *)
THEOREM PaidOnceTheorem == ASSUME ReferenceAssumption PROVE Spec => []PaidOnce
<1>1. ASSUME ReferenceAssumption, RunInv PROVE PaidOnce
  <2> SUFFICES ASSUME NEW a \in Attempts, NEW b \in Attempts, a < b, log[a].task = log[b].task,
                      log[a].charged, log[b].charged
               PROVE  log[a].dropped
    BY DEF PaidOnce
  <2>1. a \in 1..last /\ b \in 1..last
    BY <1>1 DEF RunInv, Kept, TypeOK, Attempts, ReferenceAssumption
  <2> QED BY <1>1, <2>1 DEF RunInv, Kept
<1>2. RunInv => PaidOnce BY <1>1
<1> QED BY <1>2, Invariance, PTL

-----------------------------------------------------------------------------
(* What an attempt leaves: whose clone was measured, who wrote in it, whose
   transcript was found.  The parts of the invariant these take. *)

Owned ==
  \A i \in Invocations : pc[i] \in InAttempt =>
    log[at[i]].by = i /\ log[at[i]].mode = mode[i]

(* Whatever writes, wrote or was seen to have written is an attempt that began. *)
Begun ==
  /\ live \subseteq 1..last
  /\ \A t \in Tasks : ws[t].writers \subseteq 1..last
  /\ \A a \in Attempts : log[a].saw \subseteq 1..last /\ (a > last => log[a].saw = {})

(* A directory is that of the last attempt at its task. *)
Latest ==
  \A t \in Tasks : dir[t] # 0 => \A a \in 1..last : log[a].task = t => a <= dir[t]

(* An agent that nobody waits for has outlived the wait. *)
Afoot == \A b \in live : log[b].outlived \/ Awaited(b)

InClone == {"scaffold", "agent", "running", "record", "guard", "diff", "evidence"}

(* What an earlier attempt at the task of a left running. *)
Earlier(b, a) == b < a /\ log[b].task = log[a].task /\ log[b].outlived

(* From the clone until the evidence the workspace is the attempt's own. *)
OwnClone ==
  \A i \in Invocations : pc[i] \in InClone =>
    /\ ws[Current(i)].base = at[i]
    /\ \A b \in ws[Current(i)].writers : b = at[i] \/ Earlier(b, at[i])

SeenOwn == \A a \in Attempts : \A b \in log[a].saw : b = a \/ Earlier(b, a)

(* Whose transcript was written last at a task: when a later attempt there has
   written one as well, that of an agent which outlived the wait. *)
LastWordAt(t, m, b) ==
  /\ b # 0 => b \in 1..last /\ log[b].task = t /\ log[b].mode = m /\ log[b].wrote
  /\ \A a \in 1..last : (log[a].wrote /\ log[a].task = t /\ log[a].mode = m /\ b < a)
       => b # 0 /\ log[b].outlived

LastWord == \A t \in Tasks, m \in Agents : LastWordAt(t, m, newest[t][m])

(* The evidence in a directory was measured on its attempt's clone. *)
Vouched == \A t \in Tasks : file[t]["evidence"] # 0 => log[dir[t]].clone = dir[t]

(* As long as nothing went wrong, what the wave has left behind is finished. *)
Finished ==
  \A i \in Invocations : (pc[i] \notin Over /\ worst[i] = 0) =>
    \A t \in Range(ids[i]) :
      t \in Range(wave[i]) \/ (file[t]["summary"] # 0 /\ log[dir[t]].by = i)

Traces ==
  Owned /\ Begun /\ Latest /\ Afoot /\ OwnClone /\ SeenOwn /\ LastWord /\ Vouched /\ Finished

LEMMA AttemptFacts ==
  ASSUME ReferenceAssumption, RunInv, NEW i \in Invocations, pc[i] \in InAttempt
  PROVE  /\ wave[i] # <<>> /\ Current(i) \in Tasks /\ at[i] \in Attempts /\ at[i] \in 1..last
         /\ dir[Current(i)] = at[i] /\ log[at[i]].task = Current(i) /\ log[at[i]] \in Entries
<1>1. /\ wave[i] # <<>> /\ Current(i) \in Tasks /\ at[i] \in 1..last /\ dir[Current(i)] = at[i]
  BY Waving DEF RunInv, TypeOK, Holding, Current
<1>2. at[i] \in Attempts BY <1>1 DEF RunInv, TypeOK, Attempts, ReferenceAssumption
<1>3. log[at[i]].task = Current(i) BY <1>1 DEF RunInv, Kept
<1> QED BY <1>1, <1>2, <1>3 DEF RunInv, TypeOK

LEMMA DirectoryFacts ==
  ASSUME ReferenceAssumption, RunInv, NEW t \in Tasks, dir[t] # 0
  PROVE  dir[t] \in 1..last /\ dir[t] \in Attempts /\ log[dir[t]].task = t
BY DEF RunInv, TypeOK, Kept, Attempts, ReferenceAssumption

(* What no step takes back from an attempt that has begun. *)
Grows(new, old) ==
  /\ new.by = old.by /\ new.task = old.task /\ new.mode = old.mode
  /\ old.outlived => new.outlived

Steady(new, old) ==
  /\ Grows(new, old) /\ new.wrote = old.wrote
  /\ new.clone = old.clone /\ new.saw = old.saw /\ new.found = old.found

LEMMA EntrySteady ==
  ASSUME NEW e \in Entries, NEW fs
  PROVE  /\ Steady([e EXCEPT !.facts = fs], e)
         /\ \A b \in BOOLEAN : Steady(Ended(e, fs, b), e)
         /\ Steady([e EXCEPT !.charged = TRUE], e)
         /\ Steady(e, e)
BY DEF Entries, Steady, Grows, Ended

LEMMA OneEntrySteady ==
  ASSUME log \in [Attempts -> Entries], NEW a \in Attempts, NEW e, Steady(e, log[a]),
         log' = [log EXCEPT ![a] = e]
  PROVE  \A b \in Attempts : Steady(log'[b], log[b])
BY EntrySteady

(* Most steps leave what the attempts saw and found alone. *)
LEMMA SteadyStep ==
  ASSUME ReferenceAssumption, RunInv, Next,
         \A i \in Invocations : ~Remove(i) /\ ~Claim(i) /\ ~WriteDiff(i) /\ ~WriteEvidence(i)
                                /\ ~CopyTranscript(i),
         \A a \in Attempts : ~AgentLogs(a)
  PROVE  \A a \in Attempts : Steady(log'[a], log[a])
<1> DEFINE Goal == \A a \in Attempts : Steady(log'[a], log[a])
<1>1. log \in [Attempts -> Entries] BY DEF RunInv, TypeOK
<1>2. ASSUME UNCHANGED log PROVE Goal BY <1>1, <1>2, EntrySteady
<1>3. ASSUME NEW i \in Invocations, NEW w \in Waves, NEW o \in Options, Start(i, w, o) PROVE Goal
  BY <1>2, <1>3 DEF Start
<1>4. ASSUME NEW i \in Invocations,
             \/ EndWave(i) \/ LoadCrashes(i) \/ LoadExits(i) \/ Refuse(i) \/ Clone(i) \/ CloneFails(i)
             \/ Scaffold(i) \/ WriteRun(i) \/ WriteGuard(i) \/ NoTranscript(i)
      PROVE  Goal
  <2>1. UNCHANGED log
    BY <1>4 DEF EndWave, LoadCrashes, LoadExits, Refuse, Clone, CloneFails, Scaffold, WriteRun,
       WriteGuard, NoTranscript
  <2> QED BY <1>2, <2>1
<1>5. ASSUME NEW i \in Invocations, Spawn(i) PROVE Goal
  <2>1. pc[i] \in InAttempt BY <1>5 DEF Spawn, InAttempt
  <2>2. at[i] \in Attempts /\ log[at[i]] \in Entries BY <2>1, AttemptFacts
  <2>3. Steady([log[at[i]] EXCEPT !.charged = TRUE], log[at[i]]) BY <2>2, EntrySteady
  <2> QED BY <1>1, <1>5, <2>2, <2>3, OneEntrySteady DEF Spawn
<1>6. ASSUME NEW i \in Invocations, NEW f \in RunFacts, AgentEnds(i, f)
      PROVE  Goal
  <2>1. pc[i] \in InAttempt BY <1>6 DEF AgentEnds, InAttempt
  <2>2. at[i] \in Attempts /\ log[at[i]] \in Entries BY <2>1, AttemptFacts
  <2>3. PICK b \in BOOLEAN :
          log' = [log EXCEPT ![at[i]] = Ended(log[at[i]], {f}, b)]
    BY <1>6, WaitLog DEF AgentEnds
  <2>4. Steady(Ended(log[at[i]], {f}, b), log[at[i]])
    BY <2>2, EntrySteady
  <2> QED BY <1>1, <2>2, <2>3, <2>4, OneEntrySteady
<1>7. ASSUME NEW i \in Invocations, Summarize(i) \/ Crash(i) PROVE Goal
  <2>1. pc[i] \in InAttempt BY <1>7 DEF Summarize, Crash, InAttempt
  <2>2. at[i] \in Attempts /\ log[at[i]] \in Entries BY <2>1, AttemptFacts
  <2>3. CASE WaitOver(i, {})
    <3>1. PICK b \in BOOLEAN :
            log' = [log EXCEPT ![at[i]] = Ended(log[at[i]], {}, b)]
      BY <2>3, WaitLog
    <3>2. Steady(Ended(log[at[i]], {}, b), log[at[i]])
      BY <2>2, EntrySteady
    <3> QED BY <1>1, <2>2, <3>1, <3>2, OneEntrySteady
  <2>4. CASE ~WaitOver(i, {})
    <3>1. Steady([log[at[i]] EXCEPT !.facts = {}], log[at[i]]) BY <2>2, EntrySteady
    <3> QED BY <1>1, <1>7, <2>2, <2>4, <3>1, OneEntrySteady DEF Summarize, Crash
  <2> QED BY <2>3, <2>4
<1>8. ASSUME NEW i \in Invocations, Kill(i) PROVE Goal
  <2>1. ASSUME NEW a \in Attempts
        PROVE  Steady(Ended(log[a], {}, pc[i] = "running"), log[a])
    BY <1>1, EntrySteady
  <2> QED BY <1>1, <1>8, <2>1, EntrySteady DEF Kill
<1>9. ASSUME NEW a \in Attempts, AgentEdits(a) \/ SurvivorEnds(a) PROVE Goal
  BY <1>2, <1>9 DEF AgentEdits, SurvivorEnds
<1> QED BY <1>3, <1>4, <1>5, <1>6, <1>7, <1>8, <1>9 DEF Next, Step, Agent

(* --force takes the entry of the directory it drops, and no other. *)
LEMMA RemoveLog ==
  ASSUME ReferenceAssumption, RunInv, NEW i \in Invocations, Remove(i)
  PROVE  /\ Current(i) \in Tasks /\ dir[Current(i)] # 0
         /\ \A a \in Attempts : Grows(log'[a], log[a]) /\ log'[a].saw \subseteq log[a].saw
                                /\ log'[a].wrote = log[a].wrote
         /\ \A a \in Attempts : a # dir[Current(i)] => log'[a] = log[a]
<1>1. Current(i) \in Tasks /\ dir[Current(i)] # 0
  BY Waving DEF Remove, Current, RunInv, TypeOK
<1>2. dir[Current(i)] \in Attempts /\ log \in [Attempts -> Entries]
  BY <1>1, DirectoryFacts DEF RunInv, TypeOK
<1> DEFINE e == log[dir[Current(i)]]
           new == [e EXCEPT !.dropped = TRUE, !.clone = 0, !.saw = {}, !.found = 0]
<1>3. log' = [log EXCEPT ![dir[Current(i)]] = new] BY DEF Remove
<1>4. e \in Entries BY <1>2
<1>5. Grows(new, e) /\ new.saw \subseteq e.saw /\ new.wrote = e.wrote BY <1>4 DEF Entries, Grows
<1>6. \A a \in Attempts : Grows(log[a], log[a]) BY DEF Grows
<1> HIDE DEF new
<1> QED BY <1>1, <1>2, <1>3, <1>5, <1>6

LEMMA ClaimLog ==
  ASSUME ReferenceAssumption, RunInv, NEW i \in Invocations, Claim(i)
  PROVE  /\ Current(i) \in Tasks /\ dir[Current(i)] = 0
         /\ last + 1 \in Attempts /\ 1..last \subseteq Attempts
         /\ log'[last + 1].by = i /\ log'[last + 1].mode = mode[i] /\ log'[last + 1].saw = {}
         /\ log'[last + 1].task = Current(i) /\ ~log'[last + 1].wrote
         /\ \A a \in Attempts : a # last + 1 => log'[a] = log[a]
<1>1. /\ Current(i) \in Tasks /\ dir[Current(i)] = 0
      /\ last + 1 \in Attempts /\ 1..last \subseteq Attempts
  BY Waving DEF Claim, Current, RunInv, TypeOK, Attempts, ReferenceAssumption, Ready, OutputThere
<1> DEFINE e == [Blank EXCEPT !.by = i, !.task = Current(i), !.forced = forced[i], !.mode = mode[i]]
<1>2. log' = [log EXCEPT ![last + 1] = e] /\ log \in [Attempts -> Entries]
  BY DEF Claim, RunInv, TypeOK
<1>3. e.by = i /\ e.mode = mode[i] /\ e.saw = {} /\ e.task = Current(i) /\ ~e.wrote BY DEF Blank
<1> HIDE DEF e
<1> QED BY <1>1, <1>2, <1>3

LEMMA DiffLog ==
  ASSUME ReferenceAssumption, RunInv, NEW i \in Invocations, WriteDiff(i)
  PROVE  /\ pc[i] \in InAttempt /\ log'[at[i]].saw = ws[Current(i)].writers
         /\ \A a \in Attempts : Grows(log'[a], log[a]) /\ log'[a].clone = log[a].clone
                                /\ log'[a].found = log[a].found /\ log'[a].wrote = log[a].wrote
         /\ \A a \in Attempts : a # at[i] => log'[a] = log[a]
<1>1. pc[i] \in InAttempt BY DEF WriteDiff, InAttempt
<1>2. at[i] \in Attempts /\ log[at[i]] \in Entries /\ log \in [Attempts -> Entries]
  BY <1>1, AttemptFacts DEF RunInv, TypeOK
<1> DEFINE e == log[at[i]]
           new == [e EXCEPT !.saw = ws[Current(i)].writers]
<1>3. log' = [log EXCEPT ![at[i]] = new] BY DEF WriteDiff
<1>4. /\ Grows(new, e) /\ new.clone = e.clone /\ new.found = e.found /\ new.wrote = e.wrote
      /\ new.saw = ws[Current(i)].writers
  BY <1>2 DEF Entries, Grows
<1>5. \A a \in Attempts : Grows(log[a], log[a]) BY DEF Grows
<1> HIDE DEF new
<1> QED BY <1>1, <1>2, <1>3, <1>4, <1>5

LEMMA EvidenceLog ==
  ASSUME ReferenceAssumption, RunInv, NEW i \in Invocations, WriteEvidence(i)
  PROVE  /\ pc[i] \in InAttempt /\ log'[at[i]].saw = log[at[i]].saw \union ws[Current(i)].writers
         /\ log'[at[i]].clone = ws[Current(i)].base
         /\ \A a \in Attempts : Grows(log'[a], log[a]) /\ log'[a].found = log[a].found
                                /\ log'[a].wrote = log[a].wrote
         /\ \A a \in Attempts : a # at[i] => log'[a] = log[a]
<1>1. pc[i] \in InAttempt BY DEF WriteEvidence, InAttempt
<1>2. at[i] \in Attempts /\ log[at[i]] \in Entries /\ log \in [Attempts -> Entries]
  BY <1>1, AttemptFacts DEF RunInv, TypeOK
<1> DEFINE e == log[at[i]] space == ws[Current(i)]
           new == [[e EXCEPT !.clone = space.base] EXCEPT !.saw = e.saw \union space.writers]
<1>3. log' = [log EXCEPT ![at[i]] = new] BY <1>2 DEF WriteEvidence, Entries
<1>4. /\ Grows(new, e) /\ new.clone = space.base /\ new.found = e.found /\ new.wrote = e.wrote
      /\ new.saw = e.saw \union space.writers
  BY <1>2 DEF Entries, Grows
<1>5. \A a \in Attempts : Grows(log[a], log[a]) BY DEF Grows
<1> HIDE DEF new
<1> QED BY <1>1, <1>2, <1>3, <1>4, <1>5

LEMMA TranscriptLog ==
  ASSUME ReferenceAssumption, RunInv, NEW i \in Invocations, CopyTranscript(i)
  PROVE  /\ pc[i] \in InAttempt
         /\ log'[at[i]].found \in Findable(at[i])
         /\ \A a \in Attempts : Grows(log'[a], log[a]) /\ log'[a].saw = log[a].saw
                                /\ log'[a].clone = log[a].clone /\ log'[a].wrote = log[a].wrote
         /\ \A a \in Attempts : a # at[i] => log'[a] = log[a]
<1>1. pc[i] \in InAttempt BY DEF CopyTranscript, InAttempt
<1>2. at[i] \in Attempts /\ log[at[i]] \in Entries /\ log \in [Attempts -> Entries]
  BY <1>1, AttemptFacts DEF RunInv, TypeOK
<1>3. PICK b \in Findable(at[i]) : log' = [log EXCEPT ![at[i]].found = b] BY DEF CopyTranscript
<1> DEFINE e == log[at[i]] new == [e EXCEPT !.found = b]
<1>4. /\ Grows(new, e) /\ new.clone = e.clone /\ new.found = b /\ new.saw = e.saw /\ new.wrote = e.wrote
  BY <1>2 DEF Entries, Grows
<1>5. \A a \in Attempts : Grows(log[a], log[a]) BY DEF Grows
<1>6. log' = [log EXCEPT ![at[i]] = new] BY <1>3
<1> HIDE DEF new
<1> QED BY <1>1, <1>2, <1>3, <1>4, <1>5, <1>6

LEMMA LogsLog ==
  ASSUME ReferenceAssumption, RunInv, NEW b \in Attempts, AgentLogs(b)
  PROVE  /\ log'[b].wrote
         /\ \A a \in Attempts : /\ Grows(log'[a], log[a]) /\ log'[a].saw = log[a].saw
                                /\ log'[a].clone = log[a].clone /\ log'[a].found = log[a].found
         /\ \A a \in Attempts : a # b => log'[a] = log[a]
<1>1. log \in [Attempts -> Entries] BY DEF RunInv, TypeOK
<1> DEFINE e == log[b] new == [e EXCEPT !.wrote = TRUE]
<1>2. log' = [log EXCEPT ![b] = new] BY DEF AgentLogs
<1>3. e \in Entries BY <1>1
<1>4. /\ Grows(new, e) /\ new.clone = e.clone /\ new.found = e.found /\ new.saw = e.saw /\ new.wrote
  BY <1>3 DEF Entries, Grows
<1>5. \A a \in Attempts : Grows(log[a], log[a]) BY DEF Grows
<1> HIDE DEF new
<1> QED BY <1>1, <1>2, <1>4, <1>5

(* What an attempt that began is, it stays. *)
LEMMA LogGrows ==
  ASSUME ReferenceAssumption, RunInv, Next
  PROVE  /\ 1..last \subseteq Attempts
         /\ \A a \in 1..last : Grows(log'[a], log[a])
<1>1. 1..last \subseteq Attempts BY DEF Attempts, ReferenceAssumption, RunInv, TypeOK
<1>2. ASSUME NEW i \in Invocations,
             Remove(i) \/ WriteDiff(i) \/ WriteEvidence(i) \/ CopyTranscript(i)
      PROVE  \A a \in 1..last : Grows(log'[a], log[a])
  BY <1>1, <1>2, RemoveLog, DiffLog, EvidenceLog, TranscriptLog
<1>3. ASSUME NEW i \in Invocations, Claim(i) PROVE \A a \in 1..last : Grows(log'[a], log[a])
  <2>1. last \in Nat /\ \A a \in Attempts : a # last + 1 => log'[a] = log[a]
    BY <1>3, ClaimLog DEF RunInv, TypeOK
  <2>2. \A a \in 1..last : a # last + 1 BY <2>1
  <2>3. \A a \in 1..last : log'[a] = log[a] BY <1>1, <2>1, <2>2
  <2> QED BY <2>3 DEF Grows
<1>4. CASE /\ \A i \in Invocations : ~Remove(i) /\ ~Claim(i) /\ ~WriteDiff(i) /\ ~WriteEvidence(i)
                                     /\ ~CopyTranscript(i)
           /\ \A a \in Attempts : ~AgentLogs(a)
  BY <1>1, <1>4, SteadyStep DEF Steady
<1>5. ASSUME NEW b \in Attempts, AgentLogs(b) PROVE \A a \in 1..last : Grows(log'[a], log[a])
  BY <1>1, <1>5, LogsLog
<1> QED BY <1>1, <1>2, <1>3, <1>4, <1>5

(* An invocation that is in an attempt has just begun it or was in it before. *)
LEMMA GoesOn ==
  ASSUME ReferenceAssumption, RunInv, Next, NEW i \in Invocations, pc'[i] \in InAttempt, ~Claim(i)
  PROVE  /\ pc[i] \in InAttempt /\ wave'[i] = wave[i] /\ at'[i] = at[i] /\ mode'[i] = mode[i]
         /\ Current(i)' = Current(i)
<1> USE DEF RunInv, TypeOK
<1> SUFFICES pc[i] \in InAttempt /\ wave'[i] = wave[i] /\ at'[i] = at[i] /\ mode'[i] = mode[i]
  BY DEF Current
<1>1. ASSUME NEW j \in Invocations, NEW w \in Waves, NEW o \in Options, Start(j, w, o)
      PROVE  pc[i] \in InAttempt /\ wave'[i] = wave[i] /\ at'[i] = at[i] /\ mode'[i] = mode[i]
  BY <1>1 DEF Start, InAttempt
<1>2. ASSUME NEW j \in Invocations, Remove(j)
      PROVE  pc[i] \in InAttempt /\ wave'[i] = wave[i] /\ at'[i] = at[i] /\ mode'[i] = mode[i]
  BY <1>2 DEF Remove, invVars, InAttempt
<1>3. ASSUME NEW j \in Invocations, Claim(j)
      PROVE  pc[i] \in InAttempt /\ wave'[i] = wave[i] /\ at'[i] = at[i] /\ mode'[i] = mode[i]
  BY <1>3 DEF Claim
<1>4. CASE /\ \A j \in Invocations : ~Remove(j) /\ ~Claim(j)
           /\ \A j \in Invocations, w \in Waves, o \in Options : ~Start(j, w, o)
  BY <1>4, QuietStep DEF Quiet
<1> QED BY <1>1, <1>2, <1>3, <1>4

LEMMA OwnedStep ==
  ASSUME ReferenceAssumption, RunInv, Traces, Next
  PROVE  Owned'
<1> SUFFICES ASSUME NEW i \in Invocations, pc'[i] \in InAttempt
             PROVE  log'[at'[i]].by = i /\ log'[at'[i]].mode = mode'[i]
  BY DEF Owned
<1>1. CASE Claim(i)
  <2>1. at'[i] = last + 1 /\ mode'[i] = mode[i] BY <1>1 DEF Claim, RunInv, TypeOK
  <2> QED BY <1>1, <2>1, ClaimLog
<1>2. CASE ~Claim(i)
  <2>1. pc[i] \in InAttempt /\ at'[i] = at[i] /\ mode'[i] = mode[i] BY <1>2, GoesOn
  <2>2. Grows(log'[at[i]], log[at[i]]) BY <2>1, AttemptFacts, LogGrows
  <2> QED BY <2>1, <2>2 DEF Grows, Traces, Owned
<1> QED BY <1>1, <1>2

(* Who can come to be seen: those seen before or, at the diff and the evidence,
   those who wrote in the workspace. *)
LEMMA SawStep ==
  ASSUME ReferenceAssumption, RunInv, Next, NEW a \in Attempts
  PROVE  \/ log'[a].saw \subseteq log[a].saw
         \/ \E i \in Invocations : /\ pc[i] \in InClone /\ pc[i] \in InAttempt /\ a = at[i]
                                   /\ log'[a].saw \subseteq log[a].saw \union ws[Current(i)].writers
<1>1. ASSUME NEW i \in Invocations, Remove(i) PROVE log'[a].saw \subseteq log[a].saw
  BY <1>1, RemoveLog
<1>2. ASSUME NEW i \in Invocations, Claim(i) PROVE log'[a].saw \subseteq log[a].saw
  BY <1>2, ClaimLog
<1>3. ASSUME NEW i \in Invocations, CopyTranscript(i) PROVE log'[a].saw \subseteq log[a].saw
  BY <1>3, TranscriptLog
<1>4. ASSUME NEW i \in Invocations, WriteDiff(i) \/ WriteEvidence(i)
      PROVE  \/ log'[a].saw \subseteq log[a].saw
             \/ /\ pc[i] \in InClone /\ pc[i] \in InAttempt /\ a = at[i]
                /\ log'[a].saw \subseteq log[a].saw \union ws[Current(i)].writers
  <2>1. pc[i] \in InClone BY <1>4 DEF WriteDiff, WriteEvidence, InClone
  <2> QED BY <1>4, <2>1, DiffLog, EvidenceLog
<1>5. CASE /\ \A i \in Invocations : ~Remove(i) /\ ~Claim(i) /\ ~WriteDiff(i) /\ ~WriteEvidence(i)
                                     /\ ~CopyTranscript(i)
           /\ \A b \in Attempts : ~AgentLogs(b)
  BY <1>5, SteadyStep DEF Steady
<1>6. ASSUME NEW b \in Attempts, AgentLogs(b) PROVE log'[a].saw \subseteq log[a].saw
  BY <1>6, LogsLog
<1> QED BY <1>1, <1>2, <1>3, <1>4, <1>5, <1>6

(* Who can come to have written in a workspace: a live agent of its task. *)
LEMMA WritersStep ==
  ASSUME ReferenceAssumption, RunInv, Next, NEW t \in Tasks
  PROVE  ws'[t].writers \subseteq ws[t].writers \union {b \in live : log[b].task = t}
<1> USE DEF RunInv, TypeOK
<1> DEFINE Goal == ws'[t].writers \subseteq ws[t].writers \union {b \in live : log[b].task = t}
<1>1. ASSUME UNCHANGED ws PROVE Goal BY <1>1
<1>2. ASSUME NEW i \in Invocations, NEW w \in Waves, NEW o \in Options, Start(i, w, o) PROVE Goal
  BY <1>2, <1>1 DEF Start
<1>3. ASSUME NEW i \in Invocations, Clone(i) \/ CloneFails(i) PROVE Goal
  <2>1. \E left \in {NoSpace, Cloned(at[i], Current(i))} : ws' = [ws EXCEPT ![Current(i)] = left]
    BY <1>3 DEF Clone, CloneFails
  <2>2. \A left \in {NoSpace, Cloned(at[i], Current(i))} : left.writers = {}
    BY DEF Cloned, NoSpace
  <2> QED BY <2>1, <2>2
<1>4. ASSUME NEW i \in Invocations,
             \/ EndWave(i) \/ LoadCrashes(i) \/ LoadExits(i) \/ Refuse(i) \/ Remove(i) \/ Claim(i)
             \/ Scaffold(i) \/ Spawn(i) \/ (\E f \in RunFacts : AgentEnds(i, f))
             \/ WriteRun(i) \/ WriteGuard(i) \/ WriteDiff(i) \/ WriteEvidence(i) \/ CopyTranscript(i)
             \/ NoTranscript(i) \/ Summarize(i) \/ Crash(i) \/ Kill(i)
      PROVE  Goal
  <2>1. UNCHANGED ws
    BY <1>4 DEF EndWave, LoadCrashes, LoadExits, Refuse, Remove, Claim, Scaffold, Spawn, AgentEnds, WriteRun, WriteGuard, WriteDiff, WriteEvidence, CopyTranscript, NoTranscript,
       Summarize, Crash, Kill
  <2> QED BY <2>1
<1>5. ASSUME NEW a \in Attempts, Agent(a) PROVE Goal
  <2>1. CASE AgentEdits(a)
    <3> DEFINE u == log[a].task
    <3>1. u \in Tasks BY DEF Entries
    <3>2. a \in live /\ ws' = [ws EXCEPT ![u].writers = ws[u].writers \union {a}]
      BY <2>1 DEF AgentEdits
    <3>3. CASE u = t BY <3>1, <3>2, <3>3
    <3>4. CASE u # t BY <3>1, <3>2, <3>4
    <3> QED BY <3>3, <3>4
  <2>2. CASE SurvivorEnds(a) \/ AgentLogs(a) BY <1>1, <2>2 DEF SurvivorEnds, AgentLogs
  <2> QED BY <1>5, <2>1, <2>2 DEF Agent
<1> QED BY <1>2, <1>3, <1>4, <1>5 DEF Next, Step

(* Only a claim begins an attempt. *)
LEMMA LastStays ==
  ASSUME ReferenceAssumption, RunInv, Next, \A i \in Invocations : ~Claim(i)
  PROVE  UNCHANGED last
<1>1. CASE \E i \in Invocations, w \in Waves, o \in Options : Start(i, w, o) BY <1>1 DEF Start
<1>2. CASE \E i \in Invocations : Remove(i) BY <1>2 DEF Remove, invVars
<1>3. CASE /\ \A j \in Invocations : ~Remove(j) /\ ~Claim(j)
           /\ \A j \in Invocations, w \in Waves, o \in Options : ~Start(j, w, o)
  BY <1>3, QuietStep DEF Quiet, RunInv
<1> QED BY <1>1, <1>2, <1>3

LEMMA BegunStep ==
  ASSUME ReferenceAssumption, RunInv, Traces, Next
  PROVE  Begun'
<1> USE DEF RunInv, TypeOK
<1>1. last' \in Nat /\ last <= last' /\ 1..last \subseteq 1..last'
  <2>1. CASE \E i \in Invocations : Claim(i) BY <2>1, TypedStep, SMTT(30) DEF Claim
  <2>2. CASE UNCHANGED last BY <2>2
  <2> QED BY <2>1, <2>2, LastStays
<1>2. \A t \in Tasks : ws'[t].writers \subseteq 1..last
  BY WritersStep DEF Traces, Begun
<1>3. \A a \in Attempts : log'[a].saw \subseteq 1..last
  <2> SUFFICES ASSUME NEW a \in Attempts PROVE log'[a].saw \subseteq 1..last OBVIOUS
  <2>1. log[a].saw \subseteq 1..last BY DEF Traces, Begun
  <2>2. \A i \in Invocations : pc[i] \in InAttempt => ws[Current(i)].writers \subseteq 1..last
    BY AttemptFacts DEF Traces, Begun
  <2> QED BY <2>1, <2>2, SawStep
<1>4. live' \subseteq 1..last
  <2>1. ASSUME NEW i \in Invocations, Spawn(i) PROVE live' \subseteq 1..last
    <3>1. at[i] \in 1..last BY <2>1, AttemptFacts DEF Spawn, InAttempt
    <3> QED BY <2>1, <3>1 DEF Spawn, Traces, Begun
  <2>2. ASSUME NEW i \in Invocations, NEW f \in RunFacts, AgentEnds(i, f)
        PROVE  live' \subseteq 1..last
    BY <2>2, WaitLog DEF AgentEnds, Traces, Begun
  <2>3. ASSUME live' \subseteq live PROVE live' \subseteq 1..last BY <2>3 DEF Traces, Begun
  <2>4. ASSUME NEW i \in Invocations,
               \/ EndWave(i) \/ LoadCrashes(i) \/ LoadExits(i) \/ Refuse(i) \/ Remove(i) \/ Claim(i)
               \/ Clone(i) \/ CloneFails(i) \/ Scaffold(i)
               \/ WriteRun(i) \/ WriteGuard(i) \/ WriteDiff(i) \/ WriteEvidence(i) \/ CopyTranscript(i)
               \/ NoTranscript(i) \/ Summarize(i) \/ Crash(i) \/ Kill(i)
        PROVE  live' \subseteq live
    BY WaitLog, <2>4 DEF EndWave, LoadCrashes, LoadExits, Refuse, Remove, Claim, Clone, CloneFails, Scaffold,
       WriteRun, WriteGuard, WriteDiff, WriteEvidence, CopyTranscript, NoTranscript,
       Summarize, Crash, Kill
  <2>5. ASSUME NEW a \in Attempts, Agent(a) PROVE live' \subseteq live
    BY <2>5 DEF Agent, AgentEdits, AgentLogs, SurvivorEnds
  <2>6. ASSUME NEW i \in Invocations, NEW w \in Waves, NEW o \in Options, Start(i, w, o)
        PROVE  live' \subseteq live
    BY <2>6 DEF Start
  <2> QED BY <2>1, <2>2, <2>3, <2>4, <2>5, <2>6 DEF Next, Step
<1>5. \A a \in Attempts : log'[a].saw \subseteq 1..last' BY <1>1, <1>3
<1>8. ASSUME NEW a \in Attempts, a > last' PROVE log'[a].saw = {}
  <2>1. a \in Nat /\ a > last BY <1>1, <1>8 DEF Attempts, ReferenceAssumption
  <2>2. log[a].saw = {} BY <2>1 DEF Traces, Begun
  <2>3. \A i \in Invocations : pc[i] \in InAttempt => a # at[i] BY <2>1, AttemptFacts
  <2> QED BY <2>2, <2>3, SawStep
<1>6. \A t \in Tasks : ws'[t].writers \subseteq 1..last' BY <1>1, <1>2
<1>7. live' \subseteq 1..last' BY <1>1, <1>4
<1> QED BY <1>5, <1>6, <1>7, <1>8 DEF Begun

(* An agent that may write in the workspace of an attempt is that attempt's own
   or was left running by an earlier one. *)
LEMMA OwnOrEarlier ==
  ASSUME ReferenceAssumption, RunInv, Traces, NEW i \in Invocations, pc[i] \in InAttempt,
         NEW b \in live, log[b].task = Current(i)
  PROVE  b = at[i] \/ Earlier(b, at[i])
<1>1. /\ at[i] \in 1..last /\ dir[Current(i)] = at[i] /\ log[at[i]].task = Current(i)
      /\ Current(i) \in Tasks /\ wave[i] # <<>> /\ pc[i] \notin Over
  BY AttemptFacts DEF InAttempt, Over
<1>2. b \in 1..last /\ b <= at[i] BY <1>1 DEF Traces, Begun, Latest
<1>3. CASE log[b].outlived BY <1>1, <1>2, <1>3 DEF Earlier
<1>4. CASE Awaited(b)
  <2>1. PICK j \in Invocations : at[j] = b /\ pc[j] = "running" BY <1>4 DEF Awaited
  <2>2. pc[j] \in InAttempt BY <2>1 DEF InAttempt
  <2>3. log[b].task = Current(j) BY <2>1, <2>2, AttemptFacts
  <2>4. j = i BY <1>1, <2>2, <2>3, NobodyElse
  <2> QED BY <2>1, <2>4
<1> QED BY <1>3, <1>4 DEF Traces, Afoot

(* What an earlier attempt left, it has left for good. *)
LEMMA EarlierStays ==
  ASSUME ReferenceAssumption, RunInv, Next, NEW a \in 1..last, NEW b \in 1..last, Earlier(b, a)
  PROVE  Earlier(b, a)'
BY LogGrows DEF Earlier, Grows

LEMMA SeenOwnStep ==
  ASSUME ReferenceAssumption, RunInv, Traces, Next
  PROVE  SeenOwn'
<1> SUFFICES ASSUME NEW a \in Attempts, NEW b \in log'[a].saw
             PROVE  b = a \/ Earlier(b, a)'
  BY DEF SeenOwn
<1>1. b = a \/ (b \in 1..last /\ Earlier(b, a))
  <2>1. \A c \in log[a].saw : c \in 1..last /\ (c = a \/ Earlier(c, a))
    BY DEF Traces, Begun, SeenOwn
  <2>2. ASSUME NEW i \in Invocations, pc[i] \in InClone, pc[i] \in InAttempt, a = at[i]
        PROVE  \A c \in ws[Current(i)].writers : c \in 1..last /\ (c = a \/ Earlier(c, a))
    BY <2>2, AttemptFacts DEF Traces, Begun, OwnClone
  <2> QED BY <2>1, <2>2, SawStep
<1>2. a \in 1..last
  <2>1. CASE a > last
    <3>1. log[a].saw = {} BY <2>1 DEF Traces, Begun
    <3>2. a \notin 1..last BY <2>1 DEF RunInv, TypeOK
    <3>3. \A i \in Invocations : pc[i] \in InAttempt => a # at[i] BY <3>2, AttemptFacts
    <3> QED BY <3>1, <3>3, SawStep
  <2> QED BY <2>1 DEF Attempts, ReferenceAssumption, RunInv, TypeOK
<1> QED BY <1>1, <1>2, EarlierStays

(* A directory changes hands only when an invocation that turned to its task
   removes or claims it. *)
LEMMA DirStays ==
  ASSUME ReferenceAssumption, RunInv, Next, NEW t \in Tasks,
         \A i \in Invocations : Remove(i) \/ Claim(i) => Current(i) # t
  PROVE  dir'[t] = dir[t]
<1> USE DEF RunInv, TypeOK
<1>1. ASSUME NEW i \in Invocations, Remove(i) \/ Claim(i) PROVE dir'[t] = dir[t]
  BY <1>1 DEF Remove, Claim
<1>2. ASSUME NEW i \in Invocations, NEW w \in Waves, NEW o \in Options, Start(i, w, o)
      PROVE  dir'[t] = dir[t]
  BY <1>2 DEF Start
<1>3. CASE /\ \A j \in Invocations : ~Remove(j) /\ ~Claim(j)
           /\ \A j \in Invocations, w \in Waves, o \in Options : ~Start(j, w, o)
  BY <1>3, QuietStep DEF Quiet
<1> QED BY <1>1, <1>2, <1>3

(* A directory changes hands to a newer attempt. *)
LEMMA LatestStep ==
  ASSUME ReferenceAssumption, RunInv, Traces, Next
  PROVE  Latest'
<1> USE DEF RunInv, TypeOK
<1> SUFFICES ASSUME NEW t \in Tasks, dir'[t] # 0, NEW a \in 1..last', log'[a].task = t
             PROVE  a <= dir'[t]
  BY DEF Latest
<1>1. ASSUME NEW i \in Invocations, Claim(i) PROVE a <= dir'[t]
  <2>1. /\ last' = last + 1 /\ dir' = [dir EXCEPT ![Current(i)] = last + 1] /\ Current(i) \in Tasks
        /\ log'[last + 1].task = Current(i)
        /\ \A b \in 1..last : log'[b] = log[b]
    <3>1. last' = last + 1 /\ dir' = [dir EXCEPT ![Current(i)] = last + 1] BY <1>1 DEF Claim
    <3>2. /\ Current(i) \in Tasks /\ log'[last + 1].task = Current(i)
          /\ 1..last \subseteq Attempts /\ \A b \in Attempts : b # last + 1 => log'[b] = log[b]
      BY <1>1, ClaimLog
    <3> QED BY <3>1, <3>2
  <2>2. CASE Current(i) = t BY <2>1, <2>2
  <2>3. CASE Current(i) # t
    <3>1. a \in 1..last /\ log[a].task = t /\ dir'[t] = dir[t] BY <2>1, <2>3
    <3> QED BY <3>1 DEF Traces, Latest
  <2> QED BY <2>2, <2>3
<1>2. CASE \A i \in Invocations : ~Claim(i)
  <2>1. UNCHANGED last
    BY <1>2, LastStays
  <2>2. dir'[t] = dir[t]
    <3>1. ASSUME NEW i \in Invocations, Remove(i), Current(i) = t PROVE FALSE
      BY <3>1 DEF Remove
    <3> QED BY <1>2, <3>1, DirStays
  <2>3. log[a].task = t BY <2>1, LogGrows DEF Grows
  <2> QED BY <2>1, <2>2, <2>3 DEF Traces, Latest
<1> QED BY <1>1, <1>2

(* An agent's harness waits for it, or has stopped to wait. *)
LEMMA AfootStep ==
  ASSUME ReferenceAssumption, RunInv, Traces, Next
  PROVE  Afoot'
<1> USE DEF RunInv, TypeOK
<1> DEFINE Waits(b) == \E i \in Invocations : at'[i] = b /\ pc'[i] = "running"
<1> SUFFICES ASSUME NEW b \in live' PROVE log'[b].outlived \/ Waits(b)
  BY DEF Afoot, Awaited
<1>1. b \in live /\ log[b].outlived => log'[b].outlived
  BY LogGrows DEF Grows, Traces, Begun
<1>2. ASSUME b \in live, UNCHANGED at,
             \A j \in Invocations : pc[j] = "running" => pc'[j] = "running"
      PROVE  log'[b].outlived \/ Waits(b)
  BY <1>1, <1>2 DEF Traces, Afoot, Awaited
<1>3. ASSUME NEW i \in Invocations,
             \/ EndWave(i) \/ LoadCrashes(i) \/ LoadExits(i) \/ Refuse(i) \/ Remove(i)
             \/ Clone(i) \/ CloneFails(i) \/ Scaffold(i)
             \/ WriteRun(i) \/ WriteGuard(i) \/ WriteDiff(i) \/ WriteEvidence(i) \/ CopyTranscript(i)
             \/ NoTranscript(i) \/ Summarize(i)
      PROVE  log'[b].outlived \/ Waits(b)
  <2>1. UNCHANGED live /\ UNCHANGED at
    BY <1>3 DEF EndWave, LoadCrashes, LoadExits, Refuse, Remove, Clone, CloneFails, Scaffold,
       WriteRun, WriteGuard, WriteDiff, WriteEvidence, CopyTranscript, NoTranscript, Summarize,
       Settle, invVars
  <2>2. pc[i] # "running" /\ \A j \in Invocations : j # i => pc'[j] = pc[j]
    BY <1>3 DEF EndWave, LoadCrashes, LoadExits, Refuse, Remove, Clone, CloneFails, Scaffold,
       WriteRun, WriteGuard, WriteDiff, WriteEvidence, CopyTranscript, NoTranscript, Summarize,
       Settle
  <2> QED BY <1>2, <2>1, <2>2
<1>4. ASSUME NEW i \in Invocations, Claim(i) PROVE log'[b].outlived \/ Waits(b)
  <2>1. /\ b \in live /\ pc[i] # "running"
        /\ \A j \in Invocations : j # i => pc'[j] = pc[j] /\ at'[j] = at[j]
    BY <1>4 DEF Claim
  <2>2. CASE log[b].outlived BY <1>1, <2>1, <2>2
  <2>3. CASE Awaited(b)
    <3>1. PICK j \in Invocations : at[j] = b /\ pc[j] = "running" BY <2>3 DEF Awaited
    <3>2. at'[j] = b /\ pc'[j] = "running" BY <2>1, <3>1
    <3> QED BY <3>2
  <2> QED BY <2>1, <2>2, <2>3 DEF Traces, Afoot
<1>5. ASSUME NEW i \in Invocations, Spawn(i) PROVE log'[b].outlived \/ Waits(b)
  <2>1. CASE b = at[i]
    <3>1. at'[i] = b /\ pc'[i] = "running" BY <1>5, <2>1 DEF Spawn, invVars
    <3> QED BY <3>1
  <2>2. CASE b # at[i]
    <3>1. b \in live /\ UNCHANGED at /\ \A j \in Invocations : pc[j] = "running" => pc'[j] = "running"
      BY <1>5, <2>2 DEF Spawn, invVars
    <3> QED BY <1>2, <3>1
  <2> QED BY <2>1, <2>2
<1>6. ASSUME NEW i \in Invocations, pc[i] = "running", b # at[i], b \in live, UNCHANGED at,
             \A j \in Invocations : j # i => pc'[j] = pc[j]
      PROVE  log'[b].outlived \/ Waits(b)
  <2>1. CASE log[b].outlived BY <1>1, <1>6, <2>1
  <2>2. CASE Awaited(b)
    <3>1. PICK j \in Invocations : at[j] = b /\ pc[j] = "running" BY <2>2 DEF Awaited
    <3>2. at'[j] = b /\ pc'[j] = "running" BY <1>6, <3>1
    <3> QED BY <3>2
  <2> QED BY <1>6, <2>1, <2>2 DEF Traces, Afoot
<1>7. ASSUME NEW i \in Invocations, NEW fs, pc[i] = "running", WaitOver(i, fs), UNCHANGED at,
             \A j \in Invocations : j # i => pc'[j] = pc[j]
      PROVE  log'[b].outlived \/ Waits(b)
  <2>1. b \in live BY <1>7, WaitLog
  <2>2. CASE b = at[i]
    <3>1. at[i] \in Attempts /\ log[at[i]] \in Entries BY <1>7, AttemptFacts DEF InAttempt
    <3>2. log' = [log EXCEPT ![at[i]] = Ended(log[at[i]], fs, TRUE)]
      BY <1>7, <2>2, WaitLog
    <3>3. log'[at[i]].outlived BY <3>1, <3>2 DEF Entries, Ended
    <3> QED BY <2>2, <3>3
  <2>3. CASE b # at[i] BY <1>6, <1>7, <2>1, <2>3
  <2> QED BY <2>2, <2>3
<1>8. ASSUME NEW i \in Invocations, NEW f \in RunFacts, AgentEnds(i, f)
      PROVE  log'[b].outlived \/ Waits(b)
  <2>1. /\ pc[i] = "running" /\ WaitOver(i, {f}) /\ UNCHANGED at
        /\ \A j \in Invocations : j # i => pc'[j] = pc[j]
    BY <1>8 DEF AgentEnds, invVars
  <2> QED BY <1>7, <2>1
<1>9. ASSUME NEW i \in Invocations, Crash(i) PROVE log'[b].outlived \/ Waits(b)
  <2>1. UNCHANGED at /\ \A j \in Invocations : j # i => pc'[j] = pc[j] BY <1>9 DEF Crash, Settle
  <2>2. CASE pc[i] = "running" /\ WaitOver(i, {}) BY <1>7, <2>1, <2>2
  <2>3. CASE pc[i] # "running" /\ UNCHANGED live BY <1>2, <2>1, <2>3
  <2> QED BY <1>9, <2>2, <2>3 DEF Crash
<1>10. ASSUME NEW i \in Invocations, Kill(i) PROVE log'[b].outlived \/ Waits(b)
  <2>1. UNCHANGED at /\ b \in live /\ \A j \in Invocations : j # i => pc'[j] = pc[j]
    BY <1>10 DEF Kill, invVars
  <2>2. CASE pc[i] = "running" /\ b = at[i]
    <3>1. pc[i] \in InAttempt /\ at[i] \in Attempts BY <2>2, AttemptFacts DEF InAttempt
    <3>2. log'[at[i]] = Ended(log[at[i]], {}, pc[i] = "running")
      <4>1. log' = [a \in Attempts |->
                     IF pc[i] \in InAttempt /\ a = at[i]
                     THEN Ended(log[a], {}, pc[i] = "running") ELSE log[a]]
        BY <1>10 DEF Kill
      <4> QED BY <3>1, <4>1, Zenon
    <3>3. log'[at[i]].outlived
      <4>1. log[at[i]] \in Entries BY <3>1, <2>2, AttemptFacts
      <4> QED BY <2>2, <3>2, <4>1 DEF Entries, Ended
    <3> QED BY <2>2, <3>3
  <2>3. CASE pc[i] = "running" /\ b # at[i] BY <1>6, <2>1, <2>3
  <2>4. CASE pc[i] # "running" BY <1>2, <2>1, <2>4
  <2> QED BY <2>2, <2>3, <2>4
<1>11. ASSUME NEW a \in Attempts, Agent(a) PROVE log'[b].outlived \/ Waits(b)
  BY <1>2, <1>11 DEF Agent, AgentEdits, AgentLogs, SurvivorEnds, invVars
<1>12. ASSUME NEW i \in Invocations, NEW w \in Waves, NEW o \in Options, Start(i, w, o)
       PROVE  log'[b].outlived \/ Waits(b)
  BY <1>2, <1>12 DEF Start
<1> QED
  BY <1>3, <1>4, <1>5, <1>7, <1>8, <1>9, <1>10, <1>11, <1>12 DEF Next, Step

LEMMA OwnCloneStep ==
  ASSUME ReferenceAssumption, RunInv, Traces, Next
  PROVE  OwnClone'
<1> USE DEF RunInv, TypeOK
<1> DEFINE Own(i) == /\ ws'[Current(i)].base = at[i]
                     /\ \A b \in ws'[Current(i)].writers : b = at[i] \/ Earlier(b, at[i])'
<1> SUFFICES ASSUME NEW i \in Invocations, pc'[i] \in InClone
             PROVE  ws'[Current(i)'].base = at'[i]
                    /\ \A b \in ws'[Current(i)'].writers : b = at'[i] \/ Earlier(b, at[i])'
  BY DEF OwnClone
<1>1. pc'[i] \in InAttempt BY DEF InClone, InAttempt
<1>2. ~Claim(i) BY DEF Claim, InClone
<1>3. pc[i] \in InAttempt /\ Current(i)' = Current(i) /\ at'[i] = at[i]
  BY <1>1, <1>2, GoesOn
<1> DEFINE t == Current(i)
<1>4. t \in Tasks /\ wave[i] # <<>> /\ pc[i] \notin Over
  BY <1>3, AttemptFacts DEF InAttempt, Over
<1>5. CASE Clone(i)
  <2>1. ws'[t] = Cloned(at[i], t) BY <1>4, <1>5 DEF Clone
  <2> QED BY <1>3, <2>1 DEF Cloned
<1>6. ASSUME pc[i] \in InClone, ws'[t].base = ws[t].base
      PROVE  Own(i)
  <2>1. \A b \in ws'[t].writers : b \in 1..last /\ (b = at[i] \/ Earlier(b, at[i]))
    <3>1. \A b \in ws[t].writers : b \in 1..last /\ (b = at[i] \/ Earlier(b, at[i]))
      BY <1>4, <1>6 DEF Traces, Begun, OwnClone
    <3>2. \A b \in live : log[b].task = t => b \in 1..last /\ (b = at[i] \/ Earlier(b, at[i]))
      BY <1>3, OwnOrEarlier DEF Traces, Begun
    <3> QED BY <1>4, <3>1, <3>2, WritersStep
  <2>2. at[i] \in 1..last /\ at'[i] = at[i] BY <1>3, AttemptFacts
  <2>3. \A b \in 1..last : Earlier(b, at[i]) => Earlier(b, at[i])'
    <3> SUFFICES ASSUME NEW b \in 1..last, Earlier(b, at[i]) PROVE Earlier(b, at[i])' OBVIOUS
    <3>1. Grows(log'[b], log[b]) /\ Grows(log'[at[i]], log[at[i]]) BY <2>2, LogGrows
    <3> QED BY <2>2, <3>1 DEF Earlier, Grows
  <2> QED BY <1>6, <2>1, <2>3 DEF Traces, OwnClone
<1>7. CASE ~Clone(i)
  <2>1. pc[i] \in InClone
    <3>1. ASSUME NEW j \in Invocations, j # i, Step(j) \/ Kill(j) PROVE pc'[i] = pc[i]
      BY <3>1 DEF Step, EndWave, LoadCrashes, LoadExits, Refuse, Remove, Claim, Clone, CloneFails,
         Scaffold, Spawn, AgentEnds, WriteRun, WriteGuard, WriteDiff, WriteEvidence,
         CopyTranscript, NoTranscript, Summarize, Crash, Kill, Settle
    <3>2. ASSUME NEW j \in Invocations, NEW w \in Waves, NEW o \in Options, Start(j, w, o)
          PROVE  pc'[i] = pc[i] \/ pc'[i] = "next"
      BY <3>2 DEF Start
    <3>3. ASSUME NEW a \in Attempts, Agent(a) PROVE pc'[i] = pc[i]
      BY <3>3 DEF Agent, AgentEdits, AgentLogs, SurvivorEnds
    <3>4. ASSUME Step(i) \/ Kill(i) PROVE pc[i] \in InClone
      <4>1. pc[i] = "clone" => ~Step(i)
        BY <1>2, <1>7 DEF Step, EndWave, LoadCrashes, LoadExits, Refuse, Remove, CloneFails, Crash,
           Scaffold, Spawn, AgentEnds, WriteRun, WriteGuard, WriteDiff, WriteEvidence,
           CopyTranscript, NoTranscript, Summarize, Settle, InClone
      <4>2. Kill(i) => pc'[i] = "killed" BY DEF Kill
      <4>3. pc[i] \notin {"transcript", "summary"}
        BY <3>4, <1>1 DEF Step, EndWave, LoadCrashes, LoadExits, Refuse, Remove, Claim, Clone, CloneFails,
           Scaffold, Spawn, AgentEnds, WriteRun, WriteGuard, WriteDiff, WriteEvidence,
           CopyTranscript, NoTranscript, Summarize, Crash, Kill, Settle, InClone
      <4> QED BY <1>3, <3>4, <4>1, <4>2, <4>3 DEF InAttempt, InClone
    <3> QED BY <3>1, <3>2, <3>3, <3>4 DEF Next, InClone
  <2>2. ws'[t].base = ws[t].base
    <3>1. ASSUME NEW j \in Invocations, Clone(j) \/ CloneFails(j) PROVE ws'[t].base = ws[t].base
      <4>1. pc[j] = "clone" /\ pc[j] \in InAttempt BY <3>1 DEF Clone, CloneFails, InAttempt
      <4>2. j # i BY <2>1, <4>1 DEF InClone
      <4>3. Current(j) # t BY <1>4, <4>1, <4>2, NobodyElse
      <4>4. \E left : ws' = [ws EXCEPT ![Current(j)] = left] BY <3>1 DEF Clone, CloneFails
      <4> QED BY <1>4, <4>3, <4>4
    <3>2. ASSUME NEW j \in Invocations, ~Clone(j), ~CloneFails(j), Step(j) \/ Kill(j)
          PROVE  UNCHANGED ws
      BY <3>2 DEF Step, EndWave, LoadCrashes, LoadExits, Refuse, Remove, Claim, Scaffold, Spawn,
         AgentEnds, WriteRun, WriteGuard, WriteDiff, WriteEvidence, CopyTranscript,
         NoTranscript, Summarize, Crash, Kill
    <3>3. ASSUME NEW a \in Attempts, Agent(a) PROVE ws'[t].base = ws[t].base
      <4>1. CASE AgentEdits(a)
        <5> DEFINE u == log[a].task
        <5>1. u \in Tasks BY DEF Entries
        <5>2. ws' = [ws EXCEPT ![u].writers = ws[u].writers \union {a}] BY <4>1 DEF AgentEdits
        <5>3. CASE u = t BY <5>1, <5>2, <5>3
        <5>4. CASE u # t BY <5>1, <5>2, <5>4, <1>4
        <5> QED BY <5>3, <5>4
      <4>2. CASE SurvivorEnds(a) \/ AgentLogs(a) BY <4>2 DEF SurvivorEnds, AgentLogs
      <4> QED BY <3>3, <4>1, <4>2 DEF Agent
    <3>4. ASSUME NEW j \in Invocations, NEW w \in Waves, NEW o \in Options, Start(j, w, o)
          PROVE  UNCHANGED ws
      BY <3>4 DEF Start
    <3> QED BY <3>1, <3>2, <3>3, <3>4 DEF Next
  <2>3. Own(i) BY <1>6, <2>1, <2>2
  <2> QED BY <1>3, <2>3
<1> QED BY <1>5, <1>7

(* Evidence and transcript are left alone by every step but those that write
   or drop them. *)
LEMMA FilesStay ==
  ASSUME ReferenceAssumption, RunInv, Next,
         \A i \in Invocations : ~Remove(i) /\ ~WriteEvidence(i) /\ ~CopyTranscript(i)
  PROVE  \A t \in Tasks : /\ file'[t]["evidence"] = file[t]["evidence"]
                          /\ file'[t]["transcript"] = file[t]["transcript"]
<1> USE DEF RunInv, TypeOK
<1> DEFINE Goal == \A t \in Tasks : /\ file'[t]["evidence"] = file[t]["evidence"]
                                    /\ file'[t]["transcript"] = file[t]["transcript"]
<1>1. ASSUME NEW i \in Invocations, NEW f \in {"run", "guard", "diff", "summary"}, WriteFile(i, f)
      PROVE  Goal
  BY <1>1, SMTT(30) DEF WriteFile, Files
<1>2. ASSUME NEW i \in Invocations, Step(i) \/ Kill(i),
             ~WriteRun(i), ~WriteGuard(i), ~WriteDiff(i), ~CloneFails(i), ~Summarize(i)
      PROVE  UNCHANGED file
  BY <1>2 DEF Step, EndWave, LoadCrashes, LoadExits, Refuse, Claim, Clone, Scaffold, Spawn,
     AgentEnds, NoTranscript, Crash, Kill, outVars
<1>3. ASSUME NEW i \in Invocations, WriteRun(i) \/ WriteGuard(i) \/ WriteDiff(i) \/ Summarize(i) PROVE Goal
  BY <1>1, <1>3 DEF WriteRun, WriteGuard, WriteDiff, Summarize
<1>4. ASSUME NEW i \in Invocations, CloneFails(i) PROVE Goal
  <2>1. WriteFile(i, "summary") BY <1>4 DEF CloneFails, WriteFile
  <2> QED BY <1>1, <2>1
<1>5. ASSUME NEW a \in Attempts, Agent(a) PROVE UNCHANGED file
  BY <1>5 DEF Agent, AgentEdits, AgentLogs, SurvivorEnds, outVars
<1>6. ASSUME NEW i \in Invocations, NEW w \in Waves, NEW o \in Options, Start(i, w, o)
      PROVE  UNCHANGED file
  BY <1>6 DEF Start
<1> QED BY <1>2, <1>3, <1>4, <1>5, <1>6 DEF Next

LEMMA VouchedStep ==
  ASSUME ReferenceAssumption, RunInv, Traces, Next
  PROVE  Vouched'
<1> USE DEF RunInv, TypeOK
<1> SUFFICES ASSUME NEW t \in Tasks
             PROVE  file'[t]["evidence"] # 0 => log'[dir'[t]].clone = dir'[t]
  BY DEF Vouched
<1> DEFINE Goal == file'[t]["evidence"] # 0 => log'[dir'[t]].clone = dir'[t]
<1>1. file[t]["evidence"] # 0 => dir[t] # 0 /\ log[dir[t]].clone = dir[t]
  BY DEF Traces, Vouched, OneAttempt, Files
<1>2. dir[t] # 0 => dir[t] \in 1..last /\ dir[t] \in Attempts /\ log[dir[t]].task = t
  BY DirectoryFacts
<1>3. ASSUME dir[t] # 0 => log'[dir[t]].clone = log[dir[t]].clone, dir'[t] = dir[t],
             file'[t]["evidence"] = file[t]["evidence"]
      PROVE  Goal
  BY <1>1, <1>3
<1>4. ASSUME NEW i \in Invocations, Remove(i) PROVE Goal
  <2>1. Current(i) \in Tasks /\ dir[Current(i)] # 0 BY <1>4, RemoveLog
  <2>2. CASE Current(i) = t
    <3>1. file'[t] = NoFiles BY <1>4, <2>2 DEF Remove
    <3> QED BY <3>1 DEF NoFiles, Files
  <2>3. CASE Current(i) # t
    <3>1. dir[t] # 0 => dir[t] # dir[Current(i)] BY <1>2, <2>1, <2>3, DirectoryFacts
    <3>2. dir[t] # 0 => log'[dir[t]] = log[dir[t]] BY <1>2, <1>4, <3>1, RemoveLog
    <3>3. file'[t] = file[t] /\ dir'[t] = dir[t] BY <1>4, <2>3 DEF Remove
    <3> QED BY <1>3, <3>2, <3>3
  <2> QED BY <2>2, <2>3
<1>5. ASSUME NEW i \in Invocations, Claim(i) PROVE Goal
  <2>1. UNCHANGED file BY <1>5 DEF Claim
  <2>2. CASE Current(i) = t
    <3>1. dir[t] = 0 BY <1>5, <2>2, ClaimLog
    <3> QED BY <1>1, <2>1, <3>1
  <2>3. CASE Current(i) # t
    <3>1. dir'[t] = dir[t] BY <1>5, <2>3 DEF Claim
    <3>2. dir[t] # 0 => log'[dir[t]] = log[dir[t]] BY <1>2, <1>5, ClaimLog, SMTT(30)
    <3> QED BY <1>3, <2>1, <3>1, <3>2
  <2> QED BY <2>2, <2>3
<1>6. ASSUME NEW i \in Invocations, WriteEvidence(i) PROVE Goal
  <2>1. pc[i] \in InAttempt /\ pc[i] \in InClone BY <1>6 DEF WriteEvidence, InAttempt, InClone
  <2>2. Current(i) \in Tasks /\ dir[Current(i)] = at[i] /\ at[i] \in Attempts
    BY <2>1, AttemptFacts
  <2>3. UNCHANGED dir /\ WriteFile(i, "evidence") BY <1>6 DEF WriteEvidence
  <2>4. CASE Current(i) = t
    <3>1. log'[dir[t]].clone = dir[t]
      BY <1>6, <2>1, <2>2, <2>4, EvidenceLog DEF Traces, OwnClone
    <3> QED BY <2>3, <3>1
  <2>5. CASE Current(i) # t
    <3>1. dir[t] # 0 => dir[t] # at[i] BY <1>2, <2>1, <2>5, AttemptFacts
    <3>2. dir[t] # 0 => log'[dir[t]] = log[dir[t]] BY <1>2, <1>6, <3>1, EvidenceLog
    <3>3. file'[t]["evidence"] = file[t]["evidence"] BY <2>2, <2>3, <2>5 DEF WriteFile
    <3> QED BY <1>3, <2>3, <3>2, <3>3
  <2> QED BY <2>4, <2>5
<1>7. CASE \A i \in Invocations : ~Remove(i) /\ ~Claim(i) /\ ~WriteEvidence(i)
  <2>1. dir'[t] = dir[t] BY <1>7, DirStays
  <2>2. file'[t]["evidence"] = file[t]["evidence"]
    <3>1. ASSUME NEW i \in Invocations, CopyTranscript(i) PROVE file'[t]["evidence"] = file[t]["evidence"]
      BY <3>1, AttemptFacts DEF CopyTranscript, WriteFile, InAttempt, Files
    <3>2. CASE \A i \in Invocations : ~CopyTranscript(i) BY <1>7, <3>2, FilesStay
    <3> QED BY <3>1, <3>2
  <2>3. \A a \in Attempts : log'[a].clone = log[a].clone
    <3>1. ASSUME NEW i \in Invocations, WriteDiff(i) \/ CopyTranscript(i)
          PROVE  \A a \in Attempts : log'[a].clone = log[a].clone
      BY <3>1, DiffLog, TranscriptLog
    <3>2. ASSUME NEW b \in Attempts, AgentLogs(b)
          PROVE  \A a \in Attempts : log'[a].clone = log[a].clone
      BY <3>2, LogsLog
    <3>3. CASE /\ \A i \in Invocations : ~WriteDiff(i) /\ ~CopyTranscript(i)
               /\ \A b \in Attempts : ~AgentLogs(b)
      BY <1>7, <3>3, SteadyStep DEF Steady
    <3> QED BY <3>1, <3>2, <3>3
  <2> QED BY <1>2, <1>3, <2>1, <2>2, <2>3
<1> QED BY <1>4, <1>5, <1>6, <1>7

(* Transcripts are written by live agents only. *)
LEMMA WroteStep ==
  ASSUME ReferenceAssumption, RunInv, Next, \A b \in Attempts : ~AgentLogs(b)
  PROVE  /\ UNCHANGED newest
         /\ \A a \in Attempts : log'[a].wrote => log[a].wrote
         /\ \A a \in 1..last : log[a].wrote => log'[a].wrote
<1>1. UNCHANGED newest
  <2>1. ASSUME NEW i \in Invocations, Step(i) \/ Kill(i) PROVE UNCHANGED newest
    BY <2>1 DEF Step, EndWave, LoadCrashes, LoadExits, Refuse, Remove, Claim, Clone, CloneFails,
       Scaffold, Spawn, AgentEnds, WriteRun, WriteGuard, WriteDiff, WriteEvidence,
       CopyTranscript, NoTranscript, Summarize, Crash, Kill, sessions
  <2>2. ASSUME NEW i \in Invocations, NEW w \in Waves, NEW o \in Options, Start(i, w, o)
        PROVE  UNCHANGED newest
    BY <2>2 DEF Start, sessions
  <2>3. ASSUME NEW a \in Attempts, Agent(a) PROVE UNCHANGED newest
    BY <2>3 DEF Agent, AgentEdits, SurvivorEnds, sessions
  <2> QED BY <2>1, <2>2, <2>3 DEF Next
<1>2. ASSUME NEW i \in Invocations, Remove(i) \/ WriteDiff(i) \/ WriteEvidence(i) \/ CopyTranscript(i)
      PROVE  \A a \in Attempts : log'[a].wrote = log[a].wrote
  BY <1>2, RemoveLog, DiffLog, EvidenceLog, TranscriptLog
<1>3. ASSUME NEW i \in Invocations, Claim(i)
      PROVE  /\ \A a \in Attempts : log'[a].wrote => log[a].wrote
             /\ \A a \in 1..last : log'[a] = log[a]
  <2>1. /\ ~log'[last + 1].wrote /\ 1..last \subseteq Attempts
        /\ \A a \in Attempts : a # last + 1 => log'[a] = log[a]
    BY <1>3, ClaimLog
  <2>2. \A a \in 1..last : a # last + 1 BY DEF RunInv, TypeOK
  <2> QED BY <2>1, <2>2
<1>4. ASSUME \A i \in Invocations : ~Remove(i) /\ ~Claim(i) /\ ~WriteDiff(i) /\ ~WriteEvidence(i)
                                    /\ ~CopyTranscript(i)
      PROVE  \A a \in Attempts : log'[a].wrote = log[a].wrote
  BY <1>4, SteadyStep DEF Steady
<1>5. 1..last \subseteq Attempts BY LogGrows
<1> QED BY <1>1, <1>2, <1>3, <1>4, <1>5

LEMMA LastWordStep ==
  ASSUME ReferenceAssumption, RunInv, Traces, Next
  PROVE  LastWord'
<1> USE DEF RunInv, TypeOK
<1>1. /\ last' \in Nat /\ last <= last' /\ 1..last \subseteq 1..last' /\ 1..last \subseteq Attempts
      /\ \A a \in 1..last' : log'[a].wrote => a \in 1..last
  <2>1. ASSUME NEW i \in Invocations, Claim(i)
        PROVE  /\ last' = last + 1 /\ ~log'[last + 1].wrote
    BY <2>1, ClaimLog DEF Claim
  <2>2. CASE \A i \in Invocations : ~Claim(i)
    <3>1. UNCHANGED last BY <2>2, LastStays
    <3> QED BY <3>1, LogGrows
  <2> QED BY <2>1, <2>2, LogGrows
<1> SUFFICES ASSUME NEW t \in Tasks, NEW m \in Agents
             PROVE  LastWordAt(t, m, newest[t][m])'
  BY DEF LastWord
<1> DEFINE n == newest[t][m]
<1>2. /\ n \in Nat
      /\ n # 0 => n \in 1..last /\ log[n].task = t /\ log[n].mode = m /\ log[n].wrote
      /\ \A a \in 1..last : (log[a].wrote /\ log[a].task = t /\ log[a].mode = m /\ n < a)
           => n # 0 /\ log[n].outlived
  BY DEF Traces, LastWord, LastWordAt
<1>3. \A a \in 1..last : Grows(log'[a], log[a]) BY LogGrows
<1>4. CASE \A b \in Attempts : ~AgentLogs(b)
  <2>1. /\ newest'[t][m] = n
        /\ \A a \in 1..last : log'[a].wrote <=> log[a].wrote
    BY <1>1, <1>4, WroteStep
  <2>2. n # 0 => /\ n \in 1..last' /\ log'[n].task = t /\ log'[n].mode = m /\ log'[n].wrote
    BY <1>1, <1>2, <1>3, <2>1 DEF Grows
  <2>3. ASSUME NEW a \in 1..last', log'[a].wrote, log'[a].task = t, log'[a].mode = m, n < a
        PROVE  n # 0 /\ log'[n].outlived
    <3>1. a \in 1..last /\ log[a].wrote /\ log[a].task = t /\ log[a].mode = m
      BY <1>1, <1>3, <2>1, <2>3 DEF Grows
    <3>2. n # 0 /\ log[n].outlived BY <1>2, <2>3, <3>1
    <3> QED BY <1>2, <1>3, <3>2 DEF Grows
  <2> QED BY <2>1, <2>2, <2>3 DEF LastWordAt
<1>5. ASSUME NEW b \in Attempts, AgentLogs(b)
      PROVE  LastWordAt(t, m, newest[t][m])'
  <2>1. /\ b \in live /\ b \in 1..last /\ log'[b].wrote /\ log[b].task \in Tasks /\ b # 0
        /\ newest' = [newest EXCEPT ![log[b].task][log[b].mode] = b]
        /\ \A a \in Attempts : a # b => log'[a] = log[a]
    <3>1. log[b].task \in Tasks /\ b # 0 BY DEF Entries, Attempts
    <3>2. b \in live /\ newest' = [newest EXCEPT ![log[b].task][log[b].mode] = b]
      BY <1>5 DEF AgentLogs
    <3>3. b \in 1..last BY <3>2 DEF Traces, Begun
    <3>4. log'[b].wrote /\ \A a \in Attempts : a # b => log'[a] = log[a] BY <1>5, LogsLog
    <3> QED BY <3>1, <3>2, <3>3, <3>4
  <2>2. CASE log[b].task = t /\ log[b].mode = m
    <3>1. newest'[t][m] = b BY <2>1, <2>2
    <3>2. b \in 1..last' /\ log'[b].task = t /\ log'[b].mode = m
      BY <1>1, <1>3, <2>1, <2>2 DEF Grows
    <3>3. ASSUME NEW a \in 1..last', log'[a].wrote, log'[a].task = t, log'[a].mode = m, b < a
          PROVE  log'[b].outlived
      <4>1. a \in 1..last /\ log[a].task = t BY <1>1, <1>3, <3>3 DEF Grows
      <4>2. CASE log[b].outlived BY <1>3, <2>1, <4>2 DEF Grows
      <4>3. CASE Awaited(b)
        <5>1. PICK j \in Invocations : at[j] = b /\ pc[j] = "running" BY <4>3 DEF Awaited
        <5>2. dir[t] = b
          BY <2>2, <5>1, AttemptFacts DEF InAttempt
        <5>3. a <= b BY <2>1, <4>1, <5>2 DEF Traces, Latest
        <5> QED BY <2>1, <3>3, <4>1, <5>3
      <4> QED BY <2>1, <4>2, <4>3 DEF Traces, Afoot
    <3> QED BY <2>1, <3>1, <3>2, <3>3 DEF LastWordAt
  <2>3. CASE ~(log[b].task = t /\ log[b].mode = m)
    <3>1. newest'[t][m] = n BY <2>1, <2>3
    <3>2. n # b BY <1>2, <2>1, <2>3
    <3>3. n # 0 => log'[n] = log[n] BY <1>1, <1>2, <2>1, <3>2
    <3>4. n # 0 => n \in 1..last' /\ log'[n].task = t /\ log'[n].mode = m /\ log'[n].wrote
      BY <1>1, <1>2, <3>3
    <3>5. ASSUME NEW a \in 1..last', log'[a].wrote, log'[a].task = t, log'[a].mode = m, n < a
          PROVE  n # 0 /\ log'[n].outlived
      <4>1. a \in 1..last /\ log[a].task = t /\ log[a].mode = m
        BY <1>1, <1>3, <3>5 DEF Grows
      <4>2. a # b BY <2>3, <4>1
      <4>3. log'[a] = log[a] BY <1>1, <2>1, <4>1, <4>2
      <4>4. n # 0 /\ log[n].outlived BY <1>2, <3>5, <4>1, <4>3
      <4> QED BY <3>3, <4>4
    <3> QED BY <3>1, <3>4, <3>5 DEF LastWordAt
  <2> QED BY <2>2, <2>3
<1> QED BY <1>4, <1>5

(* What a step does to the place of an invocation in its wave: it stays, or the
   current id is settled; with worst still 0 that is by Summarize. *)
LEMMA WaveStep ==
  ASSUME ReferenceAssumption, RunInv, Traces, Next, NEW i \in Invocations,
         pc'[i] \notin Over, worst'[i] = 0
  PROVE  \/ /\ pc[i] = "off" /\ wave'[i] = ids'[i]
         \/ /\ pc[i] \notin Over /\ worst[i] = 0 /\ ids'[i] = ids[i]
            /\ \/ wave'[i] = wave[i]
               \/ Summarize(i) /\ wave'[i] = Tail(wave[i])
<1> USE DEF RunInv, TypeOK
<1> DEFINE Same == pc[i] \notin Over /\ worst[i] = 0 /\ ids'[i] = ids[i] /\ wave'[i] = wave[i]
<1>1. ASSUME NEW j \in Invocations, j # i, Step(j) \/ Kill(j) PROVE Same
  <2>1. pc'[i] = pc[i] /\ worst'[i] = worst[i] /\ ids'[i] = ids[i] /\ wave'[i] = wave[i]
    BY <1>1 DEF Step, EndWave, LoadCrashes, LoadExits, Refuse, Remove, Claim, Clone, CloneFails,
       Scaffold, Spawn, AgentEnds, WriteRun, WriteGuard, WriteDiff, WriteEvidence,
       CopyTranscript, NoTranscript, Summarize, Crash, Kill, Settle, invVars
  <2> QED BY <2>1
<1>2. ASSUME NEW code \in Nat \ {0}, Settle(i, code) PROVE FALSE
  <2>1. worst'[i] = IF code > worst[i] THEN code ELSE worst[i] BY <1>2 DEF Settle
  <2>2. worst[i] \in Nat OBVIOUS
  <2> QED BY <1>2, <2>1, <2>2
<1>3. ~LoadCrashes(i) /\ ~Refuse(i) /\ ~CloneFails(i) /\ ~Crash(i)
  <2>1. 4 \in Nat \ {0} /\ 5 \in Nat \ {0} /\ 6 \in Nat \ {0} OBVIOUS
  <2>2. ~Settle(i, 4) /\ ~Settle(i, 5) /\ ~Settle(i, 6) BY <1>2, <2>1
  <2> QED BY <2>2 DEF LoadCrashes, Refuse, CloneFails, Crash
<1>4. ~EndWave(i) /\ ~LoadExits(i) /\ ~Kill(i) BY DEF EndWave, LoadExits, Kill, Over
<1>5. ASSUME Step(i), ~Summarize(i) PROVE Same
  <2>1. worst'[i] = worst[i] /\ ids'[i] = ids[i] /\ wave'[i] = wave[i]
    BY <1>3, <1>4, <1>5 DEF Step, Remove, Claim, Clone, Scaffold, Spawn, AgentEnds,
       WriteRun, WriteGuard, WriteDiff, WriteEvidence, CopyTranscript, NoTranscript, invVars
  <2>2. pc[i] \notin Over
    BY <1>3, <1>4, <1>5 DEF Step, Remove, Claim, Clone, Scaffold, Spawn, AgentEnds,
       WriteRun, WriteGuard, WriteDiff, WriteEvidence, CopyTranscript, NoTranscript, Over
  <2> QED BY <2>1, <2>2
<1>6. ASSUME Summarize(i)
      PROVE  /\ pc[i] \notin Over /\ worst[i] = 0 /\ ids'[i] = ids[i] /\ wave'[i] = Tail(wave[i])
  <2>1. PICK code \in {0, 7} : Settle(i, code) BY <1>6 DEF Summarize
  <2>2. worst'[i] = (IF code > worst[i] THEN code ELSE worst[i]) BY <2>1 DEF Settle
  <2>3. worst[i] = 0 BY <2>2
  <2>4. ids'[i] = ids[i] /\ wave'[i] = Tail(wave[i]) BY <2>1 DEF Settle
  <2>5. pc[i] \notin Over BY <1>6 DEF Summarize, Over
  <2> QED BY <2>3, <2>4, <2>5
<1>7. ASSUME NEW a \in Attempts, Agent(a) PROVE Same
  BY <1>7 DEF Agent, AgentEdits, AgentLogs, SurvivorEnds, invVars
<1>8. ASSUME NEW j \in Invocations, NEW w \in Waves, NEW o \in Options, Start(j, w, o)
      PROVE  Same \/ (pc[i] = "off" /\ wave'[i] = ids'[i])
  <2>1. CASE j = i BY <1>8, <2>1 DEF Start
  <2>2. CASE j # i BY <1>8, <2>2 DEF Start
  <2> QED BY <2>1, <2>2
<1> QED BY <1>1, <1>4, <1>5, <1>6, <1>7, <1>8 DEF Next

LEMMA FinishedStep ==
  ASSUME ReferenceAssumption, RunInv, Traces, Next
  PROVE  Finished'
<1> USE DEF RunInv, TypeOK
<1> SUFFICES ASSUME NEW i \in Invocations, pc'[i] \notin Over, worst'[i] = 0, NEW t \in Range(ids'[i]),
                    t \notin Range(wave'[i])
             PROVE  file'[t]["summary"] # 0 /\ log'[dir'[t]].by = i
  BY DEF Finished
<1>1. /\ pc[i] \notin Over /\ worst[i] = 0 /\ ids'[i] = ids[i]
      /\ \/ wave'[i] = wave[i]
         \/ Summarize(i) /\ wave'[i] = Tail(wave[i])
  BY WaveStep
<1>2. t \in Tasks /\ t \in Range(ids[i])
  <2>1. \A s \in Seq(Tasks) : Range(s) \subseteq Tasks BY DEF Range
  <2> QED BY <1>1, <2>1
<1>3. CASE t \in Range(wave[i])
  <2>1. Summarize(i) /\ wave'[i] = Tail(wave[i]) BY <1>1, <1>3
  <2>2. pc[i] \in InAttempt BY <2>1 DEF Summarize, InAttempt
  <2>3. t = Current(i)
    <3>1. \A s \in Seq(Tasks) : s # <<>> => Range(s) \subseteq {Head(s)} \union Range(Tail(s))
      <4>1. ASSUME NEW s \in Seq(Tasks), s # <<>>, NEW n \in DOMAIN s, n # 1
            PROVE  s[n] \in Range(Tail(s))
        <5>1. n - 1 \in DOMAIN Tail(s) /\ Tail(s)[n - 1] = s[n] BY <4>1, SMTT(30)
        <5> QED BY <5>1 DEF Range
      <4>2. ASSUME NEW s \in Seq(Tasks), s # <<>> PROVE Head(s) = s[1] OBVIOUS
      <4>3. ASSUME NEW s \in Seq(Tasks), s # <<>>, NEW x \in Range(s)
            PROVE  x \in {Head(s)} \union Range(Tail(s))
        <5>1. PICK n \in DOMAIN s : x = s[n] BY <4>3 DEF Range
        <5> QED BY <4>1, <4>2, <4>3, <5>1
      <4> QED BY <4>3
    <3> QED BY <1>3, <2>1, <2>2, <3>1, AttemptFacts DEF Current
  <2>4. /\ at[i] \in 1..last /\ at[i] \in Attempts /\ dir[t] = at[i] BY <2>2, <2>3, AttemptFacts
  <2>5. file'[t]["summary"] = at[i] /\ UNCHANGED dir
    BY <1>2, <2>1, <2>3 DEF Summarize, WriteFile, Files
  <2>6. log'[at[i]].by = log[at[i]].by BY <2>4, LogGrows DEF Grows
  <2> QED BY <2>2, <2>4, <2>5, <2>6 DEF Traces, Owned
<1>4. CASE t \notin Range(wave[i])
  <2>1. file[t]["summary"] # 0 /\ log[dir[t]].by = i BY <1>1, <1>2, <1>4 DEF Traces, Finished
  <2>2. dir[t] # 0 /\ dir[t] \in 1..last
    <3>1. file[t]["summary"] = dir[t] BY <1>2, <2>1 DEF OneAttempt, Files
    <3> QED BY <1>2, <2>1, <3>1, DirectoryFacts
  <2>3. ASSUME NEW j \in Invocations, Remove(j) PROVE Current(j) # t
    <3>1. Current(j) \in Range(wave[j]) /\ wave[j] \in Seq(Tasks) /\ pc[j] \notin Over
      BY <2>3, Waving DEF Remove, Current, Over
    <3>2. CASE j = i BY <1>4, <3>1, <3>2
    <3>3. CASE j # i BY <1>1, <1>2, <3>1, <3>3 DEF Apart
    <3> QED BY <3>2, <3>3
  <2>4. ASSUME NEW j \in Invocations, Claim(j) PROVE Current(j) # t
    BY <2>2, <2>4, ClaimLog, SMTT(30)
  <2>5. dir'[t] = dir[t] BY <1>2, <2>3, <2>4, DirStays
  <2>6. log'[dir[t]].by = i BY <2>1, <2>2, LogGrows DEF Grows
  <2>7. file'[t]["summary"] # 0
    <3>1. CASE \A j \in Invocations : ~Remove(j) /\ ~Claim(j)
      <4>1. CASE \A j \in Invocations, w \in Waves, o \in Options : ~Start(j, w, o)
        <5>1. file'[t]["summary"] \in {file[t]["summary"], dir[t]}
          BY <1>2, <3>1, <4>1, QuietStep DEF Quiet, Files
        <5> QED BY <2>1, <2>2, <5>1
      <4>2. CASE \E j \in Invocations, w \in Waves, o \in Options : Start(j, w, o)
        BY <2>1, <4>2 DEF Start
      <4> QED BY <4>1, <4>2
    <3>2. ASSUME NEW j \in Invocations, Remove(j) PROVE file'[t] = file[t]
      BY <1>2, <2>3, <3>2 DEF Remove
    <3>3. ASSUME NEW j \in Invocations, Claim(j) PROVE file'[t] = file[t] BY <3>3 DEF Claim
    <3> QED BY <2>1, <3>1, <3>2, <3>3
  <2> QED BY <2>5, <2>6, <2>7
<1> QED BY <1>3, <1>4

LEMMA TracesInitially == ASSUME ReferenceAssumption, Init PROVE Traces
<1>1. Owned /\ Afoot /\ OwnClone /\ Latest
  BY DEF Init, Owned, Afoot, OwnClone, Latest, InAttempt, InClone
<1>6. LastWord BY DEF Init, LastWord, LastWordAt, Blank
<1>2. Begun BY DEF Init, Begun, NoSpace, Blank
<1>3. SeenOwn BY DEF Init, SeenOwn, Blank
<1>4. Vouched
  <2>1. \A t \in Tasks : file[t]["evidence"] = 0 /\ file[t]["transcript"] = 0
    BY DEF Init, NoFiles, Files
  <2> QED BY <2>1 DEF Vouched
<1>5. Finished BY DEF Init, Finished, Over
<1> QED BY <1>1, <1>2, <1>3, <1>4, <1>5, <1>6 DEF Traces

LEMMA TracesInductive ==
  ASSUME ReferenceAssumption, RunInv, Traces, [Next]_vars PROVE Traces'
<1>1. CASE Next
  BY <1>1, OwnedStep, BegunStep, AfootStep, OwnCloneStep, SeenOwnStep, LatestStep, LastWordStep,
     VouchedStep, FinishedStep
  DEF Traces
<1>2. CASE UNCHANGED vars
  BY <1>2 DEF vars, Traces, Owned, Begun, Latest, Afoot, Awaited, OwnClone, SeenOwn, Earlier,
     LastWord, LastWordAt, Vouched, Finished, Current, sessions
<1> QED BY <1>1, <1>2

(* The inductive invariant behind what the kept files say: who wrote in which
   workspace, whose agent still runs and what the waves have finished. *)
THEOREM TracesInvariance == ASSUME ReferenceAssumption PROVE Spec => [](RunInv /\ Traces)
<1>1. Init => RunInv /\ Traces BY Initially, TracesInitially
<1>2. RunInv /\ Traces /\ [Next]_vars => (RunInv /\ Traces)' BY Inductive, TracesInductive
<1> QED BY <1>1, <1>2, PTL DEF Spec

(* The evidence kept of an attempt was measured on the clone that attempt made,
   and nobody wrote in it but the attempt's agent and what earlier attempts at
   the task left running, whatever ran, was killed or crashed beside it. *)
THEOREM MeasuredOwnCloneTheorem == ASSUME ReferenceAssumption PROVE Spec => []MeasuredOwnClone
<1>1. ASSUME RunInv, Traces PROVE MeasuredOwnClone
  <2> SUFFICES ASSUME NEW t \in Tasks, file[t]["evidence"] # 0
               PROVE  /\ log[dir[t]].clone = dir[t]
                      /\ \A b \in log[dir[t]].saw :
                           b = dir[t] \/ (b < dir[t] /\ log[b].task = t /\ log[b].outlived)
    BY <1>1 DEF MeasuredOwnClone, RunInv, OneAttempt, Files
  <2>1. file[t]["evidence"] = dir[t] BY <1>1 DEF RunInv, OneAttempt, Files
  <2>2. dir[t] \in Attempts /\ log[dir[t]].task = t BY <1>1, <2>1, DirectoryFacts
  <2> QED BY <1>1, <2>1, <2>2 DEF Traces, Vouched, SeenOwn, Earlier
<1>2. RunInv /\ Traces => MeasuredOwnClone BY <1>1
<1> QED BY <1>2, TracesInvariance, PTL

(* The transcript kept with an attempt of claude's is that of its own session.
   One of codex's may be that of an earlier attempt at the task, but only when
   the attempt's own session has written none or the earlier one was left
   running. *)
THEOREM OwnTranscriptTheorem == ASSUME ReferenceAssumption PROVE Spec => OwnTranscript
<1> DEFINE A == \A t \in Tasks : LET a == file'[t]["transcript"] IN
                  (a # 0 /\ file[t]["transcript"] # a) =>
                    LET b == log'[a].found IN
                      \/ b = a /\ log[a].wrote
                      \/ /\ log[a].mode = "codex"
                         /\ b < a /\ log[b].task = t /\ log[b].mode = "codex"
                         /\ log[b].outlived \/ ~log[a].wrote
<1>1. ASSUME ReferenceAssumption, RunInv, Traces, Next PROVE A
  <2> SUFFICES ASSUME NEW t \in Tasks, file'[t]["transcript"] # 0,
                      file[t]["transcript"] # file'[t]["transcript"]
               PROVE  LET a == file'[t]["transcript"]
                          b == log'[a].found
                      IN  \/ b = a /\ log[a].wrote
                          \/ /\ log[a].mode = "codex"
                             /\ b < a /\ log[b].task = t /\ log[b].mode = "codex"
                             /\ log[b].outlived \/ ~log[a].wrote
    OBVIOUS
  <2> USE <1>1 DEF RunInv, TypeOK
  <2>1. ASSUME NEW i \in Invocations, Remove(i) \/ WriteEvidence(i) PROVE FALSE
    <3>1. CASE Remove(i)
      <4>1. Current(i) \in Tasks BY <3>1, RemoveLog
      <4>2. file' = [file EXCEPT ![Current(i)] = NoFiles] BY <3>1 DEF Remove
      <4> QED BY <4>1, <4>2 DEF NoFiles, Files
    <3>2. CASE WriteEvidence(i)
      <4>1. Current(i) \in Tasks BY <3>2, AttemptFacts DEF WriteEvidence, InAttempt
      <4>2. WriteFile(i, "evidence") BY <3>2 DEF WriteEvidence
      <4> QED BY <4>1, <4>2 DEF WriteFile, Files
    <3> QED BY <2>1, <3>1, <3>2
  <2>2. PICK i \in Invocations : CopyTranscript(i) BY <2>1, FilesStay
  <2> DEFINE a == at[i] b == log'[a].found
  <2>3. /\ pc[i] \in InAttempt /\ mode[i] # "dry" /\ WriteFile(i, "transcript")
    BY <2>2 DEF CopyTranscript, InAttempt
  <2>4. /\ Current(i) \in Tasks /\ a \in 1..last /\ a \in Attempts /\ dir[Current(i)] = a
        /\ log[a].task = Current(i) /\ log[a].mode = mode[i] /\ mode[i] \in Agents
    BY <2>3, AttemptFacts DEF Traces, Owned, Modes
  <2>5. Current(i) = t /\ file'[t]["transcript"] = a
    BY <2>3, <2>4 DEF WriteFile, Files
  <2>6. b \in Findable(a) BY <2>2, TranscriptLog
  <2>7. CASE mode[i] = "claude"
    <3>1. b \in Attempts /\ b = Printed(a) /\ log[b].wrote BY <2>4, <2>6, <2>7 DEF Findable
    <3>2. b = a /\ log[a].wrote BY <3>1 DEF Printed, Attempts
    <3> QED BY <2>5, <3>2
  <2>8. CASE mode[i] = "codex"
    <3>1. b \in Attempts /\ b = newest[t]["codex"]
      BY <2>4, <2>5, <2>6, <2>8 DEF Findable, NewestIn
    <3>2. /\ b \in 1..last /\ log[b].task = t /\ log[b].mode = "codex" /\ log[b].wrote
          /\ (log[a].wrote /\ b < a) => log[b].outlived
      <4>1. b # 0 /\ "codex" \in Agents BY <3>1 DEF Attempts, Agents
      <4> QED BY <2>4, <2>5, <2>8, <3>1, <4>1 DEF Traces, LastWord, LastWordAt
    <3>3. b <= a BY <2>4, <2>5, <3>2 DEF Traces, Latest
    <3>4. CASE b = a BY <2>5, <3>2, <3>4
    <3>5. CASE b < a BY <2>4, <2>5, <2>8, <3>2, <3>5
    <3>6. b = a \/ b < a BY <2>4, <3>2, <3>3
    <3> QED BY <3>4, <3>5, <3>6
  <2> QED BY <2>4, <2>7, <2>8 DEF Agents
<1>2. RunInv /\ Traces /\ [Next]_vars => [A]_vars BY <1>1
<1>3. [][A]_vars <=> OwnTranscript BY DEF OwnTranscript
<1> QED BY <1>2, <1>3, TracesInvariance, PTL DEF Spec

(* A wave that exits with 0 has left the summary of its own attempt at every id
   it was given: no id refused, crashed, exited or without its transcript, and
   none dropped since by another invocation. *)
THEOREM ZeroExitTheorem == ASSUME ReferenceAssumption PROVE Spec => ZeroExitMeansSummaries
<1> DEFINE A == \A i \in Invocations : (pc[i] # "done" /\ pc'[i] = "done" /\ worst[i] = 0) =>
                  \A t \in Range(ids[i]) :
                    /\ file[t]["summary"] # 0
                    /\ file[t]["summary"] = dir[t]
                    /\ log[dir[t]].by = i
<1>1. ASSUME ReferenceAssumption, RunInv, Traces, Next PROVE A
  <2> SUFFICES ASSUME NEW i \in Invocations, pc[i] # "done", pc'[i] = "done", worst[i] = 0,
                      NEW t \in Range(ids[i])
               PROVE  /\ file[t]["summary"] # 0
                      /\ file[t]["summary"] = dir[t]
                      /\ log[dir[t]].by = i
    OBVIOUS
  <2>1. EndWave(i)
    <3> USE DEF RunInv, TypeOK
    <3>1. ASSUME NEW j \in Invocations, j # i, Step(j) \/ Kill(j) PROVE pc'[i] = pc[i]
      BY <1>1, <3>1 DEF Step, EndWave, LoadCrashes, LoadExits, Refuse, Remove, Claim, Clone, CloneFails,
         Scaffold, Spawn, AgentEnds, WriteRun, WriteGuard, WriteDiff, WriteEvidence,
         CopyTranscript, NoTranscript, Summarize, Crash, Kill, Settle
    <3>2. ASSUME Step(i) \/ Kill(i), ~EndWave(i) PROVE pc'[i] # "done"
      BY <1>1, <3>2 DEF Step, LoadCrashes, LoadExits, Refuse, Remove, Claim, Clone, CloneFails,
         Scaffold, Spawn, AgentEnds, WriteRun, WriteGuard, WriteDiff, WriteEvidence,
         CopyTranscript, NoTranscript, Summarize, Crash, Kill, Settle
    <3>3. ASSUME NEW a \in Attempts, Agent(a) PROVE pc'[i] = pc[i]
      BY <3>3 DEF Agent, AgentEdits, AgentLogs, SurvivorEnds
    <3>4. ASSUME NEW j \in Invocations, NEW w \in Waves, NEW o \in Options, Start(j, w, o)
          PROVE  pc'[i] \in {pc[i], "next"}
      BY <1>1, <3>4 DEF Start
    <3> QED BY <1>1, <3>1, <3>2, <3>3, <3>4 DEF Next
  <2>2. wave[i] = <<>> /\ pc[i] \notin Over BY <2>1 DEF EndWave, Over
  <2>3. t \in Tasks
    <3>1. \A s \in Seq(Tasks) : Range(s) \subseteq Tasks BY DEF Range
    <3> QED BY <1>1, <3>1 DEF RunInv, TypeOK
  <2>4. file[t]["summary"] # 0 /\ log[dir[t]].by = i
    BY <1>1, <2>2 DEF Traces, Finished, Range
  <2> QED BY <1>1, <2>3, <2>4 DEF RunInv, OneAttempt, Files
<1>2. RunInv /\ Traces /\ [Next]_vars => [A]_vars BY <1>1
<1>3. [][A]_vars <=> ZeroExitMeansSummaries BY DEF ZeroExitMeansSummaries
<1> QED BY <1>2, <1>3, TracesInvariance, PTL DEF Spec
=============================================================================
