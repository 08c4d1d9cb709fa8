----------------------------- MODULE CallCache -----------------------------
(***************************************************************************)
(* The exact-request cache below .cache/structured, as _run_one uses it:   *)
(* several calls, of one run or of several, whose cache keys agree in      *)
(* everything but the provider identity (model, task version, seed, sample *)
(* and inputs are the same).  Their requests may differ all the same, and  *)
(* the provider may be deployed anew at any time.                          *)
(*                                                                         *)
(* An identity is a pair (provider_version, prompt_sha256).  A call knows  *)
(* it before it executes because its config declares it, because the       *)
(* executor is probed for it, or not at all.                               *)
(***************************************************************************)
CONSTANTS
  Calls,         \* executions of _run_one
  Deployments,   \* states of the provider
  Requests,      \* serialized requests
  Identities,    \* values of (provider_version, prompt_sha256)
  IdentityOf,    \* IdentityOf[<<d, r>>]: what an envelope of r by d says
  Request,       \* Request[c]
  Kind,          \* Kind[c]: "declared", "probed" or "none"
  Declared,      \* Declared[c]: the identity in c's config
  NoCache,       \* calls of runs started with --no-cache
  Absent         \* no identity, no entry, no answer

ASSUME CacheAssumption ==
  /\ IdentityOf \in [Deployments \X Requests -> Identities]
  /\ Request \in [Calls -> Requests]
  /\ Kind \in [Calls -> {"declared", "probed", "none"}]
  /\ Declared \in [Calls -> Identities]
  /\ NoCache \subseteq Calls
  /\ Absent \notin Identities \union Calls \union Deployments

VARIABLES
  deployed,    \* the deployment that answers now
  entries,     \* entries[i]: the file whose key has identity i
  pc,          \* pc[c]: where c's _run_one stands
  asked,       \* asked[c]: the deployment at c's preflight
  identity,    \* identity[c]: what the preflight returned
  answer       \* answer[c]: the execution whose envelope c uses

vars == <<deployed, entries, pc, asked, identity, answer>>

(* An envelope is known by the call and the deployment that produced it. *)
Envelopes == [by : Calls, on : Deployments]
NoEnvelope == [by |-> Absent, on |-> Absent]
Entries == [lookup : Requests, envelope : Envelopes]
NoEntry == [lookup |-> Absent, envelope |-> NoEnvelope]

Says(e) == IdentityOf[<<e.on, Request[e.by]>>]

Init ==
  /\ deployed \in Deployments
  /\ entries = [i \in Identities |-> NoEntry]
  /\ pc = [c \in Calls |-> "start"]
  /\ asked = [c \in Calls |-> Absent]
  /\ identity = [c \in Calls |-> Absent]
  /\ answer = [c \in Calls |-> NoEnvelope]

-----------------------------------------------------------------------------
(* Variant: what the config declares is taken without looking whether it is
   there. *)
PreflightUnchecked(c) ==
  CASE Kind[c] = "declared" -> Declared[c]
    [] Kind[c] = "probed" -> IdentityOf[<<deployed, Request[c]>>]
    [] OTHER -> <<Absent, Absent>>

(* _preflight_cache_identity: a declared identity is taken as it is. *)
Preflight(c) ==
  CASE Kind[c] = "declared" -> Declared[c]
    [] Kind[c] = "probed" -> IdentityOf[<<deployed, Request[c]>>]
    [] OTHER -> Absent

Identify(c) ==
  /\ pc[c] = "start"
  /\ identity' = [identity EXCEPT ![c] = Preflight(c)]
  /\ asked' = [asked EXCEPT ![c] = deployed]
  /\ pc' = [pc EXCEPT ![c] =
       IF c \in NoCache \/ Preflight(c) = Absent THEN "execute" ELSE "read"]
  /\ UNCHANGED <<deployed, entries, answer>>

(* The probe raises, outside the try block. *)
ProbeRaises(c) ==
  /\ pc[c] = "start"
  /\ Kind[c] = "probed"
  /\ pc' = [pc EXCEPT ![c] = "raised"]
  /\ UNCHANGED <<deployed, entries, asked, identity, answer>>

(* Variant: the request is taken to be the same because the key is. *)
UsableByKey(c) ==
  LET entry == entries[identity[c]] IN
  entry # NoEntry /\ Says(entry.envelope) = identity[c]

(* _read_cached: same lookup, same identity in the envelope. *)
Usable(c) ==
  LET entry == entries[identity[c]] IN
  /\ entry # NoEntry
  /\ entry.lookup = Request[c]
  /\ Says(entry.envelope) = identity[c]

Hit(c) ==
  /\ pc[c] = "read"
  /\ Usable(c)
  /\ answer' = [answer EXCEPT ![c] = entries[identity[c]].envelope]
  /\ pc' = [pc EXCEPT ![c] = "hit"]
  /\ UNCHANGED <<deployed, entries, asked, identity>>

(* No such entry, another one, or an OSError that counts as none. *)
Miss(c) ==
  /\ pc[c] = "read"
  /\ pc' = [pc EXCEPT ![c] = "execute"]
  /\ UNCHANGED <<deployed, entries, asked, identity, answer>>

(* executor.run: without a preflight identity nothing will be stored. *)
Execute(c) ==
  /\ pc[c] = "execute"
  /\ answer' = [answer EXCEPT ![c] = [by |-> c, on |-> deployed]]
  /\ pc' = [pc EXCEPT ![c] = IF identity[c] = Absent THEN "miss" ELSE "store"]
  /\ UNCHANGED <<deployed, entries, asked, identity>>

ExecuteFails(c) ==
  /\ pc[c] = "execute"
  /\ pc' = [pc EXCEPT ![c] = "error"]
  /\ UNCHANGED <<deployed, entries, asked, identity, answer>>

(* Variant: the entry goes under the identity of the preflight. *)
PreflightKey(c) == identity[c]
StoreKey(c) == Says(answer[c])

(* write_json_atomic under the envelope's own identity: what was there
   before is replaced. *)
Store(c) ==
  /\ pc[c] = "store"
  /\ entries' = [entries EXCEPT ![StoreKey(c)] =
       [lookup |-> Request[c], envelope |-> answer[c]]]
  /\ pc' = [pc EXCEPT ![c] = "miss"]
  /\ UNCHANGED <<deployed, asked, identity, answer>>

(* Variant: the entry is written in place, and has arrived when the write
   raises. *)
StoreFailsInPlace(c) ==
  /\ pc[c] = "store"
  /\ entries' = [entries EXCEPT ![StoreKey(c)] =
       [lookup |-> Request[c], envelope |-> answer[c]]]
  /\ answer' = [answer EXCEPT ![c] = NoEnvelope]
  /\ pc' = [pc EXCEPT ![c] = "error"]
  /\ UNCHANGED <<deployed, asked, identity>>

(* The write raises inside the try block: the call is an error, whatever
   the provider said. *)
StoreFails(c) ==
  /\ pc[c] = "store"
  /\ answer' = [answer EXCEPT ![c] = NoEnvelope]
  /\ pc' = [pc EXCEPT ![c] = "error"]
  /\ UNCHANGED <<deployed, entries, asked, identity>>

(* The process dies before the call has its outcome. *)
Crash(c) ==
  /\ pc[c] \in {"start", "read", "execute", "store"}
  /\ pc' = [pc EXCEPT ![c] = "crashed"]
  /\ UNCHANGED <<deployed, entries, asked, identity, answer>>

(* Another version of the provider or of its prompt goes live. *)
Deploy(d) ==
  /\ d # deployed
  /\ deployed' = d
  /\ UNCHANGED <<entries, pc, asked, identity, answer>>

RunOne(c) ==
  \/ Identify(c) \/ ProbeRaises(c)
  \/ Hit(c) \/ Miss(c)
  \/ Execute(c) \/ ExecuteFails(c)
  \/ Store(c) \/ StoreFails(c)

Next ==
  \/ \E c \in Calls : RunOne(c) \/ Crash(c)
  \/ \E d \in Deployments : Deploy(d)

Spec == Init /\ [][Next]_vars

-----------------------------------------------------------------------------
PCs == {"start", "read", "execute", "store", "hit", "miss", "error", "raised", "crashed"}

TypeOK ==
  /\ deployed \in Deployments
  /\ entries \in [Identities -> Entries \union {NoEntry}]
  /\ pc \in [Calls -> PCs]
  /\ asked \in [Calls -> Deployments \union {Absent}]
  /\ identity \in [Calls -> Identities \union {Absent}]
  /\ answer \in [Calls -> Envelopes \union {NoEnvelope}]

(* What the envelopes c may use have to say about themselves. *)
Expected(c) ==
  IF Kind[c] = "declared" THEN Declared[c] ELSE IdentityOf[<<asked[c], Request[c]>>]

(* A cached answer was given to the very request of this call, by a
   deployment with the identity the call was told: the one declared, or the
   one that was live when the executor was probed. *)
HitAnswersThisCall ==
  \A c \in Calls : pc[c] = "hit" =>
    /\ Request[answer[c].by] = Request[c]
    /\ IdentityOf[<<answer[c].on, Request[c]>>] = Expected(c)

(* A hit only repeats an answer that its own call has recorded as good: never
   that of a call recorded as a stage error, nor of one that may not store
   anything for want of an identity. *)
OnlyGoodAnswersAreRepeated ==
  \A c \in Calls : pc[c] = "hit" =>
    /\ pc[answer[c].by] = "miss"
    /\ identity[answer[c].by] # Absent

(* An identity's file, once there, always holds an answer that bears this
   identity, whoever replaces it while whoever reads it. *)
KeysKeepTheirMeaning ==
  \A i \in Identities : entries[i] # NoEntry =>
    /\ Says(entries[i].envelope) = i
    /\ entries[i].lookup = Request[entries[i].envelope.by]

-----------------------------------------------------------------------------
(* The inductive invariant. *)

(* The stored answers are those of calls that went through Store. *)
StoredInv ==
  \A i \in Identities : entries[i] # NoEntry =>
    LET by == entries[i].envelope.by IN
    pc[by] = "miss" /\ identity[by] # Absent

(* What a call has in hand at each place. *)
ProgressInv ==
  \A c \in Calls :
    /\ pc[c] = "read" => identity[c] # Absent
    /\ pc[c] = "store" => identity[c] # Absent /\ answer[c] # NoEnvelope /\ answer[c].by = c
    /\ pc[c] \in {"read", "execute", "store", "hit"} =>
         /\ asked[c] \in Deployments
         /\ identity[c] # Absent => identity[c] = Expected(c)

HitInv ==
  \A c \in Calls : pc[c] = "hit" => answer[c] # NoEnvelope

CacheInv ==
  /\ TypeOK
  /\ KeysKeepTheirMeaning
  /\ StoredInv
  /\ ProgressInv
  /\ HitInv
  /\ HitAnswersThisCall
  /\ OnlyGoodAnswersAreRepeated
=============================================================================
