-------------------------- MODULE CallCacheProofs --------------------------
(***************************************************************************)
(* Theorems about CallCache, for every set of calls, deployments and       *)
(* requests and every way of identifying them.                             *)
(***************************************************************************)
EXTENDS CallCache, TLAPS

-----------------------------------------------------------------------------
(* Envelopes and entries. *)

(* What an envelope says about itself is an identity. *)
LEMMA SaysTyped ==
  ASSUME CacheAssumption, NEW e \in Envelopes
  PROVE  Says(e) \in Identities /\ e # NoEnvelope
  BY DEF CacheAssumption, Envelopes, NoEnvelope, Says

(* A file that is there holds a request and an envelope. *)
LEMMA EntryTyped ==
  ASSUME TypeOK, NEW i \in Identities, entries[i] # NoEntry
  PROVE  entries[i].lookup \in Requests /\ entries[i].envelope \in Envelopes
  BY DEF TypeOK, Entries

(* A preflight that returns an identity returns the one hits are held to. *)
LEMMA PreflightTyped ==
  ASSUME CacheAssumption, TypeOK, NEW c \in Calls
  PROVE  /\ Preflight(c) \in Identities \union {Absent}
         /\ Preflight(c) # Absent =>
              Preflight(c) = IF Kind[c] = "declared" THEN Declared[c]
                             ELSE IdentityOf[<<deployed, Request[c]>>]
  BY DEF CacheAssumption, TypeOK, Preflight

-----------------------------------------------------------------------------
(* The invariant is preserved, action by action. *)

LEMMA InitInv == CacheAssumption /\ Init => CacheInv
  BY DEF CacheAssumption, Init, CacheInv, TypeOK, KeysKeepTheirMeaning, StoredInv,
     ProgressInv, HitInv, HitAnswersThisCall, OnlyGoodAnswersAreRepeated, PCs,
     NoEntry, NoEnvelope

(* A call that only moves on, without an answer, disturbs nothing. *)
LEMMA MoveOn ==
  ASSUME CacheInv, NEW c \in Calls, NEW q \in {"execute", "error", "raised", "crashed"},
         pc[c] \notin {"hit", "miss"},
         q = "execute" => pc[c] = "read",
         pc' = [pc EXCEPT ![c] = q],
         UNCHANGED <<deployed, entries, asked, identity, answer>>
  PROVE  CacheInv'
<1>1. TypeOK'
  BY DEF CacheInv, TypeOK, PCs
<1>2. KeysKeepTheirMeaning'
  BY DEF CacheInv, KeysKeepTheirMeaning, Says
<1>3. StoredInv'
  BY EntryTyped DEF CacheInv, TypeOK, StoredInv, Envelopes
<1>4. ProgressInv' /\ HitInv'
  BY DEF CacheInv, TypeOK, ProgressInv, HitInv, Expected
<1>5. HitAnswersThisCall'
  BY DEF CacheInv, TypeOK, HitAnswersThisCall, Expected
<1>6. OnlyGoodAnswersAreRepeated'
  BY DEF CacheInv, TypeOK, OnlyGoodAnswersAreRepeated
<1> QED
  BY <1>1, <1>2, <1>3, <1>4, <1>5, <1>6 DEF CacheInv

LEMMA IdentifyStep ==
  ASSUME CacheAssumption, CacheInv, NEW c \in Calls, Identify(c)
  PROVE  CacheInv'
<1>1. TypeOK'
  BY PreflightTyped DEF CacheInv, TypeOK, PCs, Identify
<1>2. KeysKeepTheirMeaning' /\ HitInv'
  BY DEF CacheInv, TypeOK, KeysKeepTheirMeaning, HitInv, Says, Identify
<1>3. StoredInv'
  BY EntryTyped DEF CacheInv, TypeOK, StoredInv, Envelopes, Identify
<1>4. ProgressInv'
  <2> SUFFICES ASSUME NEW b \in Calls
               PROVE  ProgressInv!(b)'
    BY DEF ProgressInv
  <2>1. CASE b = c
    BY <2>1, PreflightTyped DEF CacheInv, TypeOK, Expected, Identify
  <2>2. CASE b # c
    BY <2>2 DEF CacheInv, TypeOK, ProgressInv, Expected, Identify
  <2> QED
    BY <2>1, <2>2
<1>5. HitAnswersThisCall'
  BY DEF CacheInv, TypeOK, HitAnswersThisCall, Expected, Identify
<1>6. OnlyGoodAnswersAreRepeated'
  BY DEF CacheInv, TypeOK, OnlyGoodAnswersAreRepeated, Identify
<1> QED
  BY <1>1, <1>2, <1>3, <1>4, <1>5, <1>6 DEF CacheInv

(* The answer of a hit is the envelope of an entry for this request that
   bears the identity the preflight returned. *)
LEMMA HitStep ==
  ASSUME CacheAssumption, CacheInv, NEW c \in Calls, Hit(c)
  PROVE  CacheInv'
<1> DEFINE i == identity[c]
           e == entries[i].envelope
<1>1. i \in Identities /\ i = Expected(c) /\ entries[i] # NoEntry /\ entries[i].lookup = Request[c]
  BY DEF CacheInv, TypeOK, ProgressInv, Hit, Usable
<1>2. e \in Envelopes /\ e # NoEnvelope
  BY <1>1, EntryTyped, SaysTyped DEF CacheInv
<1>3. Says(e) = i /\ Request[e.by] = Request[c] /\ pc[e.by] = "miss" /\ identity[e.by] # Absent
  BY <1>1 DEF CacheInv, KeysKeepTheirMeaning, StoredInv
<1>4. answer' = [answer EXCEPT ![c] = e] /\ pc' = [pc EXCEPT ![c] = "hit"]
  BY DEF Hit
<1>5. UNCHANGED <<deployed, entries, asked, identity>> /\ pc[c] = "read"
  BY DEF Hit
<1> HIDE DEF i, e
<1>6. TypeOK'
  BY <1>2, <1>4, <1>5 DEF CacheInv, TypeOK, PCs
<1>7. KeysKeepTheirMeaning'
  BY <1>5 DEF CacheInv, KeysKeepTheirMeaning, Says
<1>8. StoredInv'
  BY <1>4, <1>5, EntryTyped DEF CacheInv, TypeOK, StoredInv, Envelopes
<1>9. ProgressInv' /\ HitInv'
  BY <1>2, <1>4, <1>5 DEF CacheInv, TypeOK, ProgressInv, HitInv, Expected
<1>10. HitAnswersThisCall'
  BY <1>1, <1>3, <1>4, <1>5 DEF CacheInv, TypeOK, HitAnswersThisCall, Expected, Says
<1>11. OnlyGoodAnswersAreRepeated'
  BY <1>2, <1>3, <1>4, <1>5 DEF CacheInv, TypeOK, OnlyGoodAnswersAreRepeated, Envelopes
<1> QED
  BY <1>6, <1>7, <1>8, <1>9, <1>10, <1>11 DEF CacheInv

LEMMA ExecuteStep ==
  ASSUME CacheAssumption, CacheInv, NEW c \in Calls, Execute(c)
  PROVE  CacheInv'
<1> DEFINE e == [by |-> c, on |-> deployed]
<1>1. e \in Envelopes /\ e # NoEnvelope
  BY SaysTyped DEF CacheInv, TypeOK, Envelopes
<1>2. TypeOK'
  BY <1>1 DEF CacheInv, TypeOK, PCs, Execute
<1>3. KeysKeepTheirMeaning'
  BY DEF CacheInv, KeysKeepTheirMeaning, Says, Execute
<1>4. StoredInv'
  BY EntryTyped DEF CacheInv, TypeOK, StoredInv, Envelopes, Execute
<1>5. ProgressInv' /\ HitInv'
  BY <1>1 DEF CacheInv, TypeOK, ProgressInv, HitInv, Expected, Execute
<1>6. HitAnswersThisCall'
  BY DEF CacheInv, TypeOK, HitAnswersThisCall, Expected, Execute
<1>7. OnlyGoodAnswersAreRepeated'
  BY DEF CacheInv, TypeOK, OnlyGoodAnswersAreRepeated, Execute
<1> QED
  BY <1>2, <1>3, <1>4, <1>5, <1>6, <1>7 DEF CacheInv

(* The file that is replaced gets an answer that bears the identity in its
   key. *)
LEMMA StoreStep ==
  ASSUME CacheAssumption, CacheInv, NEW c \in Calls, Store(c)
  PROVE  CacheInv'
<1> DEFINE e == answer[c]
           k == Says(e)
           new == [lookup |-> Request[c], envelope |-> e]
<1>1. pc[c] = "store" /\ e \in Envelopes /\ e.by = c /\ identity[c] # Absent
  BY DEF CacheInv, TypeOK, ProgressInv, Store
<1>2. k \in Identities /\ e # NoEnvelope
  BY <1>1, SaysTyped
<1>3. new \in Entries /\ new # NoEntry /\ new.lookup = Request[c] /\ new.envelope = e
  BY <1>1, <1>2 DEF CacheAssumption, Entries, NoEntry
<1>4. entries' = [entries EXCEPT ![k] = new] /\ pc' = [pc EXCEPT ![c] = "miss"]
  BY DEF Store, StoreKey
<1>5. UNCHANGED <<deployed, asked, identity, answer>>
  BY DEF Store
<1>6. k = Says(e)
  OBVIOUS
<1> HIDE DEF e, k, new
<1>7. TypeOK'
  BY <1>3, <1>4, <1>5 DEF CacheInv, TypeOK, PCs
<1>8. \A i \in Identities : entries'[i] = IF i = k THEN new ELSE entries[i]
  BY <1>4 DEF CacheInv, TypeOK
<1>9. KeysKeepTheirMeaning'
  <2> SUFFICES ASSUME NEW i \in Identities, entries'[i] # NoEntry
               PROVE  /\ Says(entries'[i].envelope) = i
                      /\ entries'[i].lookup = Request[entries'[i].envelope.by]
    BY DEF KeysKeepTheirMeaning, Says
  <2>1. CASE i = k
    BY <2>1, <1>1, <1>3, <1>6, <1>8
  <2>2. CASE i # k
    BY <2>2, <1>8 DEF CacheInv, KeysKeepTheirMeaning
  <2> QED
    BY <2>1, <2>2
<1>10. StoredInv'
  <2> SUFFICES ASSUME NEW i \in Identities, entries'[i] # NoEntry
               PROVE  /\ pc'[entries'[i].envelope.by] = "miss"
                      /\ identity'[entries'[i].envelope.by] # Absent
    BY DEF StoredInv
  <2>1. CASE i = k
    BY <2>1, <1>1, <1>3, <1>4, <1>5, <1>8 DEF CacheInv, TypeOK
  <2>2. CASE i # k
    BY <2>2, <1>4, <1>5, <1>8, EntryTyped DEF CacheInv, TypeOK, StoredInv, Envelopes
  <2> QED
    BY <2>1, <2>2
<1>11. ProgressInv' /\ HitInv'
  BY <1>4, <1>5 DEF CacheInv, TypeOK, ProgressInv, HitInv, Expected
<1>12. HitAnswersThisCall'
  BY <1>4, <1>5 DEF CacheInv, TypeOK, HitAnswersThisCall, Expected
<1>13. OnlyGoodAnswersAreRepeated'
  BY <1>1, <1>4, <1>5 DEF CacheInv, TypeOK, OnlyGoodAnswersAreRepeated
<1> QED
  BY <1>7, <1>9, <1>10, <1>11, <1>12, <1>13 DEF CacheInv

LEMMA StoreFailsStep ==
  ASSUME CacheInv, NEW c \in Calls, StoreFails(c)
  PROVE  CacheInv'
<1>1. TypeOK'
  BY DEF CacheInv, TypeOK, PCs, StoreFails
<1>2. KeysKeepTheirMeaning'
  BY DEF CacheInv, KeysKeepTheirMeaning, Says, StoreFails
<1>3. StoredInv'
  BY EntryTyped DEF CacheInv, TypeOK, StoredInv, Envelopes, StoreFails
<1>4. ProgressInv' /\ HitInv'
  BY DEF CacheInv, TypeOK, ProgressInv, HitInv, Expected, StoreFails
<1>5. HitAnswersThisCall'
  BY DEF CacheInv, TypeOK, HitAnswersThisCall, Expected, StoreFails
<1>6. OnlyGoodAnswersAreRepeated'
  BY DEF CacheInv, TypeOK, OnlyGoodAnswersAreRepeated, StoreFails
<1> QED
  BY <1>1, <1>2, <1>3, <1>4, <1>5, <1>6 DEF CacheInv

(* A deployment changes no answer that was given, and no identity that was
   asked for. *)
LEMMA DeployStep ==
  ASSUME CacheInv, NEW d \in Deployments, Deploy(d)
  PROVE  CacheInv'
  BY DEF CacheInv, TypeOK, KeysKeepTheirMeaning, StoredInv, ProgressInv, HitInv,
     HitAnswersThisCall, OnlyGoodAnswersAreRepeated, Says, Expected, Deploy

LEMMA NextStep == CacheAssumption /\ CacheInv /\ [Next]_vars => CacheInv'
<1> SUFFICES ASSUME CacheAssumption, CacheInv, [Next]_vars
             PROVE  CacheInv'
  OBVIOUS
<1>1. CASE UNCHANGED vars
  BY <1>1 DEF vars, CacheInv, TypeOK, KeysKeepTheirMeaning, StoredInv, ProgressInv, HitInv,
     HitAnswersThisCall, OnlyGoodAnswersAreRepeated, Says, Expected
<1>2. ASSUME NEW c \in Calls, RunOne(c) \/ Crash(c)
      PROVE  CacheInv'
  <2>1. CASE ProbeRaises(c) \/ Miss(c) \/ ExecuteFails(c) \/ Crash(c)
    BY <2>1, MoveOn DEF ProbeRaises, Miss, ExecuteFails, Crash
  <2>2. CASE Identify(c)
    BY <2>2, IdentifyStep
  <2>3. CASE Hit(c)
    BY <2>3, HitStep
  <2>4. CASE Execute(c)
    BY <2>4, ExecuteStep
  <2>5. CASE Store(c)
    BY <2>5, StoreStep
  <2>6. CASE StoreFails(c)
    BY <2>6, StoreFailsStep
  <2> QED
    BY <1>2, <2>1, <2>2, <2>3, <2>4, <2>5, <2>6 DEF RunOne
<1> QED
  BY <1>1, <1>2, DeployStep DEF Next

-----------------------------------------------------------------------------
(* The theorems. *)

(* The inductive invariant holds in every reachable state. *)
THEOREM Invariance == Spec => []CacheInv
<1>1. Init => CacheInv
  BY InitInv, CacheAssumption
<1>2. CacheInv /\ [Next]_vars => CacheInv'
  BY NextStep, CacheAssumption
<1> QED
  BY <1>1, <1>2, PTL DEF Spec

(* Every variable stays in its type. *)
THEOREM TypeCorrect == Spec => []TypeOK
<1>1. CacheInv => TypeOK
  BY DEF CacheInv
<1> QED
  BY <1>1, Invariance, PTL

(* Whatever is deployed while calls of any number of runs read and store: a
   hit was an answer to this request by the identity the call was told. *)
THEOREM HitTheorem == Spec => []HitAnswersThisCall
<1>1. CacheInv => HitAnswersThisCall
  BY DEF CacheInv
<1> QED
  BY <1>1, Invariance, PTL

(* A hit repeats an answer that its call recorded as good. *)
THEOREM ReuseTheorem == Spec => []OnlyGoodAnswersAreRepeated
<1>1. CacheInv => OnlyGoodAnswersAreRepeated
  BY DEF CacheInv
<1> QED
  BY <1>1, Invariance, PTL

(* A file of the cache bears the identity in its key. *)
THEOREM KeyTheorem == Spec => []KeysKeepTheirMeaning
<1>1. CacheInv => KeysKeepTheirMeaning
  BY DEF CacheInv
<1> QED
  BY <1>1, Invariance, PTL
=============================================================================
