---------------------------- MODULE TriageProofs ----------------------------
(***************************************************************************)
(* Proofs about Triage and WeeklyTriage, for every set of keys, every      *)
(* report and any number of deltas, scrubs and weekly runs.                *)
(*                                                                         *)
(* The deltas' promise rests on what a delta SAYS: the keys it has shown   *)
(* in the inbox and those it is going to show, its rows being written.     *)
(* What is said only grows from there, is in the store unless the write    *)
(* was disturbed, and is in the seen keys of each delta that starts later. *)
(*                                                                         *)
(* The lanes' promise rests on where the banners stand in the log of a     *)
(* day: behind the mark of their round and before those of the run's later *)
(* rounds, so that the first one behind a mark is of that round or of      *)
(* another run of the day.                                                 *)
(***************************************************************************)
EXTENDS WeeklyTriage, FiniteSetTheorems, WellFoundedInduction, TLAPS

(* The store, the inbox and the deltas. *)

Rows == [key : Keys, by : Deltas, excluded : {"no", "sandbox-corpus", "lineage-dupe"}]
Sections == [by : Deltas, day : 0..MaxDay, on : 0..MaxDay, keys : SUBSET Keys, torn : BOOLEAN,
             headed : BOOLEAN]
Endings == {"line", "row", "part"}
DeltaStates ==
  [pc : {"off", "report", "store", "inbox", "done", "dead"}, today : 0..MaxDay, seen : SUBSET Keys,
   new : Seq(Keys), gen : Nat, raced : BOOLEAN, after : SUBSET Deltas]

TriageType ==
  /\ plan \in Plans /\ day \in 0..MaxDay
  /\ store \in Seq(Rows) /\ broken \in BOOLEAN /\ gen \in Nat
  /\ ends \in Endings /\ (ends = "row" => store # <<>>)
  /\ inbox \in Seq(Sections)
  /\ deltas \in [Deltas -> DeltaStates]
  /\ scrub \in [running : BOOLEAN, rows : Seq(Rows)] /\ scrubs \in Nat

(* What delta d has shown, and is about to show once its rows are written. *)
Says(d) ==
  {k \in Keys : \/ deltas[d].pc = "inbox" /\ k \in Range(deltas[d].new)
                \/ \E s \in Range(inbox) : s.by = d /\ k \in s.keys}

(* Its rows are written, or it never will write them. *)
Settled(d) == deltas[d].pc \in {"inbox", "done", "dead"}

(* A delta says nothing before that. *)
SilentBefore == \A d \in Deltas : ~Settled(d) => Says(d) = {}

(* What is in the store, or in a scrub's copy, was said by its delta, unless
   that was cut off. *)
RowSaid(r) == deltas[r.by].pc = "dead" \/ r.key \in Says(r.by)
RowsSaid == \A r \in Range(store) \union Range(scrub.rows) : RowSaid(r)

(* A last row that lacks its newline, which the next write spoils, is that of a
   delta that died as it wrote and says nothing. *)
Unended ==
  ends = "row" =>
    deltas[Last(store).by].pc = "dead" /\ Says(Last(store).by) = {}

(* What was said is in the store, and in the copy a scrub has made of it, among
   the delta's own rows, unless the delta's write was disturbed. *)
Own(d, rows) == {k \in Keys : \E r \in Range(rows) : r.by = d /\ r.key = k}
SaidKept ==
  \A d \in Deltas : ~deltas[d].raced =>
    /\ Says(d) \subseteq Own(d, store)
    /\ scrub.running => Says(d) \subseteq Own(d, scrub.rows)

(* A delta that read the store after another had settled has that one's keys
   among those it has seen, and takes none of them for new: the two never say
   the same. *)
SaidOnce ==
  \A e \in Deltas : \A d \in deltas[e].after :
    /\ d # e /\ Settled(d)
    /\ ~deltas[d].raced =>
         /\ deltas[e].pc = "report" => Says(d) \subseteq deltas[e].seen
         /\ deltas[e].pc = "store" => Says(d) \cap Range(deltas[e].new) = {}
         /\ Says(d) \cap Says(e) = {}

-----------------------------------------------------------------------------
(* Every set of numbers that has an element has a least one: what the inductions
   below rest on. *)
LEMMA NatOrder == \E R : IsWellFoundedOn(R, Nat) /\ \A x, y \in Nat : <<y, x>> \in R <=> y < x
<1>1. IsWellFoundedOn(OpToRel(<, Nat), Nat) BY NatLessThanWellFounded
<1>2. \A x, y \in Nat : <<y, x>> \in OpToRel(<, Nat) <=> y < x BY DEF OpToRel
<1> QED BY <1>1, <1>2, Zenon

(* Such a set has a least element. *)
LEMMA Least == ASSUME NEW T, T \subseteq Nat, T # {} PROVE \E m \in T : \A k \in T : m <= k
<1>1. PICK R : IsWellFoundedOn(R, Nat) /\ \A x, y \in Nat : <<y, x>> \in R <=> y < x BY NatOrder
<1>2. PICK x \in T : \A y \in T : ~(<<y, x>> \in R) BY <1>1, WFMin
<1>3. ASSUME NEW k \in T PROVE x <= k
  <2>1. x \in Nat /\ k \in Nat OBVIOUS
  <2>2. ~(<<k, x>> \in R) BY <1>2
  <2> QED BY <1>1, <2>1, <2>2
<1> QED BY <1>3

(* What holds of 0 and passes on to the next number holds up to N. *)
LEMMA Induct ==
  ASSUME NEW N \in Nat, NEW H, 0 \in H, \A n \in 1..N : n - 1 \in H => n \in H
  PROVE  0..N \subseteq H
<1> SUFFICES ASSUME NEW k \in 0..N, k \notin H PROVE FALSE OBVIOUS
<1> DEFINE T == {n \in 0..N : n \notin H}
<1>1. T \subseteq Nat /\ T # {} OBVIOUS
<1>2. PICK m \in T : \A n \in T : m <= n
  <2> HIDE DEF T
  <2> QED BY <1>1, Least
<1>3. m \in 1..N /\ m \notin H OBVIOUS
<1>4. m - 1 \in H BY <1>2, <1>3
<1> QED BY <1>3, <1>4

(* f starts at base, and st leads from each value to the next. *)
Recursive(f, N, base, st) == f[0] = base /\ \A i \in 1..N : f[i] = st[<<i, f[i - 1]>>]

(* A function may be defined by recursion over 0..N. *)
LEMMA Recursion ==
  ASSUME NEW N \in Nat, NEW V, NEW base \in V, NEW st \in [(1..N) \X V -> V]
  PROVE  \E f \in [0..N -> V] : Recursive(f, N, base, st)
<1> USE DEF Recursive
<1> DEFINE Fits(f, n) == f[0] = base /\ \A i \in 1..n : f[i] = st[<<i, f[i - 1]>>]
           H == {n \in 0..N : \E f \in [0..n -> V] : Fits(f, n)}
<1>1. 0 \in H
  <2>1. [i \in 0..0 |-> base] \in [0..0 -> V] /\ Fits([i \in 0..0 |-> base], 0) OBVIOUS
  <2>2. 0 \in 0..N OBVIOUS
  <2>3. \E f \in [0..0 -> V] : Fits(f, 0) BY <2>1
  <2> QED BY <2>2, <2>3
<1>2. ASSUME NEW n \in 1..N, n - 1 \in H PROVE n \in H
  <2>1. PICK f \in [0..(n - 1) -> V] : Fits(f, n - 1) BY <1>2
  <2> DEFINE g == [i \in 0..n |-> IF i = n THEN st[<<n, f[n - 1]>>] ELSE f[i]]
  <2>2. f[n - 1] \in V /\ <<n, f[n - 1]>> \in (1..N) \X V OBVIOUS
  <2>3. st[<<n, f[n - 1]>>] \in V BY <2>2
  <2>4. g \in [0..n -> V] BY <2>3
  <2>5. g[0] = base BY <2>1
  <2>6. \A i \in 1..n : g[i] = st[<<i, g[i - 1]>>]
    <3> SUFFICES ASSUME NEW i \in 1..n PROVE g[i] = st[<<i, g[i - 1]>>] OBVIOUS
    <3>1. g[i - 1] = f[i - 1] OBVIOUS
    <3>2. CASE i = n
      <4>1. g[n] = st[<<n, f[n - 1]>>] OBVIOUS
      <4> QED BY <3>1, <3>2, <4>1
    <3>3. CASE i # n
      <4>1. i \in 1..(n - 1) /\ g[i] = f[i] BY <3>3
      <4> QED BY <2>1, <3>1, <4>1
    <3> QED BY <3>2, <3>3
  <2>7. n \in 0..N OBVIOUS
  <2> QED BY <2>4, <2>5, <2>6, <2>7
<1>3. 0..N \subseteq H
  <2> HIDE DEF H
  <2> QED BY <1>1, <1>2, Induct
<1> QED BY <1>3

(* What of a report is new: its rows that have not been seen, and no others. *)
LEMMA NewRows ==
  ASSUME NEW K, NEW report \in Seq(K), NEW seen
  PROVE  /\ New(seen, report) \in Seq(K)
         /\ Range(New(seen, report)) \cap seen = {}
<1> DEFINE N == Len(report)
           st == [p \in (1..N) \X Seq(K) |->
                    IF report[p[1]] \in seen THEN p[2] ELSE Append(p[2], report[p[1]])]
           Eq(g) == g = [n \in 0..N |->
                           IF n = 0 THEN <<>>
                           ELSE IF report[n] \in seen THEN g[n - 1] ELSE Append(g[n - 1], report[n])]
           f == CHOOSE h : Eq(h)
<1>1. N \in Nat /\ <<>> \in Seq(K) /\ \A n \in 1..N : report[n] \in K OBVIOUS
<1>2. \A S : \A s \in Seq(S), e \in S : Append(s, e) \in Seq(S) OBVIOUS
<1>3. st \in [(1..N) \X Seq(K) -> Seq(K)] BY <1>1, <1>2
<1>4. \E h : Eq(h)
  <2>1. PICK g \in [0..N -> Seq(K)] : g[0] = <<>> /\ \A i \in 1..N : g[i] = st[<<i, g[i - 1]>>]
    <3> DEFINE V == Seq(K) base == <<>>
    <3>1. N \in Nat /\ base \in V /\ st \in [(1..N) \X V -> V] BY <1>1, <1>3
    <3> HIDE DEF N, st, V, base
    <3>2. \E g \in [0..N -> V] : Recursive(g, N, base, st) BY <3>1, Recursion
    <3> QED BY <3>2 DEF Recursive, V, base
  <2>2. \A i \in 1..N : g[i] = IF report[i] \in seen THEN g[i - 1] ELSE Append(g[i - 1], report[i])
    <3> SUFFICES ASSUME NEW i \in 1..N
                 PROVE  g[i] = IF report[i] \in seen THEN g[i - 1] ELSE Append(g[i - 1], report[i])
      OBVIOUS
    <3>1. g[i - 1] \in Seq(K) BY <1>1
    <3>2. <<i, g[i - 1]>> \in (1..N) \X Seq(K) BY <3>1
    <3>3. g[i] = st[<<i, g[i - 1]>>] BY <2>1
    <3> QED BY <3>2, <3>3
  <2>3. \A n \in 0..N : g[n] = IF n = 0 THEN <<>>
                               ELSE IF report[n] \in seen THEN g[n - 1] ELSE Append(g[n - 1], report[n])
    <3> SUFFICES ASSUME NEW n \in 0..N
                 PROVE  g[n] = IF n = 0 THEN <<>>
                               ELSE IF report[n] \in seen THEN g[n - 1] ELSE Append(g[n - 1], report[n])
      OBVIOUS
    <3>1. CASE n = 0 BY <2>1, <3>1
    <3>2. CASE n # 0
      <4>1. n \in 1..N BY <1>1, <3>2
      <4> QED BY <2>2, <3>2, <4>1
    <3> QED BY <3>1, <3>2
  <2>4. Eq(g) BY <2>1, <2>3
  <2> QED BY <2>4
<1>5. Eq(f) BY <1>4
<1>6. \A n \in 0..N : f[n] = IF n = 0 THEN <<>>
                              ELSE IF report[n] \in seen THEN f[n - 1] ELSE Append(f[n - 1], report[n])
  <2> HIDE DEF f
  <2> QED BY <1>5
<1>7. New(seen, report) = f[N] BY DEF New
<1> HIDE DEF f, N, st
<1> DEFINE H == {n \in 0..N : f[n] \in Seq(K) /\ Range(f[n]) \cap seen = {}}
<1>8. 0 \in H
  <2>1. 0 \in 0..N /\ f[0] = <<>> BY <1>1, <1>6
  <2>2. Range(<<>>) = {} BY DEF Range
  <2>3. f[0] \in Seq(K) /\ Range(f[0]) \cap seen = {} BY <1>1, <2>1, <2>2
  <2> QED BY <2>1, <2>3
<1>9. ASSUME NEW n \in 1..N, n - 1 \in H PROVE n \in H
  <2>1. f[n - 1] \in Seq(K) /\ Range(f[n - 1]) \cap seen = {} /\ n \in 0..N BY <1>1, <1>9
  <2>2. f[n] = IF report[n] \in seen THEN f[n - 1] ELSE Append(f[n - 1], report[n])
    <3>1. n \in 0..N /\ n # 0 BY <1>1
    <3> QED BY <1>6, <3>1
  <2>3. CASE report[n] \in seen BY <2>1, <2>2, <2>3
  <2>4. CASE report[n] \notin seen
    <3>1. f[n] = Append(f[n - 1], report[n]) BY <2>2, <2>4
    <3>2. \A S : \A s \in Seq(S), e \in S : Range(Append(s, e)) = Range(s) \union {e}
      <4> SUFFICES ASSUME NEW S, NEW s \in Seq(S), NEW e \in S
                   PROVE  Range(Append(s, e)) = Range(s) \union {e}
        OBVIOUS
      <4>1. DOMAIN Append(s, e) = 1..(Len(s) + 1) /\ Append(s, e)[Len(s) + 1] = e OBVIOUS
      <4>2. \A k \in 1..Len(s) : Append(s, e)[k] = s[k] OBVIOUS
      <4>3. DOMAIN s = 1..Len(s) /\ Len(s) \in Nat OBVIOUS
      <4>4. 1..(Len(s) + 1) = (1..Len(s)) \union {Len(s) + 1} BY <4>3
      <4> QED BY <4>1, <4>2, <4>3, <4>4 DEF Range
    <3>3. f[n] \in Seq(K) BY <1>1, <1>2, <2>1, <3>1
    <3>4. Range(f[n]) = Range(f[n - 1]) \union {report[n]} BY <1>1, <2>1, <3>1, <3>2
    <3> QED BY <2>1, <2>4, <3>3, <3>4
  <2> QED BY <2>3, <2>4
<1>10. N \in H
  <2> HIDE DEF H
  <2>1. 0..N \subseteq H BY <1>1, <1>8, <1>9, Induct
  <2> QED BY <1>1, <2>1
<1> QED BY <1>7, <1>10

-----------------------------------------------------------------------------
(* Facts about the sequences the store and the inbox are. *)
LEMMA AppendFacts ==
  ASSUME NEW S, NEW s \in Seq(S), NEW e \in S
  PROVE  /\ Append(s, e) \in Seq(S) /\ Range(Append(s, e)) = Range(s) \union {e}
         /\ Len(Append(s, e)) = Len(s) + 1 /\ Append(s, e)[Len(s) + 1] = e
         /\ \A n \in 1..Len(s) : Append(s, e)[n] = s[n]
<1>1. DOMAIN Append(s, e) = 1..(Len(s) + 1) /\ Append(s, e)[Len(s) + 1] = e OBVIOUS
<1>2. \A k \in 1..Len(s) : Append(s, e)[k] = s[k] OBVIOUS
<1>3. DOMAIN s = 1..Len(s) /\ Len(s) \in Nat OBVIOUS
<1>4. 1..(Len(s) + 1) = (1..Len(s)) \union {Len(s) + 1} BY <1>3
<1>5. Range(Append(s, e)) = Range(s) \union {e} BY <1>1, <1>2, <1>3, <1>4 DEF Range
<1> QED BY <1>1, <1>2, <1>5

(* Joining two sequences. *)
LEMMA ConcatFacts ==
  ASSUME NEW S, NEW s \in Seq(S), NEW u \in Seq(S)
  PROVE  /\ s \o u \in Seq(S)
         /\ Range(s \o u) = Range(s) \union Range(u)
<1>1. /\ s \o u \in Seq(S) /\ DOMAIN (s \o u) = 1..(Len(s) + Len(u))
      /\ DOMAIN s = 1..Len(s) /\ DOMAIN u = 1..Len(u) /\ Len(s) \in Nat /\ Len(u) \in Nat
  OBVIOUS
<1>2. \A n \in 1..Len(s) : (s \o u)[n] = s[n] /\ n \in 1..(Len(s) + Len(u)) OBVIOUS
<1>3. \A n \in 1..Len(u) : (s \o u)[Len(s) + n] = u[n] /\ Len(s) + n \in 1..(Len(s) + Len(u)) OBVIOUS
<1>4. \A n \in 1..(Len(s) + Len(u)) : n \in 1..Len(s) \/ \E k \in 1..Len(u) : n = Len(s) + k
  <2> SUFFICES ASSUME NEW n \in 1..(Len(s) + Len(u)), n \notin 1..Len(s)
               PROVE  \E k \in 1..Len(u) : n = Len(s) + k
    OBVIOUS
  <2>1. n - Len(s) \in 1..Len(u) /\ n = Len(s) + (n - Len(s)) BY <1>1
  <2> QED BY <2>1
<1>5. Range(s \o u) \subseteq Range(s) \union Range(u)
  <2> SUFFICES ASSUME NEW n \in 1..(Len(s) + Len(u)) PROVE (s \o u)[n] \in Range(s) \union Range(u)
    BY <1>1 DEF Range
  <2>1. CASE n \in 1..Len(s) BY <1>1, <1>2, <2>1 DEF Range
  <2>2. CASE n \notin 1..Len(s)
    <3>1. PICK k \in 1..Len(u) : n = Len(s) + k BY <1>4, <2>2
    <3> QED BY <1>1, <1>3, <3>1 DEF Range
  <2> QED BY <2>1, <2>2
<1>6. Range(s) \subseteq Range(s \o u)
  <2> SUFFICES ASSUME NEW n \in 1..Len(s) PROVE s[n] \in Range(s \o u) BY <1>1 DEF Range
  <2> QED BY <1>1, <1>2 DEF Range
<1>7. Range(u) \subseteq Range(s \o u)
  <2> SUFFICES ASSUME NEW n \in 1..Len(u) PROVE u[n] \in Range(s \o u) BY <1>1 DEF Range
  <2> QED BY <1>1, <1>3 DEF Range
<1> QED BY <1>1, <1>5, <1>6, <1>7

(* Dropping the first element. *)
LEMMA TailFacts ==
  ASSUME NEW S, NEW s \in Seq(S), s # <<>>
  PROVE  Tail(s) \in Seq(S) /\ Range(Tail(s)) \subseteq Range(s)
<1>1. \A n \in DOMAIN Tail(s) : n + 1 \in DOMAIN s /\ Tail(s)[n] = s[n + 1] OBVIOUS
<1> QED BY <1>1 DEF Range

(* The first n elements. *)
LEMMA PrefixFacts ==
  ASSUME NEW S, NEW s \in Seq(S), NEW n \in 0..Len(s)
  PROVE  SubSeq(s, 1, n) \in Seq(S) /\ Range(SubSeq(s, 1, n)) \subseteq Range(s)
<1>1. Len(s) \in Nat /\ n \in Nat /\ n <= Len(s) OBVIOUS
<1>2. SubSeq(s, 1, n) \in Seq(S)
  <2>1. \A k \in 1..n : s[k] \in S BY <1>1
  <2> QED BY <1>1, <2>1
<1>3. DOMAIN SubSeq(s, 1, n) = 1..n /\ \A k \in 1..n : SubSeq(s, 1, n)[k] = s[k] BY <1>1
<1>4. \A k \in 1..n : k \in DOMAIN s BY <1>1
<1> QED BY <1>2, <1>3, <1>4 DEF Range

(* All but the last element. *)
LEMMA FrontFacts ==
  ASSUME NEW S, NEW s \in Seq(S), s # <<>>
  PROVE  /\ Front(s) \in Seq(S) /\ Range(Front(s)) \subseteq Range(s)
         /\ \A r \in Range(s) : r \in Range(Front(s)) \/ r = Last(s)
         /\ Last(s) \in Range(s)
<1>1. Len(s) \in Nat \ {0} /\ DOMAIN s = 1..Len(s) OBVIOUS
<1>2. Len(s) - 1 \in 0..Len(s) BY <1>1
<1>3. Front(s) \in Seq(S) /\ Range(Front(s)) \subseteq Range(s) BY <1>2, PrefixFacts DEF Front
<1>4. /\ DOMAIN Front(s) = 1..(Len(s) - 1)
      /\ \A k \in 1..(Len(s) - 1) : Front(s)[k] = s[k]
  BY <1>1 DEF Front
<1>5. \A k \in 1..Len(s) : k \in 1..(Len(s) - 1) \/ k = Len(s)
  <2>1. \A n \in Nat \ {0} : \A k \in 1..n : k \in 1..(n - 1) \/ k = n OBVIOUS
  <2> QED BY <1>1, <2>1
<1>6. \A r \in Range(s) : r \in Range(Front(s)) \/ r = Last(s) BY <1>1, <1>4, <1>5 DEF Range, Last
<1>7. Last(s) \in Range(s) BY <1>1 DEF Range, Last
<1> QED BY <1>3, <1>6, <1>7

(* The last element of two sequences that are joined. *)
LEMMA LastOfBoth ==
  ASSUME NEW S, NEW s \in Seq(S), NEW u \in Seq(S), u # <<>>
  PROVE  s \o u # <<>> /\ Last(s \o u) = Last(u)
<1>1. Len(u) \in 1..Len(u) /\ Len(s \o u) = Len(s) + Len(u) /\ Len(s) \in Nat /\ Len(u) \in Nat \ {0}
  OBVIOUS
<1>2. (s \o u)[Len(s) + Len(u)] = u[Len(u)] BY <1>1
<1> QED BY <1>1, <1>2 DEF Last

(* The rows a delta makes of its keys. *)
LEMMA RowsFacts ==
  ASSUME NEW d \in Deltas, NEW keys \in Seq(Keys)
  PROVE  /\ RowsOf(d, keys) \in Seq(Rows)
         /\ \A r \in Range(RowsOf(d, keys)) : r \in Rows /\ r.by = d /\ r.key \in Range(keys)
         /\ Range(keys) \subseteq {r.key : r \in Range(RowsOf(d, keys))}
<1> DEFINE rows == RowsOf(d, keys)
<1>1. DOMAIN keys = 1..Len(keys) /\ Len(keys) \in Nat /\ \A n \in DOMAIN keys : keys[n] \in Keys
  OBVIOUS
<1>2. /\ DOMAIN rows = 1..Len(keys)
      /\ \A n \in 1..Len(keys) : rows[n] = [key |-> keys[n], by |-> d, excluded |-> "no"]
  BY <1>1 DEF RowsOf
<1>3. \A n \in 1..Len(keys) : rows[n] \in Rows /\ rows[n].by = d /\ rows[n].key = keys[n]
  BY <1>1, <1>2 DEF Rows
<1>4. rows \in Seq(Rows)
  <2>1. rows \in [1..Len(keys) -> Rows] BY <1>1, <1>2, <1>3 DEF RowsOf
  <2> QED BY <1>1, <2>1
<1> HIDE DEF rows
<1>5. \A r \in Range(rows) : r \in Rows /\ r.by = d /\ r.key \in Range(keys)
  BY <1>1, <1>2, <1>3 DEF Range
<1>6. Range(keys) \subseteq {r.key : r \in Range(rows)}
  <2> SUFFICES ASSUME NEW n \in 1..Len(keys) PROVE keys[n] \in {r.key : r \in Range(rows)}
    BY <1>1 DEF Range
  <2>1. rows[n] \in Range(rows) BY <1>2 DEF Range
  <2> QED BY <1>3, <2>1
<1> QED BY <1>4, <1>5, <1>6 DEF rows

(* Where a row stands does not matter for the keys. *)
LEMMA KeysAreOfRange == \A rows : KeysOf(rows) = {r.key : r \in Range(rows)}
BY DEF KeysOf, Range

(* A scrub marks rows; it moves, adds and drops none. *)
LEMMA ScrubFacts ==
  ASSUME TriageAssumption, NEW rows \in Seq(Rows), NEW forks \in SUBSET DOMAIN Parent
  PROVE  /\ Scrubbed(rows, forks) \in Seq(Rows)
         /\ DOMAIN Scrubbed(rows, forks) = DOMAIN rows
         /\ \A n \in DOMAIN rows : /\ Scrubbed(rows, forks)[n].key = rows[n].key
                                   /\ Scrubbed(rows, forks)[n].by = rows[n].by
         /\ KeysOf(Scrubbed(rows, forks)) = KeysOf(rows)
<1> DEFINE new == Scrubbed(rows, forks)
<1>1. \A r \in Rows : /\ Mark(r, rows, forks) \in Rows
                      /\ Mark(r, rows, forks).key = r.key /\ Mark(r, rows, forks).by = r.by
  BY DEF Mark, Rows
<1>2. DOMAIN rows = 1..Len(rows) /\ Len(rows) \in Nat /\ \A n \in DOMAIN rows : rows[n] \in Rows
  OBVIOUS
<1>3. DOMAIN new = DOMAIN rows /\ \A n \in DOMAIN rows : new[n] = Mark(rows[n], rows, forks)
  BY DEF Scrubbed
<1>4. new \in Seq(Rows)
  <2>1. new \in [1..Len(rows) -> Rows] BY <1>1, <1>2, <1>3 DEF Scrubbed
  <2> QED BY <1>2, <2>1
<1> HIDE DEF new
<1>5. \A n \in DOMAIN rows : new[n].key = rows[n].key /\ new[n].by = rows[n].by
  BY <1>1, <1>2, <1>3
<1>6. KeysOf(new) = KeysOf(rows) BY <1>3, <1>5 DEF KeysOf
<1> QED BY <1>3, <1>4, <1>5, <1>6 DEF new

-----------------------------------------------------------------------------
(* The deltas and the scrub. *)

TriageInv == TriageType /\ SilentBefore /\ RowsSaid /\ Unended /\ SaidKept /\ SaidOnce

(* The changes of a delta's state that the steps make. *)
LEMMA DeltaChanges ==
  ASSUME NEW x \in DeltaStates, NEW p \in {"off", "report", "store", "inbox", "done", "dead"}
  PROVE  /\ \A today \in 0..MaxDay, seen \in SUBSET Keys, after \in SUBSET Deltas :
              [x EXCEPT !.pc = p, !.today = today, !.seen = seen, !.after = after] \in DeltaStates
         /\ \A new \in Seq(Keys), g \in Nat :
              [x EXCEPT !.pc = p, !.seen = {}, !.new = new, !.gen = g] \in DeltaStates
         /\ [x EXCEPT !.pc = p, !.gen = 0] \in DeltaStates
BY DEF DeltaStates

(* Where a delta stands when it is over. *)
LEMMA OverFacts ==
  ASSUME TriageType, NEW d \in Deltas, NEW p \in {"done", "dead"}
  PROVE  /\ Over(d, p) \in DeltaStates /\ Over(d, p).pc = p /\ Over(d, p).new = <<>>
         /\ Over(d, p).raced = deltas[d].raced /\ Over(d, p).after = deltas[d].after
         /\ Over(d, p).today = deltas[d].today
<1>1. deltas[d] \in DeltaStates /\ <<>> \in Seq(Keys) BY DEF TriageType
<1>2. Over(d, p) \in DeltaStates
  <2>1. \A new \in Seq(Keys) :
          [deltas[d] EXCEPT !.pc = p, !.seen = {}, !.new = new, !.gen = 0] \in DeltaStates
    <3>1. deltas[d] \in DeltaStates BY <1>1
    <3>2. 0 \in Nat OBVIOUS
    <3>3. p \in {"off", "report", "store", "inbox", "done", "dead"} OBVIOUS
    <3> QED BY <3>1, <3>2, <3>3, DeltaChanges
  <2> QED BY <1>1, <2>1 DEF Over
<1> QED BY <1>1, <1>2 DEF Over, DeltaStates

(* What a write to the store does: the rows it adds are some of the delta's, and
   all that can go is a last row without its newline. *)
LEMMA PutFacts ==
  ASSUME TriageAssumption, TriageType, NEW d \in Deltas, NEW keys \in Seq(Keys), NEW last \in Endings,
         NEW then \in DeltaStates, Put(d, RowsOf(d, keys), last, then)
  PROVE  /\ store' \in Seq(Rows) /\ broken' \in BOOLEAN /\ ends' \in Endings
         /\ \A r \in Range(store) : r \in Range(store') \/ (ends = "row" /\ r = Last(store))
         /\ \A r \in Range(store') : r \in Range(store) \/ (r.by = d /\ r.key \in Range(keys))
         /\ ends' = "row" => \/ last = "row" /\ store' # <<>> /\ Last(store').by = d
                             \/ ends = "row" /\ store' = store
         /\ deltas' = [deltas EXCEPT ![d] = [then EXCEPT !.raced = deltas'[d].raced]]
         /\ [then EXCEPT !.raced = deltas'[d].raced] \in DeltaStates
         /\ ~deltas'[d].raced =>
              /\ ~scrub.running
              /\ \A k \in Range(keys) : \E r \in Range(store') : r.by = d /\ r.key = k
<1> DEFINE rows == RowsOf(d, keys)
           added == Added(rows)
           kept == Kept
           gone == deltas[d].gen # gen
           raced == gone \/ scrub.running \/ Glued
<1>1. rows \in Seq(Rows) /\ (\A r \in Range(rows) : r.by = d /\ r.key \in Range(keys))
      /\ Range(keys) \subseteq {r.key : r \in Range(rows)}
  BY RowsFacts
<1>2. /\ \/ UNCHANGED <<store, broken, ends>> /\ (gone \/ (rows = <<>> /\ last = "line"))
         \/ /\ store' = kept \o added /\ broken' = (broken \/ Glued \/ last = "part") /\ ~gone
            /\ ends' = IF last = "row" /\ added = <<>> THEN "part" ELSE last
      /\ deltas' = [deltas EXCEPT ![d] = [then EXCEPT !.raced = raced]]
  BY DEF Put
<1>3. /\ broken \in BOOLEAN /\ store \in Seq(Rows) /\ deltas \in [Deltas -> DeltaStates]
      /\ ends \in Endings /\ (ends = "row" => store # <<>>) /\ scrub.running \in BOOLEAN
  BY DEF TriageType
<1>4. added \in Seq(Rows) /\ Range(added) \subseteq Range(rows) /\ (~Glued => added = rows)
  <2> HIDE DEF rows
  <2>1. rows # <<>> => Tail(rows) \in Seq(Rows) /\ Range(Tail(rows)) \subseteq Range(rows)
    BY <1>1, TailFacts
  <2> QED BY <1>1, <2>1 DEF Added
<1>5. /\ kept \in Seq(Rows) /\ Range(kept) \subseteq Range(store)
      /\ \A r \in Range(store) : r \in Range(kept) \/ (ends = "row" /\ r = Last(store))
  BY <1>3, FrontFacts DEF Kept
<1>6. raced \in BOOLEAN
  <2>1. gone \in BOOLEAN OBVIOUS
  <2> QED BY <1>3, <2>1 DEF Glued
<1>7. deltas'[d] = [then EXCEPT !.raced = raced] BY <1>2, <1>3
<1>8. deltas'[d].raced = raced /\ [then EXCEPT !.raced = raced] \in DeltaStates
  BY <1>6, <1>7 DEF DeltaStates
<1> HIDE DEF rows, added, kept
<1>9. kept \o added \in Seq(Rows) /\ Range(kept \o added) = Range(kept) \union Range(added)
  BY <1>4, <1>5, ConcatFacts
<1>10. /\ store' \in Seq(Rows)
       /\ \A r \in Range(store) : r \in Range(store') \/ (ends = "row" /\ r = Last(store))
       /\ \A r \in Range(store') : r \in Range(store) \/ (r.by = d /\ r.key \in Range(keys))
  BY <1>1, <1>2, <1>3, <1>4, <1>5, <1>9
<1>11. ~raced => \A k \in Range(keys) : \E r \in Range(store') : r.by = d /\ r.key = k
  <2> SUFFICES ASSUME ~raced, NEW k \in Range(keys) PROVE \E r \in Range(store') : r.by = d /\ r.key = k
    OBVIOUS
  <2>1. PICK r \in Range(rows) : r.key = k BY <1>1
  <2>2. r.by = d /\ rows # <<>> BY <1>1, <2>1 DEF Range
  <2>3. r \in Range(added) BY <1>4, <2>1
  <2>4. store' = kept \o added BY <1>2, <2>2
  <2> QED BY <1>9, <2>1, <2>2, <2>3, <2>4
<1>12. ends' = "row" => \/ last = "row" /\ store' # <<>> /\ Last(store').by = d
                        \/ ends = "row" /\ store' = store
  <2>1. added # <<>> => /\ kept \o added # <<>> /\ Last(kept \o added) = Last(added)
                        /\ Last(added) \in Range(added)
    BY <1>4, <1>5, LastOfBoth, FrontFacts, SMTT(30)
  <2> QED BY <1>1, <1>2, <1>4, <2>1
<1>13. broken' \in BOOLEAN /\ ends' \in Endings BY <1>2, <1>3 DEF Endings, Glued
<1>14. ~deltas'[d].raced => ~scrub.running BY <1>8
<1> HIDE DEF raced
<1> QED BY <1>2, <1>8, <1>10, <1>11, <1>12, <1>13, <1>14

(* A section that is added keeps the others. *)
LEMMA SectionFacts ==
  ASSUME TriageType, NEW d \in Deltas, NEW keys \in SUBSET Keys, NEW heading \in BOOLEAN,
         NEW torn \in BOOLEAN, inbox' = Append(inbox, Section(d, keys, heading, torn))
  PROVE  /\ inbox' \in Seq(Sections)
         /\ Range(inbox') = Range(inbox) \union {Section(d, keys, heading, torn)}
         /\ Section(d, keys, heading, torn) \in Sections
         /\ Section(d, keys, heading, torn).by = d /\ Section(d, keys, heading, torn).keys = keys
         /\ Section(d, keys, heading, torn).on = day
<1> DEFINE x == heading /\ (inbox = <<>> \/ ~Last(inbox).torn)
<1>1. x \in BOOLEAN OBVIOUS
<1>2. Section(d, keys, heading, torn) =
        [by |-> d, day |-> deltas[d].today, on |-> day, keys |-> keys, torn |-> torn, headed |-> x]
  BY DEF Section
<1>3. deltas[d].today \in 0..MaxDay /\ day \in 0..MaxDay /\ inbox \in Seq(Sections)
  BY DEF TriageType, DeltaStates
<1> HIDE DEF x
<1>4. /\ Section(d, keys, heading, torn) \in Sections
      /\ Section(d, keys, heading, torn).by = d /\ Section(d, keys, heading, torn).keys = keys
      /\ Section(d, keys, heading, torn).on = day
  BY <1>1, <1>2, <1>3 DEF Sections
<1> QED BY <1>3, <1>4, AppendFacts

(* The keys a delta has found new, and the reports it can meet. *)
LEMMA NewKeys == ASSUME TriageType, NEW d \in Deltas PROVE Range(deltas[d].new) \in SUBSET Keys
<1>1. deltas[d].new \in Seq(Keys) BY DEF TriageType, DeltaStates
<1> QED BY <1>1 DEF Range

LEMMA PlanFacts ==
  ASSUME TriageAssumption, TriageType
  PROVE  plan.reports \subseteq Seq(Keys) /\ plan.days \in 0..MaxDay
<1>1. plan \in [deltas : 0..MaxDeltas, scrubs : Nat, weeklies : Nat, days : 0..MaxDay,
                reports : SUBSET Reports, cuts : BOOLEAN,
                lanes : SUBSET {"opus", "sol"}, rounds : Nat, wide : BOOLEAN]
  BY DEF TriageType, TriageAssumption
<1>2. Reports \subseteq Seq(Keys) BY DEF TriageAssumption
<1> QED BY <1>1, <1>2

(* What each step of a delta writes. *)
LEMMA DeltaWrites ==
  ASSUME TriageAssumption, TriageType, NEW d \in Deltas, DeltaStep(d)
  PROVE  /\ deltas'[d] \in DeltaStates
         /\ deltas' = [deltas EXCEPT ![d] = deltas'[d]]
         /\ deltas[d].pc \in {"off", "report", "store", "inbox"}
         /\ store' \in Seq(Rows) /\ broken' \in BOOLEAN /\ inbox' \in Seq(Sections)
         /\ ends' \in Endings /\ (ends' = "row" => store' # <<>>)
         /\ UNCHANGED <<plan, day, gen, scrub, scrubs>>
<1> USE DEF TriageType
<1> DEFINE Goal == /\ deltas'[d] \in DeltaStates
                   /\ deltas' = [deltas EXCEPT ![d] = deltas'[d]]
                   /\ deltas[d].pc \in {"off", "report", "store", "inbox"}
                   /\ store' \in Seq(Rows) /\ broken' \in BOOLEAN /\ inbox' \in Seq(Sections)
                   /\ ends' \in Endings /\ (ends' = "row" => store' # <<>>)
                   /\ UNCHANGED <<plan, day, gen, scrub, scrubs>>
<1>1. ASSUME NEW e \in DeltaStates, deltas' = [deltas EXCEPT ![d] = e]
      PROVE  deltas'[d] \in DeltaStates /\ deltas' = [deltas EXCEPT ![d] = deltas'[d]]
  BY <1>1
<1>2. CASE ReadStore(d)
  <2> DEFINE e == [deltas[d] EXCEPT !.pc = IF broken THEN "dead" ELSE "report", !.today = day,
                                    !.seen = KeysOf(store), !.after = {c \in Deltas : Stored(c)}]
  <2>1. KeysOf(store) \in SUBSET Keys
    <3>1. \A n \in DOMAIN store : store[n] \in Rows OBVIOUS
    <3>2. \A r \in Rows : r.key \in Keys BY DEF Rows
    <3> HIDE DEF TriageType
    <3> QED BY <3>1, <3>2 DEF KeysOf
  <2>2. e \in DeltaStates
    <3>1. deltas[d] \in DeltaStates /\ day \in 0..MaxDay OBVIOUS
    <3>2. \A p \in {"dead", "report"} :
            [deltas[d] EXCEPT !.pc = p, !.today = day, !.seen = KeysOf(store),
                              !.after = {c \in Deltas : Stored(c)}] \in DeltaStates
      BY <2>1, <3>1, DeltaChanges
    <3> QED BY <3>2
  <2>3. deltas' = [deltas EXCEPT ![d] = e] BY <1>2 DEF ReadStore
  <2> HIDE DEF e
  <2>4. deltas'[d] \in DeltaStates /\ deltas' = [deltas EXCEPT ![d] = deltas'[d]]
    BY <1>1, <2>2, <2>3
  <2> QED BY <1>2, <2>4 DEF ReadStore
<1>3. ASSUME NEW r \in plan.reports, ReadReport(d, r) PROVE Goal
  <2> DEFINE new == New(deltas[d].seen, r)
             e == [deltas[d] EXCEPT !.pc = "store", !.seen = {}, !.new = new, !.gen = gen]
  <2>1. new \in Seq(Keys) BY PlanFacts, NewRows
  <2>2. e \in DeltaStates BY <2>1, DeltaChanges
  <2>3. deltas' = [deltas EXCEPT ![d] = IF new = <<>> THEN Over(d, "done") ELSE e]
    BY <1>3 DEF ReadReport
  <2> HIDE DEF e
  <2>4. deltas'[d] \in DeltaStates /\ deltas' = [deltas EXCEPT ![d] = deltas'[d]]
    BY <1>1, <2>2, <2>3, OverFacts
  <2> QED BY <1>3, <2>4 DEF ReadReport
<1>4. CASE AppendRows(d)
  <2> DEFINE keys == deltas[d].new then == [deltas[d] EXCEPT !.pc = "inbox", !.gen = 0]
  <2>1. keys \in Seq(Keys) /\ then \in DeltaStates
    <3>1. keys \in Seq(Keys) BY DEF DeltaStates
    <3>2. deltas[d] \in DeltaStates OBVIOUS
    <3>3. then \in DeltaStates BY <3>2, DeltaChanges
    <3> QED BY <3>1, <3>3
  <2>2. Put(d, RowsOf(d, keys), "line", then) BY <1>4 DEF AppendRows
  <2> HIDE DEF keys, then
  <2>3. /\ store' \in Seq(Rows) /\ broken' \in BOOLEAN /\ ends' \in Endings
        /\ ends' = "row" => store' # <<>>
        /\ deltas' = [deltas EXCEPT ![d] = [then EXCEPT !.raced = deltas'[d].raced]]
        /\ [then EXCEPT !.raced = deltas'[d].raced] \in DeltaStates
    BY <2>1, <2>2, PutFacts DEF Endings
  <2>4. deltas'[d] \in DeltaStates /\ deltas' = [deltas EXCEPT ![d] = deltas'[d]]
    BY <1>1, <2>3
  <2> QED BY <1>4, <2>3, <2>4 DEF AppendRows
<1>5. CASE AppendBreaks(d)
  <2>1. PICK n \in 0..Len(deltas[d].new), last \in Endings :
          Put(d, RowsOf(d, SubSeq(deltas[d].new, 1, n)), last, Over(d, "dead"))
    BY <1>5 DEF AppendBreaks, Endings
  <2> DEFINE keys == SubSeq(deltas[d].new, 1, n) then == Over(d, "dead")
  <2>2. deltas[d].new \in Seq(Keys) BY DEF DeltaStates
  <2>3. keys \in Seq(Keys) /\ then \in DeltaStates BY <2>2, PrefixFacts, OverFacts
  <2>4. Put(d, RowsOf(d, keys), last, then) BY <2>1
  <2> HIDE DEF keys, then
  <2>5. /\ store' \in Seq(Rows) /\ broken' \in BOOLEAN /\ ends' \in Endings
        /\ ends' = "row" => store' # <<>>
        /\ deltas' = [deltas EXCEPT ![d] = [then EXCEPT !.raced = deltas'[d].raced]]
        /\ [then EXCEPT !.raced = deltas'[d].raced] \in DeltaStates
    BY <2>3, <2>4, PutFacts, SMTT(30)
  <2>6. deltas'[d] \in DeltaStates /\ deltas' = [deltas EXCEPT ![d] = deltas'[d]]
    BY <1>1, <2>5
  <2> QED BY <1>5, <2>5, <2>6 DEF AppendBreaks, Endings
<1>6. CASE AppendSection(d)
  <2>1. Range(deltas[d].new) \in SUBSET Keys BY NewKeys
  <2>2. inbox' = Append(inbox, Section(d, Range(deltas[d].new), TRUE, FALSE))
    BY <1>6 DEF AppendSection
  <2>4. inbox' \in Seq(Sections) BY <2>1, <2>2, SectionFacts
  <2>3. deltas'[d] \in DeltaStates /\ deltas' = [deltas EXCEPT ![d] = deltas'[d]]
    BY <1>1, <1>6, OverFacts DEF AppendSection
  <2> QED BY <1>6, <2>3, <2>4 DEF AppendSection
<1>7. CASE SectionBreaks(d)
  <2>1. Range(deltas[d].new) \in SUBSET Keys BY NewKeys
  <2>2. PICK keys \in SUBSET Range(deltas[d].new), heading \in BOOLEAN, torn \in BOOLEAN :
          inbox' = Append(inbox, Section(d, keys, heading, torn))
    BY <1>7 DEF SectionBreaks
  <2>3. keys \in SUBSET Keys BY <2>1
  <2>4. inbox' \in Seq(Sections) BY <2>2, <2>3, SectionFacts
  <2>5. deltas'[d] \in DeltaStates /\ deltas' = [deltas EXCEPT ![d] = deltas'[d]]
    BY <1>1, <1>7, OverFacts DEF SectionBreaks
  <2> QED BY <1>7, <2>4, <2>5 DEF SectionBreaks
<1>8. CASE DeltaDies(d)
  <2>1. deltas'[d] \in DeltaStates /\ deltas' = [deltas EXCEPT ![d] = deltas'[d]]
    BY <1>1, <1>8, OverFacts DEF DeltaDies
  <2> QED BY <1>8, <2>1 DEF DeltaDies
<1> QED BY <1>2, <1>3, <1>4, <1>5, <1>6, <1>7, <1>8 DEF DeltaStep

(* What a delta's step adds to the inbox: nothing, or one section of its own
   that shows what it was about to show, or a part of it as it dies. *)
Extends(d, s) ==
  /\ inbox' = Append(inbox, s) /\ Range(inbox') = Range(inbox) \union {s} /\ s \in Sections
  /\ s.by = d /\ s.on = day /\ deltas[d].pc = "inbox" /\ s.keys \subseteq Range(deltas[d].new)
  /\ s.keys = Range(deltas[d].new) \/ deltas'[d].pc = "dead"
LEMMA InboxEffect ==
  ASSUME TriageAssumption, TriageType, NEW d \in Deltas, DeltaStep(d)
  PROVE  UNCHANGED inbox \/ \E s : Extends(d, s)
<1>1. Range(deltas[d].new) \in SUBSET Keys BY NewKeys
<1>2. CASE AppendSection(d)
  <2> DEFINE s == Section(d, Range(deltas[d].new), TRUE, FALSE)
  <2>1. inbox' = Append(inbox, s) /\ deltas[d].pc = "inbox" BY <1>2 DEF AppendSection
  <2>2. /\ Range(inbox') = Range(inbox) \union {s} /\ s \in Sections
        /\ s.by = d /\ s.on = day /\ s.keys = Range(deltas[d].new)
    <3>1. PICK keys \in SUBSET Keys, heading \in BOOLEAN, torn \in BOOLEAN :
            keys = Range(deltas[d].new) /\ heading = TRUE /\ torn = FALSE
      BY <1>1
    <3>2. s = Section(d, keys, heading, torn) BY <3>1
    <3> HIDE DEF s
    <3>3. inbox' = Append(inbox, Section(d, keys, heading, torn)) BY <2>1, <3>2
    <3>4. /\ Range(inbox') = Range(inbox) \union {Section(d, keys, heading, torn)}
          /\ Section(d, keys, heading, torn) \in Sections
          /\ Section(d, keys, heading, torn).by = d /\ Section(d, keys, heading, torn).on = day
          /\ Section(d, keys, heading, torn).keys = keys
      BY <3>3, SectionFacts
    <3> QED BY <3>1, <3>2, <3>4
  <2> HIDE DEF s
  <2>3. Extends(d, s) BY <2>1, <2>2 DEF Extends
  <2> QED BY <2>3
<1>3. CASE SectionBreaks(d)
  <2>1. PICK keys \in SUBSET Range(deltas[d].new), heading \in BOOLEAN, torn \in BOOLEAN :
          inbox' = Append(inbox, Section(d, keys, heading, torn))
    BY <1>3 DEF SectionBreaks
  <2> DEFINE s == Section(d, keys, heading, torn)
  <2>2. keys \in SUBSET Keys BY <1>1
  <2>3. /\ Range(inbox') = Range(inbox) \union {s} /\ s \in Sections
        /\ s.by = d /\ s.on = day /\ s.keys = keys
    BY <2>1, <2>2, SectionFacts
  <2>4. deltas'[d] = Over(d, "dead") /\ deltas[d].pc = "inbox" BY <1>3 DEF SectionBreaks, TriageType
  <2>5. deltas'[d].pc = "dead" BY <2>4, OverFacts
  <2>7. inbox' = Append(inbox, s) BY <2>1
  <2> HIDE DEF s
  <2>6. Extends(d, s) BY <2>3, <2>4, <2>5, <2>7 DEF Extends
  <2> QED BY <2>6
<1>4. CASE ReadStore(d) \/ (\E r \in plan.reports : ReadReport(d, r)) \/ AppendRows(d) \/ AppendBreaks(d)
           \/ DeltaDies(d)
  BY <1>4 DEF ReadStore, ReadReport, AppendRows, AppendBreaks, DeltaDies
<1> QED BY <1>2, <1>3, <1>4 DEF DeltaStep

(* The others say what they said. *)
LEMMA OthersSay ==
  ASSUME TriageAssumption, TriageType, NEW d \in Deltas, DeltaStep(d), NEW c \in Deltas, c # d
  PROVE  deltas'[c] = deltas[c] /\ Says(c)' = Says(c)
<1>1. deltas'[c] = deltas[c] BY DeltaWrites DEF TriageType
<1>2. CASE UNCHANGED inbox BY <1>1, <1>2 DEF Says
<1>3. ASSUME NEW s, Extends(d, s) PROVE Says(c)' = Says(c) BY <1>1, <1>3 DEF Says, Extends
<1> QED BY <1>1, <1>2, <1>3, InboxEffect

(* How a delta's state goes on. *)
LEMMA OwnStates ==
  ASSUME TriageAssumption, TriageType, NEW d \in Deltas, DeltaStep(d)
  PROVE  /\ AppendRows(d) => deltas'[d].pc = "inbox" /\ deltas'[d].new = deltas[d].new
         /\ \/ /\ ReadStore(d) /\ deltas[d].pc = "off" /\ deltas'[d].pc \in {"report", "dead"}
               /\ deltas'[d].seen = KeysOf(store) /\ deltas'[d].raced = deltas[d].raced
               /\ deltas'[d].after = {e \in Deltas : Stored(e)}
            \/ /\ deltas[d].pc = "report" /\ deltas'[d].pc \in {"done", "store", "dead"}
               /\ deltas'[d].pc = "store" => Range(deltas'[d].new) \cap deltas[d].seen = {}
               /\ deltas'[d].raced = deltas[d].raced /\ deltas'[d].after = deltas[d].after
            \/ /\ AppendRows(d) /\ deltas[d].pc = "store" /\ deltas'[d].pc = "inbox"
               /\ deltas'[d].new = deltas[d].new /\ deltas'[d].after = deltas[d].after
            \/ /\ deltas[d].pc = "store" /\ deltas'[d].pc = "dead" /\ deltas'[d].after = deltas[d].after
            \/ /\ deltas[d].pc = "inbox" /\ deltas'[d].pc \in {"done", "dead"}
               /\ deltas'[d].raced = deltas[d].raced /\ deltas'[d].after = deltas[d].after
<1> USE DEF TriageType
<1>1. deltas[d] \in DeltaStates /\ deltas[d].new \in Seq(Keys) BY DEF DeltaStates
<1>2. CASE ReadStore(d)
  <2>1. deltas'[d] = [deltas[d] EXCEPT !.pc = IF broken THEN "dead" ELSE "report", !.today = day,
                                       !.seen = KeysOf(store), !.after = {e \in Deltas : Stored(e)}]
    BY <1>2 DEF ReadStore
  <2>2. deltas[d].pc = "off" BY <1>2 DEF ReadStore
  <2> HIDE DEF TriageType
  <2>3. ~AppendRows(d) BY <2>2 DEF AppendRows
  <2> QED BY <1>1, <1>2, <2>1, <2>2, <2>3 DEF DeltaStates
<1>3. ASSUME NEW r \in plan.reports, ReadReport(d, r)
      PROVE  /\ deltas[d].pc = "report" /\ deltas'[d].pc \in {"done", "store", "dead"}
             /\ deltas'[d].pc = "store" => Range(deltas'[d].new) \cap deltas[d].seen = {}
             /\ deltas'[d].raced = deltas[d].raced /\ deltas'[d].after = deltas[d].after
  <2> DEFINE new == New(deltas[d].seen, r)
             e == [deltas[d] EXCEPT !.pc = "store", !.seen = {}, !.new = new, !.gen = gen]
  <2>1. Range(new) \cap deltas[d].seen = {} BY PlanFacts, NewRows
  <2>2. deltas'[d] = IF new = <<>> THEN Over(d, "done") ELSE e BY <1>3 DEF ReadReport
  <2> HIDE DEF new
  <2>3. e.pc = "store" /\ e.new = new /\ e.raced = deltas[d].raced /\ e.after = deltas[d].after
    BY <1>1 DEF DeltaStates
  <2>4. deltas[d].pc = "report" BY <1>3 DEF ReadReport
  <2> HIDE DEF e
  <2> QED BY <2>1, <2>2, <2>3, <2>4, OverFacts
<1>4. ASSUME AppendRows(d)
      PROVE  /\ deltas[d].pc = "store" /\ deltas'[d].pc = "inbox"
             /\ deltas'[d].new = deltas[d].new /\ deltas'[d].after = deltas[d].after
  <2> DEFINE keys == deltas[d].new then == [deltas[d] EXCEPT !.pc = "inbox", !.gen = 0]
             last == "line"
  <2>1. then \in DeltaStates
    <3>1. \A p \in {"inbox"} : [deltas[d] EXCEPT !.pc = p, !.gen = 0] \in DeltaStates
      BY <1>1, DeltaChanges
    <3> QED BY <3>1
  <2>2. Put(d, RowsOf(d, keys), last, then) /\ last \in Endings BY <1>4 DEF AppendRows, Endings
  <2>3. \A b : [then EXCEPT !.raced = b].pc = "inbox" /\ [then EXCEPT !.raced = b].new = deltas[d].new
               /\ [then EXCEPT !.raced = b].after = deltas[d].after
    BY <1>1 DEF DeltaStates
  <2>4. keys \in Seq(Keys) BY <1>1
  <2>5. deltas[d].pc = "store" BY <1>4 DEF AppendRows
  <2> HIDE DEF keys, then, last
  <2>6. /\ store' \in Seq(Rows) /\ broken' \in BOOLEAN /\ ends' \in Endings
        /\ ends' = "row" => store' # <<>>
        /\ deltas' = [deltas EXCEPT ![d] = [then EXCEPT !.raced = deltas'[d].raced]]
        /\ [then EXCEPT !.raced = deltas'[d].raced] \in DeltaStates
    BY <2>1, <2>2, <2>4, PutFacts, SMTT(30)
  <2>7. deltas'[d] = [then EXCEPT !.raced = deltas'[d].raced] BY <2>6
  <2> QED BY <2>3, <2>5, <2>7
<1>5. ASSUME AppendBreaks(d)
      PROVE  deltas[d].pc = "store" /\ deltas'[d].pc = "dead" /\ deltas'[d].after = deltas[d].after
  <2>1. PICK n \in 0..Len(deltas[d].new), last \in Endings :
          Put(d, RowsOf(d, SubSeq(deltas[d].new, 1, n)), last, Over(d, "dead"))
    BY <1>5 DEF AppendBreaks, Endings
  <2> DEFINE keys == SubSeq(deltas[d].new, 1, n) then == Over(d, "dead")
  <2>2. keys \in Seq(Keys) BY <1>1, PrefixFacts
  <2>3. then \in DeltaStates /\ then.pc = "dead" /\ then.after = deltas[d].after BY OverFacts
  <2>4. Put(d, RowsOf(d, keys), last, then) /\ last \in Endings BY <2>1
  <2>8. deltas[d].pc = "store" BY <1>5 DEF AppendBreaks, Endings
  <2> HIDE DEF keys, then
  <2>5. /\ store' \in Seq(Rows) /\ broken' \in BOOLEAN /\ ends' \in Endings
        /\ ends' = "row" => store' # <<>>
        /\ deltas' = [deltas EXCEPT ![d] = [then EXCEPT !.raced = deltas'[d].raced]]
        /\ [then EXCEPT !.raced = deltas'[d].raced] \in DeltaStates
    BY <2>2, <2>3, <2>4, PutFacts, SMTT(30)
  <2>6. deltas'[d] = [then EXCEPT !.raced = deltas'[d].raced] BY <2>5
  <2>7. \A b : [then EXCEPT !.raced = b].pc = "dead" /\ [then EXCEPT !.raced = b].after = deltas[d].after
    BY <2>3 DEF DeltaStates
  <2> QED BY <2>6, <2>7, <2>8
<1>6. ASSUME AppendSection(d) \/ SectionBreaks(d)
      PROVE  /\ deltas[d].pc = "inbox" /\ deltas'[d].pc \in {"done", "dead"}
             /\ deltas'[d].raced = deltas[d].raced /\ deltas'[d].after = deltas[d].after
  <2>1. deltas'[d] \in {Over(d, "done"), Over(d, "dead")} /\ deltas[d].pc = "inbox"
    BY <1>6 DEF AppendSection, SectionBreaks
  <2> QED BY <2>1, OverFacts
<1>7. ASSUME DeltaDies(d)
      PROVE  /\ deltas[d].pc \in {"report", "store", "inbox"} /\ deltas'[d].pc = "dead"
             /\ deltas'[d].raced = deltas[d].raced /\ deltas'[d].after = deltas[d].after
  <2>1. deltas'[d] = Over(d, "dead") /\ deltas[d].pc \in {"report", "store", "inbox"}
    BY <1>7 DEF DeltaDies
  <2> QED BY <2>1, OverFacts
<1> HIDE DEF TriageType
<1>8. CASE \E r \in plan.reports : ReadReport(d, r) BY <1>3, <1>4, <1>8
<1>12. CASE AppendRows(d) BY <1>4, <1>12
<1>9. CASE AppendBreaks(d) BY <1>4, <1>5, <1>9
<1>10. CASE AppendSection(d) \/ SectionBreaks(d) BY <1>4, <1>6, <1>10
<1>11. CASE DeltaDies(d) BY <1>4, <1>7, <1>11
<1> QED BY <1>2, <1>4, <1>8, <1>9, <1>10, <1>11, <1>12 DEF DeltaStep

(* What a delta says, it says once its rows are written; from then on it shows
   it all or dies. *)
LEMMA OwnSays ==
  ASSUME TriageAssumption, TriageType, SilentBefore, NEW d \in Deltas, DeltaStep(d)
  PROVE  /\ Says(d)' \subseteq Says(d) \/ (AppendRows(d) /\ Says(d)' \subseteq Range(deltas[d].new))
         /\ Says(d) \subseteq Says(d)' \/ deltas'[d].pc = "dead"
         /\ Settled(d)' \/ Says(d)' = {}
         /\ AppendRows(d) => Range(deltas[d].new) \subseteq Says(d)'
<1>1. ~Settled(d) => Says(d) = {} BY DEF SilentBefore
<1>2. ~Settled(d) => UNCHANGED inbox BY InboxEffect DEF Settled, Extends
<1>3. CASE deltas[d].pc = "off" \/ deltas[d].pc = "report"
  <2>1. deltas'[d].pc # "inbox" /\ ~Settled(d) /\ ~AppendRows(d)
    BY <1>3, OwnStates DEF Settled, AppendRows
  <2>2. Says(d)' = Says(d) BY <1>2, <2>1 DEF Says, Settled
  <2> QED BY <1>1, <2>1, <2>2
<1>4. CASE deltas[d].pc = "store"
  <2>1. ~Settled(d) BY <1>4 DEF Settled
  <2>2. ~\E s \in Range(inbox) : s.by = d /\ \E k \in Keys : k \in s.keys
    BY <1>1, <2>1 DEF Says
  <2>3. CASE AppendRows(d)
    <3>1. deltas'[d].pc = "inbox" /\ deltas'[d].new = deltas[d].new
      BY <1>4, <2>3, OwnStates DEF ReadStore
    <3>2. Says(d)' \subseteq Range(deltas[d].new) BY <1>2, <2>1, <2>2, <3>1 DEF Says
    <3>3. deltas[d].new \in Seq(Keys) BY DEF TriageType, DeltaStates
    <3>4. Range(deltas[d].new) \subseteq Keys BY <3>3 DEF Range
    <3>5. Range(deltas[d].new) \subseteq Says(d)' BY <3>1, <3>4 DEF Says
    <3> QED BY <1>1, <2>1, <2>3, <3>1, <3>2, <3>5 DEF Settled
  <2>4. CASE ~AppendRows(d)
    <3>1. deltas'[d].pc = "dead" BY <1>4, <2>4, OwnStates
    <3>2. Says(d)' \subseteq Says(d) BY <1>2, <2>1, <3>1 DEF Says
    <3> QED BY <2>4, <3>1, <3>2 DEF Settled
  <2> QED BY <2>3, <2>4
<1>5. CASE deltas[d].pc = "inbox"
  <2>1. deltas'[d].pc \in {"done", "dead"} /\ ~AppendRows(d) BY <1>5, OwnStates DEF AppendRows
  <2>2. CASE UNCHANGED inbox
    <3>1. deltas'[d].pc = "dead" \/ AppendSection(d)
      <4>1. ASSUME SectionBreaks(d) \/ DeltaDies(d) PROVE deltas'[d].pc = "dead"
        <5>1. deltas'[d] = Over(d, "dead") BY <4>1 DEF SectionBreaks, DeltaDies, TriageType
        <5> QED BY <5>1, OverFacts
      <4>2. ~ReadStore(d) BY <1>5 DEF ReadStore
      <4>3. \A r \in plan.reports : ~ReadReport(d, r) BY <1>5 DEF ReadReport
      <4>4. ~AppendRows(d) BY <1>5 DEF AppendRows
      <4>5. ~AppendBreaks(d) BY <1>5 DEF AppendBreaks
      <4> QED BY <4>1, <4>2, <4>3, <4>4, <4>5 DEF DeltaStep
    <3>2. ~AppendSection(d)
      <4>1. ASSUME AppendSection(d) PROVE FALSE
        <5>1. inbox \in Seq(Sections) BY DEF TriageType
        <5>2. PICK s : inbox' = Append(inbox, s) BY <4>1 DEF AppendSection
        <5>3. Len(inbox') = Len(inbox) + 1 /\ Len(inbox) \in Nat BY <5>1, <5>2
        <5> QED BY <2>2, <5>3
      <4> QED BY <4>1
    <3>3. Says(d)' \subseteq Says(d) BY <2>1, <2>2 DEF Says
    <3> QED BY <2>1, <3>1, <3>2, <3>3 DEF Settled
  <2>3. ASSUME NEW s, Extends(d, s)
        PROVE  Says(d)' \subseteq Says(d) /\ (Says(d) \subseteq Says(d)' \/ deltas'[d].pc = "dead")
    BY <1>5, <2>1, <2>3 DEF Says, Extends
  <2>4. Settled(d)' BY <2>1 DEF Settled
  <2> QED BY <2>1, <2>2, <2>3, <2>4, InboxEffect
<1> QED BY <1>3, <1>4, <1>5, DeltaWrites

-----------------------------------------------------------------------------
(* What a delta's step adds to the store: rows of its own, which it is going
   to show unless it dies; and when nothing disturbed it, all of them. *)
LEMMA StoreEffect ==
  ASSUME TriageAssumption, TriageType, NEW d \in Deltas, DeltaStep(d)
  PROVE  /\ \A r \in Range(store) : r \in Range(store') \/ (ends = "row" /\ r = Last(store))
         /\ \A r \in Range(store') :
              \/ r \in Range(store)
              \/ r.by = d /\ deltas'[d].pc = "dead"
              \/ r.by = d /\ AppendRows(d) /\ r.key \in Range(deltas[d].new)
         /\ AppendRows(d) /\ ~deltas'[d].raced =>
              /\ ~scrub.running
              /\ \A k \in Range(deltas[d].new) : \E r \in Range(store') : r.by = d /\ r.key = k
         /\ ends' = "row" => \/ deltas'[d].pc = "dead" /\ deltas[d].pc = "store" /\ Last(store').by = d
                             \/ ends = "row" /\ store' = store
<1>1. deltas[d] \in DeltaStates /\ deltas[d].new \in Seq(Keys) BY DEF TriageType, DeltaStates
<1>2. CASE AppendRows(d)
  <2> DEFINE keys == deltas[d].new then == [deltas[d] EXCEPT !.pc = "inbox", !.gen = 0]
  <2>1. then \in DeltaStates
    <3>1. \A p \in {"inbox"} : [deltas[d] EXCEPT !.pc = p, !.gen = 0] \in DeltaStates
      BY <1>1, DeltaChanges
    <3> QED BY <3>1
  <2>2. Put(d, RowsOf(d, keys), "line", then) BY <1>2 DEF AppendRows
  <2>3. keys \in Seq(Keys) BY <1>1
  <2> HIDE DEF keys, then
  <2>4. /\ \A r \in Range(store) : r \in Range(store') \/ (ends = "row" /\ r = Last(store))
        /\ ends' = "row" => ends = "row" /\ store' = store
        /\ \A r \in Range(store') : r \in Range(store) \/ (r.by = d /\ r.key \in Range(keys))
        /\ ~deltas'[d].raced =>
             /\ ~scrub.running
             /\ \A k \in Range(keys) : \E r \in Range(store') : r.by = d /\ r.key = k
    BY <2>1, <2>2, <2>3, PutFacts DEF Endings
  <2> QED BY <1>2, <2>4 DEF keys
<1>3. CASE AppendBreaks(d)
  <2>1. PICK n \in 0..Len(deltas[d].new), last \in Endings :
          Put(d, RowsOf(d, SubSeq(deltas[d].new, 1, n)), last, Over(d, "dead"))
    BY <1>3 DEF AppendBreaks, Endings
  <2> DEFINE keys == SubSeq(deltas[d].new, 1, n) then == Over(d, "dead")
  <2>2. keys \in Seq(Keys) BY <1>1, PrefixFacts
  <2>3. then \in DeltaStates /\ then.pc = "dead" BY OverFacts
  <2>4. Put(d, RowsOf(d, keys), last, then) /\ last \in Endings BY <2>1
  <2> HIDE DEF keys, then
  <2>5. /\ \A r \in Range(store) : r \in Range(store') \/ (ends = "row" /\ r = Last(store))
        /\ ends' = "row" => \/ last = "row" /\ store' # <<>> /\ Last(store').by = d
                            \/ ends = "row" /\ store' = store
        /\ \A r \in Range(store') : r \in Range(store) \/ (r.by = d /\ r.key \in Range(keys))
        /\ deltas' = [deltas EXCEPT ![d] = [then EXCEPT !.raced = deltas'[d].raced]]
        /\ [then EXCEPT !.raced = deltas'[d].raced] \in DeltaStates
    BY <2>2, <2>3, <2>4, PutFacts
  <2>6. deltas'[d] = [then EXCEPT !.raced = deltas'[d].raced] BY <2>5 DEF TriageType
  <2>7. \A b : [then EXCEPT !.raced = b].pc = "dead" BY <2>3 DEF DeltaStates
  <2>8. deltas'[d].pc = "dead" BY <2>6, <2>7
  <2>9. ~AppendRows(d) BY <2>8, OwnStates
  <2>10. deltas[d].pc = "store" BY <1>3 DEF AppendBreaks
  <2> QED BY <2>5, <2>8, <2>9, <2>10
<1>4. CASE ~AppendRows(d) /\ ~AppendBreaks(d)
  <2>1. store' = store /\ ends' = ends
    BY <1>4 DEF DeltaStep, ReadStore, ReadReport, AppendSection, SectionBreaks, DeltaDies
  <2> QED BY <1>4, <2>1
<1> QED BY <1>2, <1>3, <1>4

(* A delta that is not yet settled has said nothing, and stays so until its
   rows are written. *)
LEMMA SilentStep ==
  ASSUME TriageAssumption, TriageType, SilentBefore, NEW d \in Deltas, DeltaStep(d)
  PROVE  SilentBefore'
<1> SUFFICES ASSUME NEW c \in Deltas, ~Settled(c)' PROVE Says(c)' = {} BY DEF SilentBefore
<1>1. CASE c = d BY <1>1, OwnSays
<1>2. CASE c # d
  <2>1. deltas'[c] = deltas[c] /\ Says(c)' = Says(c) BY <1>2, OthersSay
  <2> QED BY <2>1 DEF SilentBefore, Settled
<1> QED BY <1>1, <1>2

(* The rows of the store stay said. *)
LEMMA RowsStep ==
  ASSUME TriageAssumption, TriageType, SilentBefore, RowsSaid, NEW d \in Deltas, DeltaStep(d)
  PROVE  RowsSaid'
<1>1. scrub' = scrub /\ deltas[d].pc # "dead" BY DeltaWrites
<1> SUFFICES ASSUME NEW r \in Range(store') \union Range(scrub.rows) PROVE RowSaid(r)'
  BY <1>1 DEF RowsSaid
<1>2. CASE r \in Range(store) \union Range(scrub.rows)
  <2>1. r.by \in Deltas
    <3>1. store \in Seq(Rows) /\ scrub.rows \in Seq(Rows) BY DEF TriageType
    <3>2. r \in Rows BY <1>2, <3>1 DEF Range
    <3> QED BY <3>2 DEF Rows
  <2>2. RowSaid(r) BY <1>2 DEF RowsSaid
  <2>3. CASE r.by # d
    <3>1. deltas'[r.by] = deltas[r.by] /\ Says(r.by)' = Says(r.by) BY <2>1, <2>3, OthersSay
    <3> QED BY <2>2, <3>1 DEF RowSaid
  <2>4. CASE r.by = d
    <3>1. r.key \in Says(d) BY <1>1, <2>2, <2>4 DEF RowSaid
    <3>2. deltas'[d].pc = "dead" \/ r.key \in Says(d)' BY <3>1, OwnSays
    <3> QED BY <2>4, <3>2 DEF RowSaid
  <2> QED BY <2>3, <2>4
<1>3. CASE r.by = d /\ deltas'[d].pc = "dead" BY <1>3 DEF RowSaid
<1>4. CASE r.by = d /\ AppendRows(d) /\ r.key \in Range(deltas[d].new)
  <2>1. r.key \in Says(d)' BY <1>4, OwnSays
  <2> QED BY <1>4, <2>1 DEF RowSaid
<1> QED BY <1>2, <1>3, <1>4, StoreEffect

(* Of the rows of a delta that says something none is lost. *)
LEMMA OwnStay ==
  ASSUME TriageAssumption, TriageType, Unended, NEW d \in Deltas, DeltaStep(d),
         NEW c \in Deltas, Says(c) # {}
  PROVE  Own(c, store) \subseteq Own(c, store')
<1> SUFFICES ASSUME NEW k \in Keys, NEW r \in Range(store), r.by = c, r.key = k
             PROVE  r \in Range(store')
  BY DEF Own
<1>1. ~(ends = "row" /\ r = Last(store)) BY DEF Unended
<1> QED BY <1>1, StoreEffect

(* A last row without its newline stays that of a delta that says nothing. *)
LEMMA UnendedStep ==
  ASSUME TriageAssumption, TriageType, SilentBefore, Unended, NEW d \in Deltas, DeltaStep(d)
  PROVE  Unended'
<1>1. CASE ends' # "row" BY <1>1 DEF Unended
<1>2. CASE deltas'[d].pc = "dead" /\ deltas[d].pc = "store" /\ Last(store').by = d
  <2>1. Says(d) = {} /\ ~AppendRows(d)
    BY <1>2, OwnStates DEF SilentBefore, Settled
  <2>2. Says(d)' = {} BY <2>1, OwnSays
  <2> QED BY <1>2, <2>2 DEF Unended
<1>3. CASE ends = "row" /\ store' = store
  <2>1. PICK e \in Deltas : e = Last(store).by
    <3>1. store \in Seq(Rows) /\ store # <<>> BY <1>3 DEF TriageType
    <3>2. Last(store) \in Rows BY <3>1 DEF Last
    <3> QED BY <3>2 DEF Rows
  <2>2. deltas[e].pc = "dead" /\ Says(e) = {} BY <1>3, <2>1 DEF Unended
  <2>3. e # d BY <2>2, DeltaWrites
  <2>4. deltas'[e] = deltas[e] /\ Says(e)' = Says(e) BY <2>3, OthersSay
  <2>5. e = Last(store').by BY <1>3, <2>1
  <2> QED BY <2>2, <2>4, <2>5 DEF Unended
<1> QED BY <1>1, <1>2, <1>3, StoreEffect

(* What was said stays in the store. *)
LEMMA KeptStep ==
  ASSUME TriageAssumption, TriageType, SilentBefore, Unended, SaidKept, NEW d \in Deltas, DeltaStep(d)
  PROVE  SaidKept'
<1>1. scrub' = scrub BY DeltaWrites
<1> SUFFICES ASSUME NEW c \in Deltas, ~deltas'[c].raced
             PROVE  /\ Says(c)' \subseteq Own(c, store')
                    /\ scrub.running => Says(c)' \subseteq Own(c, scrub.rows)
  BY <1>1 DEF SaidKept
<1>2. CASE Says(c)' \subseteq Says(c) /\ ~deltas[c].raced
  <2>1. Says(c) \subseteq Own(c, store) /\ (scrub.running => Says(c) \subseteq Own(c, scrub.rows))
    BY <1>2 DEF SaidKept
  <2>2. Says(c) # {} => Own(c, store) \subseteq Own(c, store') BY OwnStay
  <2> QED BY <1>2, <2>1, <2>2
<1>3. CASE c # d
  <2>1. deltas'[c] = deltas[c] /\ Says(c)' = Says(c) BY <1>3, OthersSay
  <2> QED BY <1>2, <2>1
<1>4. CASE c = d /\ deltas[d].pc = "store"
  <2>1. Says(d) = {} BY <1>4 DEF SilentBefore, Settled
  <2>2. CASE Says(d)' \subseteq Says(d) BY <1>4, <2>1, <2>2
  <2>3. CASE AppendRows(d) /\ Says(d)' \subseteq Range(deltas[d].new)
    <3>1. /\ ~scrub.running
          /\ \A k \in Range(deltas[d].new) : \E r \in Range(store') : r.by = d /\ r.key = k
      BY <1>4, <2>3, StoreEffect
    <3>2. Range(deltas[d].new) \subseteq Keys BY NewKeys
    <3> QED BY <1>4, <2>3, <3>1, <3>2 DEF Own
  <2> QED BY <2>2, <2>3, OwnSays
<1>5. CASE c = d /\ deltas[d].pc # "store"
  <2>1. ~AppendRows(d) BY <1>5 DEF AppendRows
  <2>2. Says(d)' \subseteq Says(d) BY <2>1, OwnSays
  <2>3. deltas'[d].raced = deltas[d].raced BY <1>5, OwnStates
  <2> QED BY <1>2, <1>5, <2>2, <2>3
<1> QED BY <1>3, <1>4, <1>5

(* What is among a delta's rows is in the store. *)
LEMMA OwnInStore == \A rows : \A d \in Deltas : Own(d, rows) \subseteq KeysOf(rows)
BY KeysAreOfRange DEF Own

(* What a delta says, no delta that reads the store after it says again. *)
LEMMA OnceStep ==
  ASSUME TriageAssumption, TriageType, SilentBefore, SaidKept, SaidOnce,
         NEW d \in Deltas, DeltaStep(d)
  PROVE  SaidOnce'
<1> DEFINE Apart(c, e) == /\ c # e /\ Settled(c)
                          /\ ~deltas[c].raced =>
                               /\ deltas[e].pc = "report" => Says(c) \subseteq deltas[e].seen
                               /\ deltas[e].pc = "store" => Says(c) \cap Range(deltas[e].new) = {}
                               /\ Says(c) \cap Says(e) = {}
<1>1. \A e \in Deltas : \A c \in deltas[e].after : c \in Deltas /\ Apart(c, e)
  BY DEF SaidOnce, TriageType, DeltaStates
<1> SUFFICES ASSUME NEW e \in Deltas, NEW c \in deltas'[e].after PROVE Apart(c, e)'
  BY DEF SaidOnce
<1>2. \A x \in Deltas : x # d => /\ deltas'[x] = deltas[x] /\ Says(x)' = Says(x)
                                 /\ Settled(x)' <=> Settled(x)
  BY OthersSay DEF Settled
<1>3. CASE e = d /\ ReadStore(d)
  <2>1. /\ deltas[d].pc = "off" /\ deltas'[d].pc \in {"report", "dead"}
        /\ deltas'[d].seen = KeysOf(store) /\ deltas'[d].after = {x \in Deltas : Stored(x)}
    BY <1>3, OwnStates DEF ReadStore
  <2>2. c \in Deltas /\ c # d /\ Settled(c) BY <1>3, <2>1 DEF Stored, Settled
  <2>3. Says(d) = {} /\ ~AppendRows(d) BY <2>1 DEF SilentBefore, Settled, AppendRows
  <2>4. Says(d)' = {} BY <2>3, OwnSays
  <2>5. ~deltas[c].raced => Says(c) \subseteq KeysOf(store) BY <2>2, OwnInStore DEF SaidKept
  <2> QED BY <1>2, <1>3, <2>1, <2>2, <2>4, <2>5
<1>4. CASE e = d /\ ~ReadStore(d)
  <2>1. deltas'[d].after = deltas[d].after BY <1>4, OwnStates
  <2>2. c \in Deltas /\ Apart(c, d) BY <1>1, <1>4, <2>1
  <2>3. deltas'[c] = deltas[c] /\ Says(c)' = Says(c) /\ Settled(c)' BY <1>2, <2>2
  <2>4. CASE deltas[d].pc = "report"
    <3>1. /\ deltas'[d].pc \in {"done", "store", "dead"} /\ ~AppendRows(d)
          /\ deltas'[d].pc = "store" => Range(deltas'[d].new) \cap deltas[d].seen = {}
      BY <1>4, <2>4, OwnStates DEF AppendRows
    <3>2. Says(d)' \subseteq Says(d) BY <3>1, OwnSays
    <3> QED BY <1>4, <2>2, <2>3, <2>4, <3>1, <3>2
  <2>5. CASE deltas[d].pc = "store"
    <3>1. deltas'[d].pc \in {"inbox", "dead"} BY <1>4, <2>5, OwnStates
    <3>2. Says(d)' \subseteq Says(d) \union Range(deltas[d].new) BY OwnSays
    <3> QED BY <1>4, <2>2, <2>3, <2>5, <3>1, <3>2
  <2>6. CASE deltas[d].pc = "inbox"
    <3>1. deltas'[d].pc \in {"done", "dead"} /\ ~AppendRows(d) BY <1>4, <2>6, OwnStates DEF AppendRows
    <3>2. Says(d)' \subseteq Says(d) BY <3>1, OwnSays
    <3> QED BY <1>4, <2>2, <2>3, <3>1, <3>2
  <2> QED BY <1>4, <2>4, <2>5, <2>6, OwnStates
<1>5. CASE e # d
  <2>1. c \in Deltas /\ Apart(c, e) BY <1>1, <1>2, <1>5
  <2>2. CASE c # d BY <1>2, <1>5, <2>1, <2>2
  <2>3. CASE c = d
    <3>1. deltas[d].pc = "inbox" BY <2>1, <2>3, DeltaWrites DEF Settled
    <3>2. deltas'[d].pc \in {"done", "dead"} /\ deltas'[d].raced = deltas[d].raced /\ ~AppendRows(d)
      BY <3>1, OwnStates DEF AppendRows
    <3>3. Says(d)' \subseteq Says(d) /\ Settled(d)' BY <3>2, OwnSays DEF Settled
    <3> QED BY <1>2, <1>5, <2>1, <2>3, <3>2, <3>3
  <2> QED BY <2>2, <2>3
<1> QED BY <1>3, <1>4, <1>5

-----------------------------------------------------------------------------
(* The first state. *)
LEMMA TriageStart == ASSUME TriageAssumption, TriageInit PROVE TriageInv
<1> USE DEF TriageInit
<1>1. <<>> \in Seq(Rows) /\ <<>> \in Seq(Sections) /\ <<>> \in Seq(Keys) OBVIOUS
<1>2. NoDelta \in DeltaStates
  <2>1. 0 \in 0..MaxDay BY DEF TriageAssumption
  <2> QED BY <1>1, <2>1 DEF NoDelta, DeltaStates
<1>3. TriageType
  <2>1. 0 \in 0..MaxDay BY DEF TriageAssumption
  <2> QED BY <1>1, <1>2, <2>1 DEF TriageType, Endings, NoScrub
<1>4. Range(<<>>) = {} BY DEF Range
<1>5. \A d \in Deltas : deltas[d] = NoDelta OBVIOUS
<1>6. \A d \in Deltas : Says(d) = {} BY <1>4, <1>5 DEF Says, NoDelta
<1>7. SilentBefore /\ SaidKept BY <1>6 DEF SilentBefore, SaidKept, NoScrub
<1>8. RowsSaid /\ Unended BY <1>4 DEF RowsSaid, Unended, NoScrub
<1>9. SaidOnce BY <1>5 DEF SaidOnce, NoDelta
<1> QED BY <1>3, <1>7, <1>8, <1>9 DEF TriageInv

(* The types. *)
LEMMA TriageTypeStep == ASSUME TriageAssumption, TriageType, TriageNext PROVE TriageType'
<1>1. CASE Midnight
  <2>1. plan.days \in 0..MaxDay BY <1>1, PlanFacts
  <2>2. day + 1 \in 0..MaxDay BY <1>1, <2>1 DEF Midnight, TriageType, TriageAssumption
  <2> QED BY <1>1, <2>2 DEF Midnight, TriageType
<1>2. ASSUME NEW d \in Deltas, DeltaStep(d) PROVE TriageType'
  <2>1. /\ deltas'[d] \in DeltaStates
        /\ deltas' = [deltas EXCEPT ![d] = deltas'[d]]
        /\ store' \in Seq(Rows) /\ broken' \in BOOLEAN /\ inbox' \in Seq(Sections)
        /\ ends' \in Endings /\ (ends' = "row" => store' # <<>>)
        /\ UNCHANGED <<plan, day, gen, scrub, scrubs>>
    BY <1>2, DeltaWrites
  <2>2. deltas' \in [Deltas -> DeltaStates] BY <2>1 DEF TriageType
  <2> QED BY <2>1, <2>2 DEF TriageType
<1>3. ASSUME NEW forks \in SUBSET DOMAIN Parent, ScrubReads(forks) PROVE TriageType'
  <2>1. Scrubbed(store, forks) \in Seq(Rows) BY ScrubFacts DEF TriageType
  <2> QED BY <1>3, <2>1 DEF ScrubReads, TriageType
<1>4. NoScrub \in [running : BOOLEAN, rows : Seq(Rows)]
  <2>1. <<>> \in Seq(Rows) OBVIOUS
  <2> QED BY <2>1 DEF NoScrub
<1>5. CASE ScrubReplaces
  <2>1. scrub.rows \in Seq(Rows) BY DEF TriageType
  <2>2. gen \in Nat /\ gen + 1 \in Nat BY DEF TriageType
  <2>3. /\ store' = scrub.rows /\ broken' = FALSE /\ gen' = gen + 1 /\ scrub' = NoScrub /\ ends' = "line"
        /\ UNCHANGED <<plan, day, inbox, deltas, scrubs>>
    BY <1>5 DEF ScrubReplaces
  <2> QED BY <1>4, <2>1, <2>2, <2>3 DEF TriageType, Endings
<1>6. CASE ScrubDies BY <1>4, <1>6 DEF ScrubDies, TriageType
<1> QED BY <1>1, <1>2, <1>3, <1>5, <1>6 DEF TriageNext

(* A scrub and midnight leave what the deltas said alone. *)
LEMMA ScrubStep ==
  ASSUME TriageAssumption, TriageInv,
         \/ Midnight \/ ScrubReplaces \/ ScrubDies
         \/ \E forks \in SUBSET DOMAIN Parent : ScrubReads(forks)
  PROVE  SilentBefore' /\ RowsSaid' /\ Unended' /\ SaidKept' /\ SaidOnce'
<1> USE DEF TriageInv
<1>1. UNCHANGED <<inbox, deltas>> BY DEF Midnight, ScrubReplaces, ScrubDies, ScrubReads
<1>2. \A d \in Deltas : Says(d)' = Says(d) /\ (Settled(d)' <=> Settled(d))
  <2> SUFFICES ASSUME NEW d \in Deltas PROVE Says(d)' = Says(d) /\ (Settled(d)' <=> Settled(d)) OBVIOUS
  <2>1. Says(d)' = Says(d) BY <1>1, Zenon DEF Says
  <2>2. Settled(d)' <=> Settled(d) BY <1>1 DEF Settled
  <2> QED BY <2>1, <2>2
<1>3. SilentBefore' BY <1>2 DEF SilentBefore
<1>4. SaidOnce'
  <2>1. \A e \in Deltas : \A c \in deltas[e].after : c \in Deltas BY DEF TriageType, DeltaStates
  <2> QED BY <1>1, <1>2, <2>1 DEF SaidOnce
<1>10. Unended'
  <2>1. (store' = store /\ ends' = ends) \/ ends' = "line"
    BY DEF Midnight, ScrubReplaces, ScrubDies, ScrubReads
  <2>2. CASE ends' # "row" BY <2>2 DEF Unended
  <2>3. CASE store' = store /\ ends = "row"
    <3>1. PICK e \in Deltas : e = Last(store).by
      <4>1. store \in Seq(Rows) /\ store # <<>> BY <2>3 DEF TriageType
      <4>2. Last(store) \in Rows BY <4>1 DEF Last
      <4> QED BY <4>2 DEF Rows
    <3>2. deltas[e].pc = "dead" /\ Says(e) = {} BY <2>3, <3>1 DEF Unended
    <3>3. deltas'[e].pc = "dead" /\ Says(e)' = {} /\ e = Last(store').by BY <1>1, <1>2, <2>3, <3>1, <3>2
    <3> QED BY <3>3 DEF Unended
  <2> QED BY <2>1, <2>2, <2>3
<1>5. \A rows \in Seq(Rows) : \A r \in Range(rows) : RowSaid(r)' <=> RowSaid(r)
  <2> SUFFICES ASSUME NEW rows \in Seq(Rows), NEW r \in Range(rows) PROVE RowSaid(r)' <=> RowSaid(r)
    OBVIOUS
  <2>1. PICK n \in 1..Len(rows) : r = rows[n] BY DEF Range
  <2>2. r \in Rows BY <2>1
  <2>3. r.by \in Deltas BY <2>2 DEF Rows
  <2>4. Says(r.by)' = Says(r.by) BY <1>2, <2>3
  <2> QED BY <1>1, <2>4 DEF RowSaid
<1>6. store \in Seq(Rows) /\ scrub.rows \in Seq(Rows) BY DEF TriageType
<1>7. Range(<<>>) = {} /\ ~NoScrub.running /\ NoScrub.rows = <<>> BY DEF Range, NoScrub
<1>8. CASE Midnight \/ ScrubReplaces \/ ScrubDies
  <2>1. \/ scrub' = scrub /\ store' = store
        \/ scrub' = NoScrub /\ (store' = store \/ (store' = scrub.rows /\ scrub.running))
    BY <1>8 DEF Midnight, ScrubReplaces, ScrubDies
  <2>2. RowsSaid' BY <1>5, <1>6, <1>7, <2>1 DEF RowsSaid
  <2>3. ASSUME NEW d \in Deltas, ~deltas'[d].raced
        PROVE  /\ Says(d)' \subseteq Own(d, store')
               /\ scrub'.running => Says(d)' \subseteq Own(d, scrub'.rows)
    <3>1. /\ Says(d)' = Says(d) /\ Says(d) \subseteq Own(d, store)
          /\ scrub.running => Says(d) \subseteq Own(d, scrub.rows)
      BY <1>1, <1>2, <2>3 DEF SaidKept
    <3>2. CASE scrub' = scrub /\ store' = store BY <3>1, <3>2
    <3>3. CASE scrub' = NoScrub /\ store' = store BY <1>7, <3>1, <3>3
    <3>4. CASE scrub' = NoScrub /\ store' = scrub.rows /\ scrub.running BY <1>7, <3>1, <3>4
    <3> QED BY <2>1, <3>2, <3>3, <3>4
  <2>4. SaidKept' BY <2>3 DEF SaidKept
  <2> QED BY <1>3, <1>4, <1>10, <2>2, <2>4
<1>9. ASSUME NEW forks \in SUBSET DOMAIN Parent, ScrubReads(forks) PROVE RowsSaid' /\ SaidKept'
  <2> DEFINE new == Scrubbed(store, forks)
  <2>1. store' = store /\ scrub'.rows = new BY <1>9 DEF ScrubReads
  <2>2. /\ DOMAIN new = DOMAIN store /\ new \in Seq(Rows) /\ KeysOf(new) = KeysOf(store)
        /\ \A n \in DOMAIN store : new[n].key = store[n].key /\ new[n].by = store[n].by
    BY <1>6, ScrubFacts
  <2> HIDE DEF new
  <2>3. \A r \in Range(new) : RowSaid(r)'
    <3> SUFFICES ASSUME NEW r \in Range(new) PROVE RowSaid(r)' OBVIOUS
    <3>1. \A q \in Range(store) : RowSaid(q)' BY <1>5, <1>6 DEF RowsSaid
    <3>2. PICK n \in DOMAIN new : r = new[n] BY DEF Range
    <3>3. PICK q \in Range(store) : q = store[n] BY <2>2, <3>2 DEF Range
    <3>4. RowSaid(q)' /\ q.by = r.by /\ q.key = r.key BY <2>2, <3>1, <3>2, <3>3
    <3> QED BY <3>4 DEF RowSaid
  <2>4. RowsSaid' BY <1>5, <1>6, <2>1, <2>3 DEF RowsSaid
  <2>6. \A d \in Deltas : Own(d, store) \subseteq Own(d, new)
    <3> SUFFICES ASSUME NEW d \in Deltas, NEW k \in Keys, NEW n \in DOMAIN store,
                        store[n].by = d, store[n].key = k
                 PROVE  \E r \in Range(new) : r.by = d /\ r.key = k
      BY DEF Own, Range
    <3>1. new[n] \in Range(new) BY <2>2 DEF Range
    <3> QED BY <2>2, <3>1
  <2>5. SaidKept' BY <1>1, <1>2, <2>1, <2>6 DEF SaidKept
  <2> QED BY <2>4, <2>5
<1> QED BY <1>3, <1>4, <1>8, <1>9, <1>10

(* Every step of the deltas, the scrub and the date keeps TriageInv. *)
LEMMA TriageStep == ASSUME TriageAssumption, TriageInv, TriageNext PROVE TriageInv'
<1>1. TriageType' BY TriageTypeStep DEF TriageInv
<1>2. ASSUME NEW d \in Deltas, DeltaStep(d) 
      PROVE  SilentBefore' /\ RowsSaid' /\ Unended' /\ SaidKept' /\ SaidOnce'
  BY <1>2, SilentStep, RowsStep, UnendedStep, KeptStep, OnceStep DEF TriageInv
<1> QED BY <1>1, <1>2, ScrubStep DEF TriageNext, TriageInv

(* What the deltas know of the store and the inbox makes the two agree. *)
LEMMA TriageAgrees == ASSUME TriageInv PROVE InboxAgreesWithStore
<1> USE DEF TriageInv
<1>1. \A s \in Range(inbox) : s.by \in Deltas /\ s.keys \subseteq Keys
  <2> SUFFICES ASSUME NEW s \in Range(inbox) PROVE s.by \in Deltas /\ s.keys \subseteq Keys OBVIOUS
  <2>1. s \in Sections BY DEF TriageType, Range
  <2> QED BY <2>1 DEF Sections
<1>2. \A s \in Range(inbox) : s.keys \subseteq Says(s.by) BY <1>1 DEF Says
<1>3. StoredIsShown
  <2> SUFFICES ASSUME NEW n \in DOMAIN store, deltas[store[n].by].pc \notin {"inbox", "dead"}
               PROVE  \E s \in Range(inbox) : s.by = store[n].by /\ store[n].key \in s.keys
    BY DEF StoredIsShown
  <2>1. RowSaid(store[n]) BY DEF RowsSaid, Range
  <2>2. store[n].key \in Says(store[n].by) BY <2>1 DEF RowSaid
  <2> QED BY <2>2 DEF Says
<1>4. ShownIsStored BY <1>1, <1>2, OwnInStore DEF ShownIsStored, SaidKept
<1>5. ShownOnce
  <2> SUFFICES ASSUME NEW s \in Range(inbox), NEW t \in Range(inbox),
                      s.by \in deltas[t.by].after, ~deltas[s.by].raced
               PROVE  s.keys \cap t.keys = {}
    BY DEF ShownOnce
  <2>1. Says(s.by) \cap Says(t.by) = {} BY <1>1 DEF SaidOnce
  <2> QED BY <1>2, <2>1
<1> QED BY <1>3, <1>4, <1>5 DEF InboxAgreesWithStore

(* TriageInv holds throughout. *)
THEOREM TriageInvariance == Spec => []TriageInv
<1> USE TriageAssumption
<1>1. Init => TriageInv BY TriageStart DEF Init
<1>2. TriageInv /\ [Next]_vars => TriageInv'
  <2> SUFFICES ASSUME TriageInv, [Next]_vars PROVE TriageInv' OBVIOUS
  <2>1. CASE TriageNext BY <2>1, TriageStep
  <2>2. CASE UNCHANGED triageVars
    BY <2>2 DEF triageVars, TriageInv, TriageType, SilentBefore, RowsSaid, Unended, SaidKept,
       SaidOnce, Own,
       RowSaid, Says, Settled
  <2>3. ASSUME NEW w \in Weeklies, WeeklyStep(w) PROVE UNCHANGED triageVars
    BY <2>3 DEF WeeklyStep, ReadWeek, OpusStarts, OpusEnds, PreflightFails, Preflight, DispatchRaises,
       StartRound, PrintsBanner, PrintsWide, WritesSol, InRound, CodexEnds, Judge, Fold, WeeklyDies
  <2> QED BY <2>1, <2>2, <2>3 DEF Next, vars
<1> QED BY <1>1, <1>2, PTL DEF Spec

(* triage_delta's "only new evidence": the store and the inbox agree. *)
THEOREM InboxAgreesTheorem == Spec => []InboxAgreesWithStore
<1>1. TriageInv => InboxAgreesWithStore BY TriageAgrees
<1> QED BY <1>1, TriageInvariance, PTL

-----------------------------------------------------------------------------
(* The weekly runs. *)

Verdicts == {"ok", "no-completion", "auth", "error", "credit", "empty-no-error", "spawn-death"}
Places == {"off", "preflight", "round", "running", "verdict", "ended"}
Exits == {"none", "codex", "97", "98", "1"}
Sessions == Weeklies \X Nat
Ends == [complete : BOOLEAN, final : BOOLEAN, error : {"none", "auth", "other"}, credits : BOOLEAN]
RoundStates ==
  [mark : Nat, wide : BOOLEAN, wrote : BOOLEAN, rollout : Ends, kind : {"none"} \union Verdicts,
   read : {<<>>} \union Sessions]
WeeklyStates ==
  [pc : {"off", "lanes", "ended", "died"}, today : 0..MaxDay, length : Nat, input : SUBSET Nat,
   opus : {"off", "start", "running", "ended"}, sol : Places,
   rounds : Seq(RoundStates), records : Nat, exit : Exits,
   readOpus : SUBSET Weeklies, readSol : {0} \union Weeklies, report : {0} \union Weeklies]
DirStates == [opus : SUBSET Weeklies, sol : {0} \union Weeklies, report : {0} \union Weeklies,
              log : Seq(Sessions), wide : BOOLEAN]
WeeklyType ==
  /\ weeklies \in [Weeklies -> WeeklyStates]
  /\ dirs \in [0..MaxDay -> DirStates]

(* Keep, said of any sequence of sections. *)
KeepIn(sections, n, today) ==
  \E m \in 1..n :
    /\ m <= n /\ sections[m].headed /\ \A k \in m + 1..n : ~sections[k].headed
    /\ Recent(sections[m], today)

(* A run's input holds every section of the inbox it read that a recent one
   heads, and what was added since bears no earlier day. *)
Lengths ==
  \A w \in Weeklies : weeklies[w].pc # "off" =>
    /\ weeklies[w].length <= Len(inbox)
    /\ \A n \in 1..weeklies[w].length : KeepIn(inbox, n, weeklies[w].today) => n \in weeklies[w].input
    /\ weeklies[w].today <= day
    /\ \A n \in (weeklies[w].length + 1)..Len(inbox) : inbox[n].on >= weeklies[w].today

(* Where its sol lane stands, given where the run stands. *)
Stands(s) ==
  /\ s.pc = "off" => s = NoWeekly
  /\ s.pc = "ended" => s.sol \in {"off", "ended"}
  /\ s.sol \in {"off", "preflight"} => s.rounds = <<>> /\ s.exit = "none" /\ s.records = 0
  /\ s.sol = "round" => s.exit = "none" /\ Len(s.rounds) < Attempts
  /\ s.sol \in {"running", "verdict"} =>
       s.exit = "none" /\ Len(s.rounds) \in 1..Attempts /\ s.rounds[Len(s.rounds)].kind = "none"
  /\ s.sol = "running" => s.rounds[Len(s.rounds)].rollout = Unfinished
Stage == \A w \in Weeklies : Stands(weeklies[w])

(* A verdict "ok" and one on the account end the dispatch; only the last round
   can be without one; and each other round left its record. *)
Failures(rounds) == {k \in 1..Len(rounds) : rounds[k].kind \notin {"ok", "none"}}
Told(s) ==
  /\ Len(s.rounds) <= Attempts
  /\ s.exit = "codex" => Len(s.rounds) > 0 /\ s.rounds[Len(s.rounds)].kind = "ok"
  /\ \A k \in 1..Len(s.rounds) :
       /\ s.rounds[k].kind = "ok" => k = Len(s.rounds) /\ s.exit = "codex"
       /\ s.rounds[k].kind \in Infrastructure => k = Len(s.rounds) /\ s.exit = "97"
       /\ s.rounds[k].kind = "none" => k = Len(s.rounds) /\ Undecided(s)
  /\ s.records = Cardinality(Failures(s.rounds)) + (IF s.exit = "97" /\ Len(s.rounds) = 0 THEN 1 ELSE 0)
RoundsOf == \A w \in Weeklies : Told(weeklies[w])

(* The runs of a day: who can have written what lies in its directory. *)
OfDay(ws, m) == {v \in Weeklies : ws[v].pc # "off" /\ ws[v].today = m}
(* A directory holds texts of its day's runs only, and so does what was read
   from it; a round that wrote its answer left a file there. *)
Wrote(s) == \E k \in DOMAIN s.rounds : s.rounds[k].wrote
Authors ==
  /\ \A m \in 0..MaxDay :
       /\ dirs[m].opus \subseteq OfDay(weeklies, m)
       /\ {dirs[m].sol, dirs[m].report} \subseteq {0} \union OfDay(weeklies, m)
  /\ \A w \in Weeklies : LET s == weeklies[w] IN
       /\ s.readOpus \subseteq OfDay(weeklies, s.today)
       /\ {s.readSol, s.report} \subseteq {0} \union OfDay(weeklies, s.today)
       /\ Wrote(s) => dirs[s.today].sol # 0 /\ (s.pc = "ended" => s.readSol # 0)

(* The log of a day holds banners of rounds of that day's runs, each behind the
   mark of its round and before those of the run's later rounds. *)
Placed(ws, e, j) ==
  /\ e[2] \in 1..Len(ws[e[1]].rounds)
  /\ ws[e[1]].rounds[e[2]].mark < j
  /\ \A i \in (e[2] + 1)..Len(ws[e[1]].rounds) : j <= ws[e[1]].rounds[i].mark
Banners ==
  /\ \A m \in 0..MaxDay : \A j \in 1..Len(dirs[m].log) :
       dirs[m].log[j][1] \in OfDay(weeklies, m) /\ Placed(weeklies, dirs[m].log[j], j)
  /\ \A w \in Weeklies : \A k \in 1..Len(weeklies[w].rounds) :
       weeklies[w].rounds[k].mark <= Len(dirs[weeklies[w].today].log)

(* A round passed on an answer of its own or of another run of the day; and a
   run that is alone has its own rounds judged. *)
Answer(ws, e) == e[2] \in 1..Len(ws[e[1]].rounds) /\ Answered(ws[e[1]].rounds[e[2]].rollout)
Lonely(ws, w) == \A v \in OfDay(ws, ws[w].today) : v = w
Judged ==
  \A w \in Weeklies : \A k \in 1..Len(weeklies[w].rounds) : LET r == weeklies[w].rounds[k] IN
    /\ r.kind = "ok" => /\ r.read \in Sessions /\ Answer(weeklies, r.read)
                        /\ \/ r.read = <<w, k>>
                           \/ r.read[1] # w /\ r.read[1] \in OfDay(weeklies, weeklies[w].today)
    /\ (/\ r.kind # "none" /\ ~r.wide /\ Lonely(weeklies, w)
        /\ <<w, k>> \in Range(dirs[weeklies[w].today].log)) => r.kind = Classify(r.rollout)

WeeklyInv == WeeklyType /\ Lengths /\ Stage /\ RoundsOf /\ Authors /\ Banners /\ Judged

-----------------------------------------------------------------------------
(* The steps of a weekly run. *)

(* The last element of a sequence is changed. *)
LEMMA EditFacts ==
  ASSUME NEW S, NEW s \in Seq(S), Len(s) > 0, NEW e \in S
  PROVE  /\ [s EXCEPT ![Len(s)] = e] \in Seq(S) /\ Len([s EXCEPT ![Len(s)] = e]) = Len(s)
         /\ [s EXCEPT ![Len(s)] = e][Len(s)] = e
         /\ \A n \in 1..(Len(s) - 1) : [s EXCEPT ![Len(s)] = e][n] = s[n]
<1>1. PICK n \in Nat : n = Len(s) /\ s \in [1..n -> S] /\ n > 0 OBVIOUS
<1>2. [s EXCEPT ![n] = e] \in [1..n -> S] BY <1>1
<1>3. [s EXCEPT ![n] = e] \in Seq(S) /\ Len([s EXCEPT ![n] = e]) = n BY <1>1, <1>2
<1>4. [s EXCEPT ![n] = e][n] = e
  <2>1. n \in 1..n BY <1>1
  <2> QED BY <1>1, <2>1
<1>5. \A k \in 1..(n - 1) : [s EXCEPT ![n] = e][k] = s[k]
  <2>1. \A m \in Nat : \A k \in 1..(m - 1) : k \in 1..m /\ k # m OBVIOUS
  <2>2. \A k \in 1..(n - 1) : k \in 1..n /\ k # n BY <1>1, <2>1
  <2> QED BY <1>1, <2>2
<1> QED BY <1>1, <1>3, <1>4, <1>5

(* The sol lane's part of a run's state, changed. *)
SolTo(s, sol, rounds, exit, records) ==
  [s EXCEPT !.sol = sol, !.rounds = rounds, !.exit = exit, !.records = records]
Same(s, x) ==
  /\ x.pc = s.pc /\ x.opus = s.opus /\ x.today = s.today /\ x.length = s.length /\ x.input = s.input
  /\ x.readOpus = s.readOpus /\ x.readSol = s.readSol /\ x.report = s.report
LEMMA SolToFacts ==
  ASSUME NEW s \in WeeklyStates, NEW sol \in Places, NEW rounds \in Seq(RoundStates),
         NEW exit \in Exits, NEW records \in Nat, NEW x, x = SolTo(s, sol, rounds, exit, records)
  PROVE  /\ x \in WeeklyStates /\ Same(s, x)
         /\ x.sol = sol /\ x.rounds = rounds /\ x.exit = exit /\ x.records = records
<1>1. x \in WeeklyStates BY ZenonT(60) DEF WeeklyStates, SolTo
<1> QED BY <1>1 DEF WeeklyStates, SolTo, Same

(* The current round, when there is one. *)
LEMMA CurrentFacts ==
  ASSUME WeeklyType, Stage, NEW w \in Weeklies, weeklies[w].sol \in {"running", "verdict"}
  PROVE  /\ Number(w) \in 1..Attempts /\ Number(w) = Len(weeklies[w].rounds)
         /\ Current(w) \in RoundStates /\ Current(w) = weeklies[w].rounds[Number(w)]
         /\ Current(w).kind = "none" /\ weeklies[w].exit = "none"
         /\ weeklies[w].pc \notin {"off", "ended"}
<1>1. Stands(weeklies[w]) BY DEF Stage
<1>2. weeklies[w].rounds \in Seq(RoundStates) BY DEF WeeklyType, WeeklyStates
<1>3. /\ Number(w) \in 1..Attempts /\ Number(w) = Len(weeklies[w].rounds)
      /\ Current(w) = weeklies[w].rounds[Number(w)] /\ Current(w).kind = "none"
      /\ weeklies[w].exit = "none" /\ weeklies[w].pc \notin {"off", "ended"}
  BY <1>1 DEF Stands, Number, Current, NoWeekly
<1>4. Current(w) \in RoundStates BY <1>2, <1>3
<1> QED BY <1>3, <1>4

(* The current round is changed, and with it the rest of the lane. *)
Onward(w, e, sol, exit, records) ==
  /\ weeklies'[w] \in WeeklyStates /\ weeklies' = [weeklies EXCEPT ![w] = weeklies'[w]]
  /\ Same(weeklies[w], weeklies'[w]) /\ UNCHANGED triageVars
  /\ Len(weeklies'[w].rounds) = Number(w) /\ weeklies'[w].rounds[Number(w)] = e
  /\ \A k \in 1..(Number(w) - 1) : weeklies'[w].rounds[k] = weeklies[w].rounds[k]
  /\ weeklies'[w].sol = sol /\ weeklies'[w].exit = exit /\ weeklies'[w].records = records
LEMMA OnwardFacts ==
  ASSUME WeeklyType, Stage, NEW w \in Weeklies, weeklies[w].sol \in {"running", "verdict"},
         NEW e \in RoundStates, NEW sol \in Places, NEW exit \in Exits, NEW records \in Nat,
         weeklies' = [weeklies EXCEPT ![w] =
                        SolTo(weeklies[w], sol, [weeklies[w].rounds EXCEPT ![Number(w)] = e], exit, records)],
         UNCHANGED triageVars
  PROVE  Onward(w, e, sol, exit, records)
<1> DEFINE s == weeklies[w] n == Number(w) rounds == [s.rounds EXCEPT ![n] = e]
           x == SolTo(s, sol, rounds, exit, records)
<1>1. n \in 1..Attempts /\ n = Len(s.rounds) BY CurrentFacts
<1>2. s \in WeeklyStates /\ s.rounds \in Seq(RoundStates) BY DEF WeeklyType, WeeklyStates
<1>3. n > 0 BY <1>1 DEF Attempts
<1>4. /\ rounds \in Seq(RoundStates) /\ Len(rounds) = n /\ rounds[n] = e
      /\ \A k \in 1..(n - 1) : rounds[k] = s.rounds[k]
  BY <1>1, <1>2, <1>3, EditFacts
<1> HIDE DEF rounds
<1>5. /\ x \in WeeklyStates /\ Same(s, x)
      /\ x.sol = sol /\ x.rounds = rounds /\ x.exit = exit /\ x.records = records
  BY <1>2, <1>4, SolToFacts
<1>6. weeklies' = [weeklies EXCEPT ![w] = x] BY DEF rounds
<1> HIDE DEF x
<1>7. weeklies'[w] = x /\ weeklies' = [weeklies EXCEPT ![w] = weeklies'[w]] BY <1>6 DEF WeeklyType
<1> QED BY <1>4, <1>5, <1>7 DEF Onward

(* A directory keeps its shape. *)
LEMMA DirFacts ==
  ASSUME WeeklyType, NEW w \in Weeklies
  PROVE  /\ weeklies[w] \in WeeklyStates /\ weeklies[w].today \in 0..MaxDay
         /\ Dir(w) = dirs[weeklies[w].today] /\ Dir(w) \in DirStates /\ Dir(w).log \in Seq(Sessions)
BY DEF WeeklyType, WeeklyStates, Dir, DirStates

(* A round begins. *)
LEMMA RoundStarts ==
  ASSUME TriageAssumption, WeeklyAssumption, WeeklyType, NEW w \in Weeklies, StartRound(w)
  PROVE  /\ weeklies'[w] \in WeeklyStates /\ weeklies' = [weeklies EXCEPT ![w] = weeklies'[w]]
         /\ Same(weeklies[w], weeklies'[w]) /\ UNCHANGED <<triageVars, dirs>>
         /\ weeklies[w].sol = "round" /\ weeklies'[w].sol = "running"
         /\ Len(weeklies'[w].rounds) = Number(w) + 1 /\ Number(w) \in Nat
         /\ weeklies'[w].rounds[Number(w) + 1] =
              [mark |-> Len(Dir(w).log), wide |-> Dir(w).wide, wrote |-> FALSE,
               rollout |-> Unfinished, kind |-> "none", read |-> <<>>]
         /\ \A k \in 1..Number(w) : weeklies'[w].rounds[k] = weeklies[w].rounds[k]
         /\ weeklies'[w].exit = weeklies[w].exit /\ weeklies'[w].records = weeklies[w].records
<1> DEFINE s == weeklies[w]
           e == [mark |-> Len(Dir(w).log), wide |-> Dir(w).wide, wrote |-> FALSE,
                 rollout |-> Unfinished, kind |-> "none", read |-> <<>>]
           rounds == Append(s.rounds, e)
           x == SolTo(s, "running", rounds, s.exit, s.records)
<1>1. s \in WeeklyStates /\ s.rounds \in Seq(RoundStates) /\ s.exit \in Exits /\ s.records \in Nat
  BY DEF WeeklyType, WeeklyStates
<1>2. e \in RoundStates
  <2>1. Len(Dir(w).log) \in Nat /\ Dir(w).wide \in BOOLEAN BY DirFacts DEF DirStates
  <2>2. Unfinished \in Ends BY DEF Unfinished, Ends
  <2> QED BY <2>1, <2>2 DEF RoundStates
<1>3. s.sol = "round" /\ UNCHANGED <<triageVars, dirs>>
      /\ weeklies' = [weeklies EXCEPT ![w] = [s EXCEPT !.sol = "running", !.rounds = rounds]]
  BY DEF StartRound, WeeklyType
<1>4. Number(w) = Len(s.rounds) /\ Number(w) \in Nat BY <1>1 DEF Number
<1>5. /\ rounds \in Seq(RoundStates) /\ Len(rounds) = Number(w) + 1 /\ rounds[Number(w) + 1] = e
      /\ \A k \in 1..Number(w) : rounds[k] = s.rounds[k]
  <2> HIDE DEF e
  <2> QED BY <1>1, <1>2, <1>4, AppendFacts
<1> HIDE DEF rounds
<1>6. [s EXCEPT !.sol = "running", !.rounds = rounds] = x BY <1>1, <1>5 DEF WeeklyStates, SolTo
<1>7. /\ x \in WeeklyStates /\ Same(s, x)
      /\ x.sol = "running" /\ x.rounds = rounds /\ x.exit = s.exit /\ x.records = s.records
  <2>1. "running" \in Places BY DEF Places
  <2> QED BY <1>1, <1>5, <2>1, SolToFacts
<1> HIDE DEF x
<1>8. weeklies'[w] = x /\ weeklies' = [weeklies EXCEPT ![w] = weeklies'[w]]
  BY <1>3, <1>6 DEF WeeklyType
<1> QED BY <1>3, <1>4, <1>5, <1>7, <1>8

(* codex writes its answer's file, or ends. *)
LEMMA SolWritten ==
  ASSUME WeeklyType, Stage, NEW w \in Weeklies, WritesSol(w)
  PROVE  /\ Onward(w, [Current(w) EXCEPT !.wrote = TRUE], "running", weeklies[w].exit, weeklies[w].records)
         /\ weeklies[w].sol = "running"
         /\ dirs' = [dirs EXCEPT ![weeklies[w].today] = [@ EXCEPT !.sol = w]]
<1> DEFINE s == weeklies[w] e == [Current(w) EXCEPT !.wrote = TRUE]
           rounds == [s.rounds EXCEPT ![Number(w)] = e]
<1>1. s.sol = "running" /\ UNCHANGED triageVars BY DEF WritesSol
<1>2. e \in RoundStates BY <1>1, CurrentFacts DEF RoundStates
<1>3. s \in WeeklyStates /\ s.exit \in Exits /\ s.records \in Nat /\ "running" \in Places
  BY DEF WeeklyType, WeeklyStates, Places
<1>4. weeklies' = [weeklies EXCEPT ![w] = [s EXCEPT !.rounds = rounds]]
  BY DEF WritesSol, InRound, WeeklyType
<1>5. [s EXCEPT !.rounds = rounds] = SolTo(s, "running", rounds, s.exit, s.records)
  <2> HIDE DEF rounds
  <2> QED BY <1>1, <1>3 DEF WeeklyStates, SolTo
<1>6. dirs' = [dirs EXCEPT ![weeklies[w].today] = [@ EXCEPT !.sol = w]] BY DEF WritesSol
<1>7. weeklies' = [weeklies EXCEPT ![w] =
                     SolTo(s, "running", [s.rounds EXCEPT ![Number(w)] = e], s.exit, s.records)]
  BY <1>4, <1>5
<1> HIDE DEF e, rounds
<1>8. Onward(w, e, "running", s.exit, s.records)
  BY <1>1, <1>2, <1>3, <1>7, OnwardFacts
<1> QED BY <1>1, <1>6, <1>8 DEF e

LEMMA CodexOver ==
  ASSUME WeeklyAssumption, WeeklyType, Stage, NEW w \in Weeklies, NEW r \in Rollouts, CodexEnds(w, r)
  PROVE  /\ Onward(w, [Current(w) EXCEPT !.rollout = r], "verdict", weeklies[w].exit, weeklies[w].records)
         /\ weeklies[w].sol = "running" /\ dirs' = dirs
<1> DEFINE s == weeklies[w] e == [Current(w) EXCEPT !.rollout = r]
           rounds == [s.rounds EXCEPT ![Number(w)] = e]
<1>1. s.sol = "running" /\ UNCHANGED <<triageVars, dirs>> BY DEF CodexEnds
<1>2. e \in RoundStates BY <1>1, CurrentFacts DEF RoundStates, WeeklyAssumption, Ends
<1>3. s \in WeeklyStates /\ s.exit \in Exits /\ s.records \in Nat /\ "verdict" \in Places
  BY DEF WeeklyType, WeeklyStates, Places
<1>4. weeklies' = [weeklies EXCEPT ![w] = [s EXCEPT !.sol = "verdict", !.rounds = rounds]]
  BY DEF CodexEnds, WeeklyType
<1>5. [s EXCEPT !.sol = "verdict", !.rounds = rounds] = SolTo(s, "verdict", rounds, s.exit, s.records)
  <2> HIDE DEF rounds
  <2> QED BY <1>1, <1>3 DEF WeeklyStates, SolTo
<1>7. weeklies' = [weeklies EXCEPT ![w] =
                     SolTo(s, "verdict", [s.rounds EXCEPT ![Number(w)] = e], s.exit, s.records)]
  BY <1>4, <1>5
<1> HIDE DEF e, rounds
<1>8. Onward(w, e, "verdict", s.exit, s.records)
  BY <1>1, <1>2, <1>3, <1>7, OnwardFacts
<1> QED BY <1>1, <1>8 DEF e

(* The session a verdict is read from. *)
ReadFrom(w, j) == IF j = 0 THEN <<>> ELSE Dir(w).log[j]
LEMMA RoundJudged ==
  ASSUME WeeklyAssumption, WeeklyType, Stage, NEW w \in Weeklies, NEW j, Judge(w, j)
  PROVE  /\ Onward(w, [Current(w) EXCEPT !.kind = Kind(w, j), !.read = ReadFrom(w, j)],
                   IF ExitOf(Kind(w, j), Number(w)) = "none" THEN "round" ELSE "ended",
                   ExitOf(Kind(w, j), Number(w)),
                   IF Kind(w, j) = "ok" THEN weeklies[w].records ELSE weeklies[w].records + 1)
         /\ weeklies[w].sol = "verdict" /\ dirs' = dirs /\ j \in Found(w) /\ Kind(w, j) \in Verdicts
<1> DEFINE s == weeklies[w] kind == Kind(w, j)
           e == [Current(w) EXCEPT !.kind = kind, !.read = ReadFrom(w, j)]
           rounds == [s.rounds EXCEPT ![Number(w)] = e]
           exit == ExitOf(kind, Number(w))
           sol == IF exit = "none" THEN "round" ELSE "ended"
           records == IF kind = "ok" THEN s.records ELSE s.records + 1
<1>1. s.sol = "verdict" /\ UNCHANGED <<triageVars, dirs>> /\ j \in Found(w) BY DEF Judge
<1>2. kind \in Verdicts BY DEF Kind, Classify, Verdicts
<1>3. s \in WeeklyStates /\ s.exit \in Exits /\ s.records \in Nat BY DEF WeeklyType, WeeklyStates
<1>4. e \in RoundStates
  <2>1. j = 0 \/ j \in DOMAIN Dir(w).log BY <1>1 DEF Found, After
  <2>2. ReadFrom(w, j) \in {<<>>} \union Sessions BY <2>1, DirFacts DEF ReadFrom
  <2> HIDE DEF kind
  <2> QED BY <1>1, <1>2, <2>2, CurrentFacts DEF RoundStates
<1>5. exit \in Exits BY DEF ExitOf, Exits
<1>6. sol \in Places BY DEF Places
<1>7. records \in Nat BY <1>3
<1>8. weeklies' = [weeklies EXCEPT ![w] = [s EXCEPT !.rounds = rounds, !.exit = exit, !.sol = sol,
                                                    !.records = records]]
  BY DEF Judge, ReadFrom, WeeklyType
<1> HIDE DEF kind, exit, sol, records
<1>9. [s EXCEPT !.rounds = rounds, !.exit = exit, !.sol = sol, !.records = records]
        = SolTo(s, sol, rounds, exit, records)
  <2> HIDE DEF rounds
  <2> QED BY <1>3, ZenonT(60) DEF WeeklyStates, SolTo
<1>10. weeklies' = [weeklies EXCEPT ![w] =
                      SolTo(s, sol, [s.rounds EXCEPT ![Number(w)] = e], exit, records)]
  BY <1>8, <1>9
<1> HIDE DEF e, rounds
<1>11. Onward(w, e, sol, exit, records)
  BY <1>1, <1>4, <1>5, <1>6, <1>7, <1>10, OnwardFacts
<1> QED BY <1>1, <1>2, <1>11 DEF e, sol, exit, records, kind

(* codex prints: its banner, once, or a character of several bytes. *)
LEMMA Printed1 ==
  ASSUME WeeklyAssumption, WeeklyType, Stage, NEW w \in Weeklies, PrintsBanner(w) \/ PrintsWide(w)
  PROVE  /\ weeklies' = weeklies /\ UNCHANGED triageVars /\ weeklies[w].sol = "running"
         /\ dirs' \in [0..MaxDay -> DirStates]
         /\ \A m \in 0..MaxDay : /\ m # weeklies[w].today => dirs'[m] = dirs[m]
                                 /\ dirs'[m].opus = dirs[m].opus /\ dirs'[m].sol = dirs[m].sol
                                 /\ dirs'[m].report = dirs[m].report
         /\ \/ Dir(w).log = dirs'[weeklies[w].today].log
            \/ /\ <<w, Number(w)>> \notin Range(Dir(w).log)
               /\ dirs'[weeklies[w].today].log = Append(Dir(w).log, <<w, Number(w)>>)
<1> DEFINE t == weeklies[w].today
<1>1. t \in 0..MaxDay /\ Dir(w) = dirs[t] /\ Dir(w).log \in Seq(Sessions)
      /\ dirs \in [0..MaxDay -> DirStates]
  BY DirFacts DEF WeeklyType
<1>2. CASE PrintsBanner(w)
  <2> DEFINE log == Append(Dir(w).log, <<w, Number(w)>>) y == [dirs[t] EXCEPT !.log = log]
  <2>1. weeklies[w].sol = "running" /\ <<w, Number(w)>> \notin Range(Dir(w).log)
        /\ UNCHANGED <<triageVars, weeklies>> /\ dirs' = [dirs EXCEPT ![t] = y]
    BY <1>1, <1>2 DEF PrintsBanner
  <2>2. Number(w) \in Nat BY <2>1, CurrentFacts DEF Attempts
  <2>3. <<w, Number(w)>> \in Sessions BY <2>2 DEF Sessions
  <2>4. log \in Seq(Sessions) BY <1>1, <2>3
  <2> HIDE DEF log
  <2>5. y \in DirStates /\ y.log = log /\ y.opus = dirs[t].opus /\ y.sol = dirs[t].sol
        /\ y.report = dirs[t].report
    BY <1>1, <2>4 DEF DirStates
  <2> HIDE DEF y
  <2>6. dirs'[t] = y /\ dirs' \in [0..MaxDay -> DirStates]
        /\ \A m \in 0..MaxDay : m # t => dirs'[m] = dirs[m]
    BY <1>1, <2>1, <2>5
  <2> QED BY <2>1, <2>5, <2>6 DEF log
<1>3. CASE PrintsWide(w)
  <2> DEFINE y == [dirs[t] EXCEPT !.wide = TRUE]
  <2>1. weeklies[w].sol = "running" /\ UNCHANGED <<triageVars, weeklies>> /\ dirs' = [dirs EXCEPT ![t] = y]
    BY <1>1, <1>3 DEF PrintsWide
  <2>2. y \in DirStates /\ y.log = dirs[t].log /\ y.opus = dirs[t].opus /\ y.sol = dirs[t].sol
        /\ y.report = dirs[t].report
    BY <1>1 DEF DirStates
  <2> HIDE DEF y
  <2>3. dirs'[t] = y /\ dirs' \in [0..MaxDay -> DirStates]
        /\ \A m \in 0..MaxDay : m # t => dirs'[m] = dirs[m]
    BY <1>1, <2>1, <2>2
  <2> QED BY <1>1, <2>1, <2>2, <2>3
<1> QED BY <1>2, <1>3

(* What a weekly run's step writes. *)
LEMMA WeeklyWrites ==
  ASSUME TriageAssumption, WeeklyAssumption, TriageType, WeeklyType, Stage,
         NEW w \in Weeklies, WeeklyStep(w)
  PROVE  /\ weeklies'[w] \in WeeklyStates
         /\ weeklies' = [weeklies EXCEPT ![w] = weeklies'[w]]
         /\ dirs' \in [0..MaxDay -> DirStates]
         /\ UNCHANGED triageVars
         /\ \A m \in 0..MaxDay : m # weeklies[w].today => dirs'[m] = dirs[m]
<1> DEFINE Goal == /\ weeklies'[w] \in WeeklyStates
                   /\ weeklies' = [weeklies EXCEPT ![w] = weeklies'[w]]
                   /\ dirs' \in [0..MaxDay -> DirStates]
                   /\ UNCHANGED triageVars
                   /\ \A m \in 0..MaxDay : m # weeklies[w].today => dirs'[m] = dirs[m]
           s == weeklies[w]
           t == weeklies[w].today
<1>1. ASSUME NEW x \in WeeklyStates, weeklies' = [weeklies EXCEPT ![w] = x],
             NEW y \in DirStates, dirs' = [dirs EXCEPT ![t] = y], UNCHANGED triageVars
      PROVE  Goal
  BY <1>1 DEF WeeklyType
<1>2. ASSUME NEW x \in WeeklyStates, weeklies' = [weeklies EXCEPT ![w] = x], dirs' = dirs,
             UNCHANGED triageVars
      PROVE  Goal
  BY <1>2 DEF WeeklyType
<1>3. s \in WeeklyStates /\ t \in 0..MaxDay /\ dirs[t] \in DirStates /\ Dir(w) = dirs[t]
      /\ weeklies \in [Weeklies -> WeeklyStates] /\ dirs \in [0..MaxDay -> DirStates]
  BY DEF WeeklyType, WeeklyStates, Dir
<1>4. CASE ReadWeek(w)
  <2> DEFINE input == {n \in DOMAIN inbox : Keep(n, day)}
             x == IF input = {} THEN [s EXCEPT !.pc = "ended", !.today = day, !.length = Len(inbox)]
                  ELSE [s EXCEPT !.pc = "lanes", !.today = day, !.length = Len(inbox), !.input = input,
                                 !.opus = "start", !.sol = "preflight"]
  <2>1. input \subseteq Nat /\ day \in 0..MaxDay /\ Len(inbox) \in Nat BY DEF TriageType
  <2>2. weeklies' = [weeklies EXCEPT ![w] = x] /\ dirs' = dirs /\ UNCHANGED triageVars
    BY <1>4 DEF ReadWeek
  <2> HIDE DEF input
  <2>3. x \in WeeklyStates BY <1>3, <2>1 DEF WeeklyStates, Places, Exits
  <2> HIDE DEF x
  <2> QED BY <1>2, <2>2, <2>3
<1>5. CASE OpusStarts(w)
  <2> DEFINE x == [s EXCEPT !.opus = "running"] y == [dirs[t] EXCEPT !.opus = {}]
  <2>1. x \in WeeklyStates /\ y \in DirStates BY <1>3 DEF WeeklyStates, DirStates
  <2>2. weeklies' = [weeklies EXCEPT ![w] = x] /\ dirs' = [dirs EXCEPT ![t] = y] /\ UNCHANGED triageVars
    BY <1>5 DEF OpusStarts
  <2> HIDE DEF x, y
  <2> QED BY <1>1, <2>1, <2>2
<1>6. ASSUME NEW answers \in BOOLEAN, OpusEnds(w, answers) PROVE Goal
  <2> DEFINE x == [s EXCEPT !.opus = "ended"]
             y == [dirs[t] EXCEPT !.opus = IF answers THEN @ \union {w} ELSE @]
  <2>1. x \in WeeklyStates /\ y \in DirStates BY <1>3 DEF WeeklyStates, DirStates
  <2>2. weeklies' = [weeklies EXCEPT ![w] = x] /\ dirs' = [dirs EXCEPT ![t] = y] /\ UNCHANGED triageVars
    BY <1>6 DEF OpusEnds
  <2> HIDE DEF x, y
  <2> QED BY <1>1, <2>1, <2>2
<1>7. CASE PreflightFails(w)
  <2> DEFINE x == [s EXCEPT !.sol = "ended", !.exit = "97", !.records = 1]
  <2>1. x \in WeeklyStates BY <1>3 DEF WeeklyStates, Places, Exits
  <2>2. weeklies' = [weeklies EXCEPT ![w] = x] /\ dirs' = dirs /\ UNCHANGED triageVars
    BY <1>3, <1>7 DEF PreflightFails
  <2> HIDE DEF x
  <2> QED BY <1>2, <2>1, <2>2
<1>8. CASE Preflight(w)
  <2> DEFINE x == [s EXCEPT !.sol = "round"]
  <2>1. x \in WeeklyStates BY <1>3 DEF WeeklyStates, Places, Exits
  <2>2. weeklies' = [weeklies EXCEPT ![w] = x] /\ dirs' = dirs /\ UNCHANGED triageVars
    BY <1>3, <1>8 DEF Preflight
  <2> HIDE DEF x
  <2> QED BY <1>2, <2>1, <2>2
<1>9. CASE DispatchRaises(w)
  <2> DEFINE x == [s EXCEPT !.sol = "ended", !.exit = "1"]
  <2>1. x \in WeeklyStates BY <1>3 DEF WeeklyStates, Places, Exits
  <2>2. weeklies' = [weeklies EXCEPT ![w] = x] /\ dirs' = dirs /\ UNCHANGED triageVars
    BY <1>3, <1>9 DEF DispatchRaises
  <2> HIDE DEF x
  <2> QED BY <1>2, <2>1, <2>2
<1>10. CASE StartRound(w)
  <2>1. weeklies'[w] \in WeeklyStates /\ weeklies' = [weeklies EXCEPT ![w] = weeklies'[w]]
        /\ UNCHANGED <<triageVars, dirs>>
    BY <1>10, RoundStarts
  <2> QED BY <1>3, <2>1
<1>13. CASE WritesSol(w)
  <2> DEFINE y == [dirs[t] EXCEPT !.sol = w]
  <2>1. y \in DirStates BY <1>3 DEF DirStates
  <2>2. weeklies'[w] \in WeeklyStates /\ weeklies' = [weeklies EXCEPT ![w] = weeklies'[w]]
        /\ UNCHANGED triageVars /\ dirs' = [dirs EXCEPT ![t] = y]
    BY <1>3, <1>13, SolWritten DEF Onward
  <2> HIDE DEF y
  <2> QED BY <1>1, <2>1, <2>2
<1>14. ASSUME NEW r \in Rollouts, CodexEnds(w, r) PROVE Goal
  BY <1>3, <1>14, CodexOver DEF Onward
<1>15. ASSUME NEW j, Judge(w, j) PROVE Goal
  BY <1>3, <1>15, RoundJudged DEF Onward
<1>16. CASE PrintsBanner(w) \/ PrintsWide(w)
  <2>1. weeklies' = weeklies /\ UNCHANGED triageVars /\ dirs' \in [0..MaxDay -> DirStates]
        /\ \A m \in 0..MaxDay : m # t => dirs'[m] = dirs[m]
    BY <1>16, Printed1
  <2>2. weeklies' = [weeklies EXCEPT ![w] = weeklies'[w]] BY <1>3, <2>1
  <2> QED BY <1>3, <2>1, <2>2
<1>11. ASSUME NEW writes \in BOOLEAN, Fold(w, writes) PROVE Goal
  <2> DEFINE x == [s EXCEPT !.pc = "ended", !.readOpus = Dir(w).opus, !.readSol = Dir(w).sol,
                            !.report = IF writes THEN w ELSE Dir(w).report]
             y == [dirs[t] EXCEPT !.report = IF writes THEN w ELSE @]
  <2>1. x \in WeeklyStates /\ y \in DirStates BY <1>3, ZenonT(60) DEF WeeklyStates, DirStates
  <2>2. weeklies' = [weeklies EXCEPT ![w] = x] /\ dirs' = [dirs EXCEPT ![t] = y] /\ UNCHANGED triageVars
    BY <1>11 DEF Fold
  <2> HIDE DEF x, y
  <2> QED BY <1>1, <2>1, <2>2
<1>12. CASE WeeklyDies(w)
  <2> DEFINE x == [s EXCEPT !.pc = "died"]
  <2>1. x \in WeeklyStates BY <1>3 DEF WeeklyStates, Places, Exits
  <2>2. weeklies' = [weeklies EXCEPT ![w] = x] /\ dirs' = dirs /\ UNCHANGED triageVars
    BY <1>3, <1>12 DEF WeeklyDies
  <2> HIDE DEF x
  <2> QED BY <1>2, <2>1, <2>2
<1> QED BY <1>4, <1>5, <1>6, <1>7, <1>8, <1>9, <1>10, <1>11, <1>12, <1>13, <1>14, <1>15, <1>16 DEF WeeklyStep

(* A run looks at the inbox: the section numbers it may need are its input. *)
LEMMA WeekRead ==
  ASSUME TriageType, WeeklyType, Stage, NEW w \in Weeklies, ReadWeek(w)
  PROVE  /\ weeklies[w] = NoWeekly /\ dirs' = dirs
         /\ weeklies'[w].today = day /\ weeklies'[w].length = Len(inbox)
         /\ \A n \in 1..Len(inbox) : Keep(n, day) => n \in weeklies'[w].input
         /\ \/ weeklies'[w].pc = "ended" /\ weeklies'[w].sol = "off"
            \/ weeklies'[w].pc = "lanes" /\ weeklies'[w].sol = "preflight"
         /\ weeklies'[w].rounds = <<>> /\ weeklies'[w].records = 0 /\ weeklies'[w].exit = "none"
         /\ weeklies'[w].readOpus = {} /\ weeklies'[w].readSol = 0 /\ weeklies'[w].report = 0
<1> DEFINE s == weeklies[w]
           input == {n \in DOMAIN inbox : Keep(n, day)}
           x == IF input = {} THEN [s EXCEPT !.pc = "ended", !.today = day, !.length = Len(inbox)]
                ELSE [s EXCEPT !.pc = "lanes", !.today = day, !.length = Len(inbox), !.input = input,
                               !.opus = "start", !.sol = "preflight"]
<1>1. s = NoWeekly BY DEF ReadWeek, Stage, Stands
<1>2. weeklies'[w] = x /\ dirs' = dirs BY DEF ReadWeek, WeeklyType
<1>3. DOMAIN inbox = 1..Len(inbox) BY DEF TriageType
<1>4. \A n \in 1..Len(inbox) : Keep(n, day) => n \in input BY <1>3
<1>5. x.input = input
  <2> HIDE DEF input
  <2> QED BY <1>1 DEF NoWeekly
<1>6. /\ x.today = day /\ x.length = Len(inbox)
      /\ \/ x.pc = "ended" /\ x.sol = "off"
         \/ x.pc = "lanes" /\ x.sol = "preflight"
      /\ x.rounds = <<>> /\ x.records = 0 /\ x.exit = "none"
      /\ x.readOpus = {} /\ x.readSol = 0 /\ x.report = 0
  <2> HIDE DEF input
  <2> QED BY <1>1 DEF NoWeekly
<1> HIDE DEF x, input
<1> QED BY <1>1, <1>2, <1>4, <1>5, <1>6

(* The opus lane moves, or the shell dies: the sol lane and what was read stay. *)
LEMMA OpusMoved ==
  ASSUME WeeklyType, NEW w \in Weeklies,
         OpusStarts(w) \/ WeeklyDies(w) \/ \E answers \in BOOLEAN : OpusEnds(w, answers)
  PROVE  /\ weeklies[w].opus # "off" \/ weeklies[w].pc = "lanes"
         /\ weeklies'[w].pc = weeklies[w].pc \/ weeklies'[w].pc = "died"
         /\ weeklies'[w].sol = weeklies[w].sol /\ weeklies'[w].rounds = weeklies[w].rounds
         /\ weeklies'[w].records = weeklies[w].records /\ weeklies'[w].exit = weeklies[w].exit
         /\ weeklies'[w].today = weeklies[w].today /\ weeklies'[w].length = weeklies[w].length
         /\ weeklies'[w].input = weeklies[w].input /\ weeklies'[w].readOpus = weeklies[w].readOpus
         /\ weeklies'[w].readSol = weeklies[w].readSol /\ weeklies'[w].report = weeklies[w].report
         /\ \/ dirs' = dirs
            \/ /\ dirs'[weeklies[w].today].opus \subseteq dirs[weeklies[w].today].opus \union {w}
               /\ dirs'[weeklies[w].today].sol = dirs[weeklies[w].today].sol
               /\ dirs'[weeklies[w].today].report = dirs[weeklies[w].today].report
               /\ dirs'[weeklies[w].today].log = dirs[weeklies[w].today].log
<1> USE DEF WeeklyType
<1> DEFINE s == weeklies[w] t == weeklies[w].today
<1>1. s \in WeeklyStates /\ t \in 0..MaxDay /\ dirs[t] \in DirStates BY DEF WeeklyStates
<1>2. CASE OpusStarts(w)
  <2>1. weeklies'[w] = [s EXCEPT !.opus = "running"] /\ dirs'[t] = [dirs[t] EXCEPT !.opus = {}]
    BY <1>1, <1>2 DEF OpusStarts
  <2> QED BY <1>1, <1>2, <2>1 DEF OpusStarts, WeeklyStates, DirStates
<1>3. ASSUME NEW answers \in BOOLEAN, OpusEnds(w, answers)
      PROVE  /\ weeklies'[w] = [s EXCEPT !.opus = "ended"] /\ s.opus # "off"
             /\ dirs'[t] = [dirs[t] EXCEPT !.opus = IF answers THEN dirs[t].opus \union {w} ELSE dirs[t].opus]
  BY <1>1, <1>3 DEF OpusEnds
<1>4. CASE \E answers \in BOOLEAN : OpusEnds(w, answers)
  <2>1. PICK answers \in BOOLEAN : OpusEnds(w, answers) BY <1>4
  <2> QED BY <1>1, <1>3, <2>1, ZenonT(60) DEF WeeklyStates, DirStates
<1>5. CASE WeeklyDies(w)
  <2>1. weeklies'[w] = [s EXCEPT !.pc = "died"] /\ dirs' = dirs BY <1>1, <1>5 DEF WeeklyDies
  <2> QED BY <1>1, <1>5, <2>1 DEF WeeklyDies, WeeklyStates
<1> QED BY <1>2, <1>4, <1>5

(* The dispatch moves without a verdict. *)
LEMMA SolMoved ==
  ASSUME WeeklyType, NEW w \in Weeklies, PreflightFails(w) \/ Preflight(w) \/ DispatchRaises(w)
  PROVE  /\ weeklies'[w].pc = weeklies[w].pc /\ weeklies'[w].opus = weeklies[w].opus
         /\ weeklies'[w].rounds = weeklies[w].rounds /\ weeklies'[w].today = weeklies[w].today
         /\ weeklies'[w].length = weeklies[w].length /\ weeklies'[w].input = weeklies[w].input
         /\ weeklies'[w].readOpus = weeklies[w].readOpus /\ weeklies'[w].readSol = weeklies[w].readSol
         /\ weeklies'[w].report = weeklies[w].report
         /\ dirs' = dirs
         /\ \/ /\ weeklies[w].sol = "preflight" /\ weeklies'[w].sol = "ended"
               /\ weeklies'[w].exit = "97" /\ weeklies'[w].records = 1
            \/ /\ weeklies[w].sol = "preflight" /\ weeklies'[w].sol = "round"
               /\ weeklies'[w].exit = weeklies[w].exit /\ weeklies'[w].records = weeklies[w].records
            \/ /\ weeklies[w].sol \in {"preflight", "round", "verdict"} /\ weeklies'[w].sol = "ended"
               /\ weeklies'[w].exit = "1" /\ weeklies'[w].records = weeklies[w].records
<1> USE DEF WeeklyType
<1> DEFINE s == weeklies[w]
<1>1. s \in WeeklyStates OBVIOUS
<1>2. CASE PreflightFails(w)
  <2>1. weeklies'[w] = [s EXCEPT !.sol = "ended", !.exit = "97", !.records = 1] /\ dirs' = dirs
    BY <1>1, <1>2 DEF PreflightFails
  <2> QED BY <1>1, <1>2, <2>1 DEF PreflightFails, WeeklyStates
<1>3. CASE Preflight(w)
  <2>1. weeklies'[w] = [s EXCEPT !.sol = "round"] /\ dirs' = dirs BY <1>1, <1>3 DEF Preflight
  <2> QED BY <1>1, <1>3, <2>1 DEF Preflight, WeeklyStates
<1>4. CASE DispatchRaises(w)
  <2>1. weeklies'[w] = [s EXCEPT !.sol = "ended", !.exit = "1"] /\ dirs' = dirs
    BY <1>1, <1>4 DEF DispatchRaises
  <2> QED BY <1>1, <1>4, <2>1 DEF DispatchRaises, WeeklyStates
<1> QED BY <1>2, <1>3, <1>4

(* The fold reads the directory, and both lanes are over. *)
LEMMA Folded ==
  ASSUME WeeklyType, NEW w \in Weeklies, \E writes \in BOOLEAN : Fold(w, writes)
  PROVE  /\ weeklies[w].pc = "lanes" /\ weeklies[w].sol = "ended" /\ weeklies'[w].pc = "ended"
         /\ weeklies'[w].sol = weeklies[w].sol /\ weeklies'[w].rounds = weeklies[w].rounds
         /\ weeklies'[w].records = weeklies[w].records /\ weeklies'[w].exit = weeklies[w].exit
         /\ weeklies'[w].today = weeklies[w].today /\ weeklies'[w].length = weeklies[w].length
         /\ weeklies'[w].input = weeklies[w].input
         /\ weeklies'[w].readOpus = dirs[weeklies[w].today].opus
         /\ weeklies'[w].readSol = dirs[weeklies[w].today].sol
         /\ weeklies'[w].report \in {w, dirs[weeklies[w].today].report}
         /\ dirs'[weeklies[w].today].opus = dirs[weeklies[w].today].opus
         /\ dirs'[weeklies[w].today].sol = dirs[weeklies[w].today].sol
         /\ dirs'[weeklies[w].today].log = dirs[weeklies[w].today].log
         /\ dirs'[weeklies[w].today].report \in {w, dirs[weeklies[w].today].report}
<1> DEFINE s == weeklies[w] t == weeklies[w].today
<1>7. PICK writes \in BOOLEAN : Fold(w, writes) OBVIOUS
<1>1. s \in WeeklyStates /\ t \in 0..MaxDay /\ dirs[t] \in DirStates /\ Dir(w) = dirs[t]
      /\ weeklies \in [Weeklies -> WeeklyStates] /\ dirs \in [0..MaxDay -> DirStates]
  BY DEF WeeklyType, WeeklyStates, Dir
<1>2. weeklies'[w] = [s EXCEPT !.pc = "ended", !.readOpus = Dir(w).opus, !.readSol = Dir(w).sol,
                               !.report = IF writes THEN w ELSE Dir(w).report]
  BY <1>1, <1>7 DEF Fold
<1>3. dirs'[t] = [dirs[t] EXCEPT !.report = IF writes THEN w ELSE dirs[t].report] BY <1>1, <1>7 DEF Fold
<1>4. s.pc = "lanes" /\ s.sol = "ended" BY <1>7 DEF Fold
<1>5. /\ weeklies'[w].pc = "ended" /\ weeklies'[w].readOpus = dirs[t].opus
      /\ weeklies'[w].readSol = dirs[t].sol
      /\ weeklies'[w].report \in {w, dirs[t].report}
      /\ weeklies'[w].sol = s.sol /\ weeklies'[w].rounds = s.rounds
      /\ weeklies'[w].records = s.records /\ weeklies'[w].exit = s.exit
      /\ weeklies'[w].today = s.today /\ weeklies'[w].length = s.length
      /\ weeklies'[w].input = s.input
  BY <1>1, <1>2 DEF WeeklyStates
<1>6. dirs'[t].opus = dirs[t].opus /\ dirs'[t].sol = dirs[t].sol /\ dirs'[t].log = dirs[t].log
      /\ dirs'[t].report \in {w, dirs[t].report}
  BY <1>1, <1>3 DEF DirStates
<1> QED BY <1>4, <1>5, <1>6

-----------------------------------------------------------------------------
(* What a step does to the rounds and to the log. *)

(* A round keeps its place in the log; a verdict is final, and so is a rollout. *)
Keeps(r, x) ==
  /\ x.mark = r.mark /\ x.wide = r.wide
  /\ r.kind # "none" => x = r
  /\ r.rollout # Unfinished => x.rollout = r.rollout

(* A round that has just begun. *)
Fresh(w, x) ==
  /\ x.mark = Len(Dir(w).log) /\ x.wrote = FALSE /\ x.kind = "none" /\ dirs' = dirs
  /\ weeklies[w].pc # "off" /\ weeklies'[w].today = weeklies[w].today

(* The current round becomes e. *)
Moves(w, e) ==
  /\ weeklies[w].sol \in {"running", "verdict"}
  /\ Len(weeklies'[w].rounds) = Number(w) /\ weeklies'[w].rounds[Number(w)] = e
  /\ \A k \in 1..(Number(w) - 1) : weeklies'[w].rounds[k] = weeklies[w].rounds[k]
  /\ e.mark = Current(w).mark /\ e.wide = Current(w).wide
  /\ e.kind = "none" \/ \E j : Judge(w, j)
  /\ e.rollout = Current(w).rollout \/ weeklies[w].sol = "running"
LEMMA RoundsMove ==
  ASSUME TriageAssumption, WeeklyAssumption, TriageType, WeeklyType, Stage,
         NEW w \in Weeklies, WeeklyStep(w)
  PROVE  \/ weeklies'[w].rounds = weeklies[w].rounds
         \/ StartRound(w)
         \/ \E e : Moves(w, e)
<1>1. CASE ReadWeek(w) BY <1>1, WeekRead DEF NoWeekly
<1>2. CASE OpusStarts(w) \/ WeeklyDies(w) \/ \E answers \in BOOLEAN : OpusEnds(w, answers)
  BY <1>2, OpusMoved
<1>3. CASE PreflightFails(w) \/ Preflight(w) \/ DispatchRaises(w) BY <1>3, SolMoved
<1>4. CASE \E writes \in BOOLEAN : Fold(w, writes) BY <1>4, Folded
<1>5. CASE PrintsBanner(w) \/ PrintsWide(w) BY <1>5, Printed1
<1>6. CASE WritesSol(w)
  <2> DEFINE c == Current(w) e == [c EXCEPT !.wrote = TRUE]
  <2>1. weeklies[w].sol = "running" BY <1>6, SolWritten
  <2>2. c \in RoundStates /\ c.kind = "none" BY <2>1, CurrentFacts
  <2>3. e.mark = c.mark /\ e.wide = c.wide /\ e.kind = "none" /\ e.rollout = c.rollout
    <3> HIDE DEF c
    <3> QED BY <2>2 DEF RoundStates
  <2>4. Onward(w, e, "running", weeklies[w].exit, weeklies[w].records) BY <1>6, SolWritten
  <2> HIDE DEF e
  <2>5. Moves(w, e) BY <2>1, <2>3, <2>4 DEF Onward, Moves
  <2> QED BY <2>5
<1>7. ASSUME NEW r \in Rollouts, CodexEnds(w, r) PROVE \E e : Moves(w, e)
  <2> DEFINE c == Current(w) e == [c EXCEPT !.rollout = r]
  <2>1. weeklies[w].sol = "running" BY <1>7, CodexOver
  <2>2. c \in RoundStates /\ c.kind = "none" BY <2>1, CurrentFacts
  <2>3. e.mark = c.mark /\ e.wide = c.wide /\ e.kind = "none"
    <3> HIDE DEF c
    <3> QED BY <2>2 DEF RoundStates
  <2>4. Onward(w, e, "verdict", weeklies[w].exit, weeklies[w].records) BY <1>7, CodexOver
  <2> HIDE DEF e
  <2>5. Moves(w, e) BY <2>1, <2>3, <2>4 DEF Onward, Moves
  <2> QED BY <2>5
<1>8. ASSUME NEW j, Judge(w, j) PROVE \E e : Moves(w, e)
  <2> DEFINE c == Current(w) kind == Kind(w, j) read == ReadFrom(w, j)
             e == [c EXCEPT !.kind = kind, !.read = read]
             exit == ExitOf(kind, Number(w))
             sol == IF exit = "none" THEN "round" ELSE "ended"
             records == IF kind = "ok" THEN weeklies[w].records ELSE weeklies[w].records + 1
  <2>1. weeklies[w].sol = "verdict" BY <1>8, RoundJudged
  <2>2. c \in RoundStates BY <2>1, CurrentFacts
  <2>3. e.mark = c.mark /\ e.wide = c.wide /\ e.rollout = c.rollout
    <3> HIDE DEF c, kind, read
    <3> QED BY <2>2 DEF RoundStates
  <2>4. Onward(w, e, sol, exit, records) BY <1>8, RoundJudged
  <2> HIDE DEF e, sol, exit, records
  <2>5. Moves(w, e) BY <1>8, <2>1, <2>3, <2>4 DEF Onward, Moves
  <2> QED BY <2>5
<1> QED BY <1>1, <1>2, <1>3, <1>4, <1>5, <1>6, <1>7, <1>8 DEF WeeklyStep

(* What becomes of run v's rounds in a step of run w. *)
RoundsStay(w, v) ==
  LET old == weeklies[v].rounds then == weeklies'[v].rounds IN
  /\ Len(old) \in Nat /\ Len(then) \in Nat /\ Len(old) <= Len(then)
  /\ \A k \in 1..Len(old) : Keeps(old[k], then[k])
  /\ \A k \in 1..Len(then) : k \in 1..Len(old) \/ (v = w /\ Fresh(w, then[k]))
  /\ \A k \in 1..Len(old) : (old[k].kind = "none" /\ then[k].kind # "none") =>
       v = w /\ k = Number(w) /\ (\E j : Judge(w, j))
LEMMA RoundsKeep ==
  ASSUME TriageAssumption, WeeklyAssumption, TriageType, WeeklyType, Stage,
         NEW w \in Weeklies, WeeklyStep(w), NEW v \in Weeklies
  PROVE  RoundsStay(w, v)
<1> DEFINE old == weeklies[v].rounds then == weeklies'[v].rounds n == Number(w)
           Goal == RoundsStay(w, v)
<1>1. weeklies'[w] \in WeeklyStates /\ weeklies' = [weeklies EXCEPT ![w] = weeklies'[w]] BY WeeklyWrites
<1>2. /\ old \in Seq(RoundStates) /\ then \in Seq(RoundStates)
      /\ v # w => weeklies'[v] = weeklies[v]
  BY <1>1 DEF WeeklyType, WeeklyStates
<1>3. Len(old) \in Nat /\ Len(then) \in Nat BY <1>2
<1>4. ASSUME then = old PROVE Goal
  <2>1. \A r : Keeps(r, r) BY DEF Keeps
  <2> QED BY <1>3, <1>4, <2>1 DEF RoundsStay
<1>5. ASSUME v = w, StartRound(w) PROVE Goal
  <2> DEFINE e == [mark |-> Len(Dir(w).log), wide |-> Dir(w).wide, wrote |-> FALSE,
                   rollout |-> Unfinished, kind |-> "none", read |-> <<>>]
  <2>1. /\ Same(weeklies[w], weeklies'[w]) /\ dirs' = dirs /\ weeklies[w].sol = "round"
        /\ Len(then) = n + 1 /\ n \in Nat /\ n = Len(old) /\ then[n + 1] = e
        /\ \A k \in 1..n : then[k] = old[k]
    BY <1>5, RoundStarts DEF Number
  <2>2. weeklies[w].pc # "off" BY <2>1 DEF Stage, Stands, NoWeekly
  <2>3. e.mark = Len(Dir(w).log) /\ e.wrote = FALSE /\ e.kind = "none" OBVIOUS
  <2> HIDE DEF e
  <2>4. Fresh(w, then[n + 1]) BY <2>1, <2>2, <2>3 DEF Fresh, Same
  <2>5. \A r : Keeps(r, r) BY DEF Keeps
  <2>6. \A k \in 1..(n + 1) : k \in 1..n \/ k = n + 1 BY <2>1
  <2>7. n + 1 \in Nat /\ n <= n + 1 BY <2>1
  <2>8. \A k \in 1..n : Keeps(old[k], then[k]) /\ old[k].kind = then[k].kind BY <2>1, <2>5
  <2>9. \A k \in 1..(n + 1) : k \in 1..n \/ (v = w /\ Fresh(w, then[k])) BY <1>5, <2>4, <2>6
  <2>10. /\ Len(old) <= Len(then)
         /\ \A k \in 1..Len(old) : Keeps(old[k], then[k]) /\ old[k].kind = then[k].kind
         /\ \A k \in 1..Len(then) : k \in 1..Len(old) \/ (v = w /\ Fresh(w, then[k]))
    <3> HIDE DEF old, then, n
    <3> QED BY <2>1, <2>7, <2>8, <2>9
  <2>11. Len(old) \in Nat /\ Len(then) \in Nat BY <1>3
  <2>12. \A k \in 1..Len(old) : (old[k].kind = "none" /\ then[k].kind # "none") =>
           v = w /\ k = Number(w) /\ (\E j : Judge(w, j))
    BY <2>10
  <2> HIDE DEF n
  <2> QED BY <2>10, <2>11, <2>12, Zenon DEF RoundsStay
<1>6. ASSUME v = w, NEW e, Moves(w, e) PROVE Goal
  <2> DEFINE c == Current(w)
  <2>1. weeklies[w].sol \in {"running", "verdict"} BY <1>6 DEF Moves
  <2>2. n \in 1..Attempts /\ n = Len(old) /\ c = old[n] /\ c.kind = "none" BY <1>6, <2>1, CurrentFacts
  <2>3. n \in Nat /\ \A k \in 1..n : k \in 1..(n - 1) \/ k = n BY <2>2 DEF Attempts
  <2>4. /\ Len(then) = n /\ then[n] = e /\ \A k \in 1..(n - 1) : then[k] = old[k]
        /\ e.mark = c.mark /\ e.wide = c.wide
        /\ e.kind = "none" \/ \E j : Judge(w, j)
        /\ e.rollout = c.rollout \/ weeklies[w].sol = "running"
    BY <1>6 DEF Moves
  <2>5. weeklies[w].sol = "running" => c.rollout = Unfinished BY <1>6, <2>2 DEF Stage, Stands
  <2>6. Keeps(c, e) BY <2>2, <2>4, <2>5 DEF Keeps
  <2>7. \A r : Keeps(r, r) BY DEF Keeps
  <2>8. /\ Len(old) <= Len(then)
        /\ \A k \in 1..Len(old) : Keeps(old[k], then[k])
        /\ \A k \in 1..Len(then) : k \in 1..Len(old)
    <3> HIDE DEF old, then, n, c
    <3> QED BY <2>2, <2>3, <2>4, <2>6, <2>7
  <2>9. \A k \in 1..Len(old) : (old[k].kind = "none" /\ then[k].kind # "none") =>
          v = w /\ k = n /\ (\E j : Judge(w, j))
    <3>1. \A k \in 1..Len(old) : k # n => then[k] = old[k]
      <4> HIDE DEF old, then, n
      <4> QED BY <2>2, <2>3, <2>4
    <3>2. then[n].kind = "none" \/ \E j : Judge(w, j) BY <2>4
    <3> HIDE DEF old, then, n
    <3> QED BY <1>6, <3>1, <3>2
  <2>10. Len(old) \in Nat /\ Len(then) \in Nat BY <1>3
  <2> QED BY <2>8, <2>9, <2>10, Zenon DEF RoundsStay
<1> QED BY <1>2, <1>4, <1>5, <1>6, RoundsMove

(* The log of a day stays, or gets a banner of the current round. *)
LogGrows(w) ==
  /\ PrintsBanner(w) /\ weeklies' = weeklies /\ weeklies[w].sol = "running"
  /\ dirs'[weeklies[w].today].log = Append(Dir(w).log, <<w, Number(w)>>)
  /\ \A m \in 0..MaxDay : m # weeklies[w].today => dirs'[m].log = dirs[m].log
LEMMA LogsKeep ==
  ASSUME TriageAssumption, WeeklyAssumption, TriageType, WeeklyType, Stage,
         NEW w \in Weeklies, WeeklyStep(w)
  PROVE  (\A m \in 0..MaxDay : dirs'[m].log = dirs[m].log) \/ LogGrows(w)
<1> DEFINE t == weeklies[w].today
<1>1. t \in 0..MaxDay /\ Dir(w) = dirs[t] /\ dirs \in [0..MaxDay -> DirStates]
      /\ \A m \in 0..MaxDay : m # t => dirs'[m] = dirs[m]
  BY DirFacts, WeeklyWrites DEF WeeklyType
<1>2. SUFFICES dirs'[t].log = dirs[t].log \/ LogGrows(w) BY <1>1
<1>3. CASE ReadWeek(w) BY <1>3, WeekRead
<1>4. CASE OpusStarts(w) \/ WeeklyDies(w) \/ \E answers \in BOOLEAN : OpusEnds(w, answers)
  BY <1>4, OpusMoved
<1>5. CASE PreflightFails(w) \/ Preflight(w) \/ DispatchRaises(w) BY <1>5, SolMoved
<1>6. CASE \E writes \in BOOLEAN : Fold(w, writes) BY <1>6, Folded
<1>7. CASE StartRound(w) BY <1>7, RoundStarts
<1>8. CASE WritesSol(w)
  <2>1. dirs'[t] = [dirs[t] EXCEPT !.sol = w] BY <1>1, <1>8, SolWritten
  <2> QED BY <1>1, <2>1 DEF DirStates
<1>9. ASSUME NEW r \in Rollouts, CodexEnds(w, r) PROVE dirs' = dirs BY <1>9, CodexOver
<1>10. ASSUME NEW j, Judge(w, j) PROVE dirs' = dirs BY <1>10, RoundJudged
<1>11. CASE PrintsWide(w)
  <2>1. dirs'[t] = [dirs[t] EXCEPT !.wide = TRUE] BY <1>1, <1>11 DEF PrintsWide
  <2> QED BY <1>1, <2>1 DEF DirStates
<1>12. CASE PrintsBanner(w)
  <2>1. weeklies' = weeklies /\ weeklies[w].sol = "running"
        /\ (Dir(w).log = dirs'[t].log \/ dirs'[t].log = Append(Dir(w).log, <<w, Number(w)>>))
    BY <1>12, Printed1
  <2> QED BY <1>1, <1>12, <2>1 DEF LogGrows
<1> QED BY <1>3, <1>4, <1>5, <1>6, <1>7, <1>8, <1>9, <1>10, <1>11, <1>12 DEF WeeklyStep

(* A run that has begun keeps its day and what it took from the inbox. *)
LEMMA RunsOn ==
  ASSUME TriageAssumption, WeeklyAssumption, TriageType, WeeklyType, Stage,
         NEW w \in Weeklies, WeeklyStep(w), ~ReadWeek(w)
  PROVE  /\ weeklies[w].pc # "off" /\ weeklies'[w].pc # "off"
         /\ weeklies'[w].today = weeklies[w].today /\ weeklies'[w].length = weeklies[w].length
         /\ weeklies'[w].input = weeklies[w].input
<1> DEFINE On == /\ weeklies'[w].today = weeklies[w].today /\ weeklies'[w].length = weeklies[w].length
                 /\ weeklies'[w].input = weeklies[w].input
                 /\ weeklies'[w].pc \in {weeklies[w].pc, "died", "ended"}
<1>1. CASE OpusStarts(w) \/ WeeklyDies(w) \/ \E answers \in BOOLEAN : OpusEnds(w, answers)
  <2>1. On BY <1>1, OpusMoved
  <2>2. weeklies[w].opus # "off" \/ weeklies[w].pc = "lanes" BY <1>1, OpusMoved
  <2>3. weeklies[w].pc # "off" BY <2>2 DEF Stage, Stands, NoWeekly
  <2> QED BY <2>1, <2>3
<1>2. CASE PreflightFails(w) \/ Preflight(w) \/ DispatchRaises(w)
  <2>1. On /\ weeklies[w].sol \in {"preflight", "round", "verdict"} BY <1>2, SolMoved
  <2>2. weeklies[w].pc # "off" BY <2>1 DEF Stage, Stands, NoWeekly
  <2> QED BY <2>1, <2>2
<1>3. CASE \E writes \in BOOLEAN : Fold(w, writes) BY <1>3, Folded
<1>4. CASE StartRound(w)
  <2>1. Same(weeklies[w], weeklies'[w]) /\ weeklies[w].sol = "round" BY <1>4, RoundStarts
  <2>2. weeklies[w].pc # "off" BY <2>1 DEF Stage, Stands, NoWeekly
  <2> QED BY <2>1, <2>2 DEF Same
<1>5. ASSUME Same(weeklies[w], weeklies'[w]), weeklies[w].sol \in {"running", "verdict"}
      PROVE  On /\ weeklies[w].pc # "off" /\ weeklies'[w].pc # "off"
  BY <1>5, CurrentFacts DEF Same
<1>6. CASE WritesSol(w) BY <1>5, <1>6, SolWritten DEF Onward
<1>7. ASSUME NEW r \in Rollouts, CodexEnds(w, r) PROVE On /\ weeklies[w].pc # "off" /\ weeklies'[w].pc # "off"
  BY <1>5, <1>7, CodexOver DEF Onward
<1>8. ASSUME NEW j, Judge(w, j) PROVE On /\ weeklies[w].pc # "off" /\ weeklies'[w].pc # "off"
  BY <1>5, <1>8, RoundJudged DEF Onward
<1>9. CASE PrintsBanner(w) \/ PrintsWide(w) BY <1>9, Printed1, CurrentFacts
<1> QED BY <1>1, <1>2, <1>3, <1>4, <1>6, <1>7, <1>8, <1>9 DEF WeeklyStep

(* The runs of a day. *)
LEMMA DayKeeps ==
  ASSUME TriageAssumption, WeeklyAssumption, TriageType, WeeklyType, Stage,
         NEW w \in Weeklies, WeeklyStep(w)
  PROVE  /\ \A m : OfDay(weeklies, m) \subseteq OfDay(weeklies', m)
         /\ \A v \in Weeklies :
              /\ weeklies[v].pc # "off" => weeklies'[v].pc # "off" /\ weeklies'[v].today = weeklies[v].today
              /\ weeklies'[v].today \in 0..MaxDay
<1>1. weeklies'[w] \in WeeklyStates /\ weeklies' = [weeklies EXCEPT ![w] = weeklies'[w]] BY WeeklyWrites
<1>2. \A v \in Weeklies : /\ v # w => weeklies'[v] = weeklies[v]
                          /\ weeklies'[v] \in WeeklyStates
  BY <1>1 DEF WeeklyType
<1>3. weeklies[w].pc # "off" => weeklies'[w].pc # "off" /\ weeklies'[w].today = weeklies[w].today
  BY RunsOn DEF ReadWeek
<1>4. \A v \in Weeklies :
        /\ weeklies[v].pc # "off" => weeklies'[v].pc # "off" /\ weeklies'[v].today = weeklies[v].today
        /\ weeklies'[v].today \in 0..MaxDay
  BY <1>2, <1>3 DEF WeeklyStates
<1> QED BY <1>4 DEF OfDay

-----------------------------------------------------------------------------
(* The weekly runs in the first state, and each part of their invariant in a
   step. *)

LEMMA WeeklyStart == ASSUME TriageAssumption, WeeklyAssumption, Init PROVE WeeklyInv
<1> USE DEF Init
<1>1. \A w \in Weeklies : weeklies[w] = NoWeekly OBVIOUS
<1>2. 0 \in 0..MaxDay /\ <<>> \in Seq(RoundStates) /\ Len(<<>>) = 0 /\ <<>> \in Seq(Sessions)
  BY DEF TriageAssumption
<1>3. WeeklyType
  <2>1. NoWeekly \in WeeklyStates BY <1>2 DEF NoWeekly, WeeklyStates, Places, Exits
  <2>2. EmptyDir \in DirStates BY <1>2 DEF EmptyDir, DirStates
  <2> QED BY <2>1, <2>2 DEF WeeklyType
<1>4. Lengths BY <1>1 DEF Lengths, NoWeekly
<1>5. Stage BY <1>1, <1>2 DEF Stage, Stands, NoWeekly
<1>6. RoundsOf
  <2>1. NoWeekly.rounds = <<>> /\ NoWeekly.exit = "none" /\ NoWeekly.records = 0 BY DEF NoWeekly
  <2>2. Failures(<<>>) = {} BY <1>2 DEF Failures
  <2>3. Cardinality(Failures(<<>>)) = 0 BY <2>2, FS_EmptySet
  <2>4. Told(NoWeekly) BY <1>2, <2>1, <2>3 DEF Told, Attempts
  <2> QED BY <1>1, <2>4 DEF RoundsOf
<1>7. Authors BY <1>1 DEF Authors, Wrote, NoWeekly, EmptyDir
<1>8. \A m \in 0..MaxDay : dirs[m].log = <<>> BY DEF EmptyDir
<1>9. \A w \in Weeklies : weeklies[w].rounds = <<>> BY <1>1 DEF NoWeekly
<1>10. \A k \in 1..Len(<<>>) : FALSE BY <1>2
<1>11. Banners BY <1>8, <1>9, <1>10 DEF Banners
<1>12. Judged BY <1>9, <1>10 DEF Judged
<1> QED BY <1>3, <1>4, <1>5, <1>6, <1>7, <1>11, <1>12 DEF WeeklyInv

(* The inbox only grows, by sections that bear the day they were added. *)
LEMMA InboxGrows ==
  ASSUME TriageAssumption, TriageType, NEW d \in Deltas, DeltaStep(d)
  PROVE  /\ Len(inbox) <= Len(inbox')
         /\ \A n \in 1..Len(inbox) : inbox'[n] = inbox[n]
         /\ \A n \in (Len(inbox) + 1)..Len(inbox') : inbox'[n].on = day
<1>1. inbox \in Seq(Sections) /\ Len(inbox) \in Nat BY DEF TriageType
<1>2. ASSUME NEW s, Extends(d, s)
      PROVE  /\ Len(inbox) <= Len(inbox')
             /\ \A n \in 1..Len(inbox) : inbox'[n] = inbox[n]
             /\ \A n \in (Len(inbox) + 1)..Len(inbox') : inbox'[n].on = day
  <2>1. inbox' = Append(inbox, s) /\ s \in Sections /\ s.on = day BY <1>2 DEF Extends
  <2>2. Len(inbox') = Len(inbox) + 1 /\ inbox'[Len(inbox) + 1] = s
        /\ \A n \in 1..Len(inbox) : inbox'[n] = inbox[n]
    BY <1>1, <2>1, AppendFacts
  <2> QED BY <1>1, <2>1, <2>2
<1> QED BY <1>1, <1>2, InboxEffect

(* What heads a section does not change. *)
LEMMA KeepFacts ==
  /\ \A n, t : Keep(n, t) <=> KeepIn(inbox, n, t)
  /\ \A s, x, t : \A n \in Nat : (\A k \in 1..n : x[k] = s[k]) => (KeepIn(x, n, t) <=> KeepIn(s, n, t))
<1>1. \A n, t : Keep(n, t) <=> KeepIn(inbox, n, t) BY DEF Keep, Heads, KeepIn
<1>2. ASSUME NEW s, NEW x, NEW t, NEW n \in Nat, \A k \in 1..n : x[k] = s[k]
      PROVE  KeepIn(x, n, t) <=> KeepIn(s, n, t)
  <2>1. \A m \in 1..n : \A k \in (m + 1)..n : k \in 1..n BY <1>2
  <2> QED BY <1>2, <2>1 DEF KeepIn, Recent
<1> QED BY <1>1, <1>2

LEMMA LengthsStep ==
  ASSUME TriageAssumption, WeeklyAssumption, TriageType, WeeklyType, Stage, Lengths, Next
  PROVE  Lengths'
<1> DEFINE Seen1(ws, in, today, w) ==
      /\ ws[w].length <= Len(in)
      /\ \A n \in 1..ws[w].length : KeepIn(in, n, ws[w].today) => n \in ws[w].input
      /\ ws[w].today <= today
      /\ \A n \in (ws[w].length + 1)..Len(in) : in[n].on >= ws[w].today
<1>1. \A w \in Weeklies : /\ weeklies[w].length \in Nat /\ weeklies[w].today \in Nat
                          /\ weeklies[w].pc # "off" => Seen1(weeklies, inbox, day, w)
  BY DEF Lengths, WeeklyType, WeeklyStates
<1>2. inbox \in Seq(Sections) /\ Len(inbox) \in Nat /\ day \in Nat BY DEF TriageType
<1> SUFFICES ASSUME NEW w \in Weeklies, weeklies'[w].pc # "off" PROVE Seen1(weeklies', inbox', day', w)
  BY DEF Lengths
<1>3. CASE Midnight /\ UNCHANGED <<weeklies, dirs>>
  <2>1. inbox' = inbox /\ day' = day + 1 /\ weeklies' = weeklies BY <1>3 DEF Midnight
  <2> QED BY <1>1, <1>2, <2>1
<1>4. ASSUME NEW d \in Deltas, DeltaStep(d), UNCHANGED <<weeklies, dirs>>
      PROVE  Seen1(weeklies', inbox', day', w)
  <2>1. day' = day /\ inbox' \in Seq(Sections) /\ Len(inbox') \in Nat BY <1>4, DeltaWrites
  <2>2. /\ Len(inbox) <= Len(inbox')
        /\ \A n \in 1..Len(inbox) : inbox'[n] = inbox[n]
        /\ \A n \in (Len(inbox) + 1)..Len(inbox') : inbox'[n].on = day
    BY <1>4, InboxGrows
  <2>3. weeklies' = weeklies /\ Seen1(weeklies, inbox, day, w) BY <1>1, <1>4
  <2>4. \A n \in 1..weeklies[w].length :
          KeepIn(inbox', n, weeklies[w].today) => n \in weeklies[w].input
    <3> SUFFICES ASSUME NEW n \in 1..weeklies[w].length, KeepIn(inbox', n, weeklies[w].today)
                 PROVE  n \in weeklies[w].input
      OBVIOUS
    <3>1. n \in Nat /\ \A k \in 1..n : inbox'[k] = inbox[k] BY <1>1, <1>2, <2>2, <2>3
    <3>2. KeepIn(inbox, n, weeklies[w].today) BY <3>1, KeepFacts
    <3> QED BY <2>3, <3>2
  <2>5. \A n \in (weeklies[w].length + 1)..Len(inbox') : inbox'[n].on >= weeklies[w].today
    <3> SUFFICES ASSUME NEW n \in (weeklies[w].length + 1)..Len(inbox')
                 PROVE  inbox'[n].on >= weeklies[w].today
      OBVIOUS
    <3>1. CASE n <= Len(inbox)
      <4>1. n \in 1..Len(inbox) /\ n \in (weeklies[w].length + 1)..Len(inbox) BY <1>1, <1>2, <3>1
      <4> QED BY <2>2, <2>3, <4>1
    <3>2. CASE n > Len(inbox)
      <4>1. n \in (Len(inbox) + 1)..Len(inbox') BY <1>1, <1>2, <3>2
      <4> QED BY <1>1, <1>2, <2>2, <2>3, <4>1
    <3> QED BY <1>1, <1>2, <3>1, <3>2
  <2> QED BY <1>1, <1>2, <2>1, <2>2, <2>3, <2>4, <2>5
<1>5. CASE /\ ScrubReplaces \/ ScrubDies \/ \E forks \in SUBSET DOMAIN Parent : ScrubReads(forks)
           /\ UNCHANGED <<weeklies, dirs>>
  <2>1. UNCHANGED <<inbox, day, weeklies>> BY <1>5 DEF ScrubReplaces, ScrubDies, ScrubReads
  <2> QED BY <1>1, <2>1
<1>6. ASSUME NEW v \in Weeklies, WeeklyStep(v) PROVE Seen1(weeklies', inbox', day', w)
  <2>1. weeklies' = [weeklies EXCEPT ![v] = weeklies'[v]] /\ inbox' = inbox /\ day' = day
    BY <1>6, WeeklyWrites DEF triageVars
  <2>2. CASE w # v
    <3>1. weeklies'[w] = weeklies[w] BY <2>1, <2>2 DEF WeeklyType
    <3> QED BY <1>1, <2>1, <3>1
  <2>3. CASE w = v /\ ReadWeek(v)
    <3>1. /\ weeklies'[w].today = day /\ weeklies'[w].length = Len(inbox)
          /\ \A n \in 1..Len(inbox) : Keep(n, day) => n \in weeklies'[w].input
      BY <2>3, WeekRead
    <3>2. \A n \in 1..Len(inbox) : KeepIn(inbox, n, day) => n \in weeklies'[w].input
      BY <3>1, KeepFacts
    <3> QED BY <1>2, <2>1, <3>1, <3>2
  <2>4. CASE w = v /\ ~ReadWeek(v)
    <3>1. /\ weeklies'[w].today = weeklies[w].today /\ weeklies'[w].length = weeklies[w].length
          /\ weeklies'[w].input = weeklies[w].input /\ weeklies[w].pc # "off"
      BY <1>6, <2>4, RunsOn
    <3> QED BY <1>1, <2>1, <3>1
  <2> QED BY <2>2, <2>3, <2>4
<1> QED BY <1>3, <1>4, <1>5, <1>6 DEF Next, TriageNext

LEMMA StageStep ==
  ASSUME TriageAssumption, WeeklyAssumption, TriageType, WeeklyType, Stage, RoundsOf,
         NEW w \in Weeklies, WeeklyStep(w)
  PROVE  Stage'
<1> DEFINE s == weeklies[w] x == weeklies'[w]
<1>1. Stands(s) BY DEF Stage
<1>3. ASSUME ReadWeek(w) PROVE Stands(x)
  BY <1>3, WeekRead DEF Stands
<1>4. ASSUME OpusStarts(w) \/ WeeklyDies(w) \/ \E answers \in BOOLEAN : OpusEnds(w, answers)
      PROVE  Stands(x)
  <2>1. /\ x.pc = s.pc \/ x.pc = "died"
        /\ x.sol = s.sol /\ x.rounds = s.rounds /\ x.exit = s.exit /\ x.records = s.records
    BY <1>4, OpusMoved
  <2>2. s.opus # "off" \/ s.pc = "lanes" BY <1>4, OpusMoved
  <2>3. s.pc # "off" BY <1>1, <2>2 DEF Stands, NoWeekly
  <2> HIDE DEF s, x
  <2> QED BY <1>1, <2>1, <2>3 DEF Stands
<1>5. ASSUME PreflightFails(w) \/ Preflight(w) \/ DispatchRaises(w) PROVE Stands(x)
  <2>1. /\ x.pc = s.pc /\ x.rounds = s.rounds
        /\ \/ x.sol = "ended"
           \/ s.sol = "preflight" /\ x.sol = "round" /\ x.exit = s.exit
        /\ s.sol \in {"preflight", "round", "verdict"}
    BY <1>5, SolMoved
  <2>2. s.pc # "off" BY <1>1, <2>1 DEF Stands, NoWeekly
  <2>3. Len(<<>>) < Attempts BY DEF Attempts
  <2> HIDE DEF s, x
  <2> QED BY <1>1, <2>1, <2>2, <2>3 DEF Stands
<1>6. ASSUME StartRound(w) PROVE Stands(x)
  <2> DEFINE e == [mark |-> Len(Dir(w).log), wide |-> Dir(w).wide, wrote |-> FALSE,
                   rollout |-> Unfinished, kind |-> "none", read |-> <<>>]
  <2>1. /\ Same(s, x) /\ s.sol = "round" /\ x.sol = "running" /\ x.exit = s.exit
        /\ Len(x.rounds) = Number(w) + 1 /\ Number(w) \in Nat /\ Number(w) = Len(s.rounds)
        /\ x.rounds[Number(w) + 1] = e
    BY <1>6, RoundStarts DEF Number
  <2>2. e.kind = "none" /\ e.rollout = Unfinished OBVIOUS
  <2>3. s.pc \notin {"off", "ended"} /\ s.exit = "none" /\ Len(s.rounds) < Attempts
    BY <1>1, <2>1 DEF Stands, NoWeekly
  <2>4. Len(x.rounds) \in 1..Attempts BY <2>1, <2>3 DEF Attempts
  <2>5. x.pc \notin {"off", "ended"} /\ x.exit = "none" BY <2>1, <2>3 DEF Same
  <2>6. x.rounds[Len(x.rounds)].kind = "none" /\ x.rounds[Len(x.rounds)].rollout = Unfinished
    BY <2>1, <2>2
  <2> HIDE DEF s, x, e
  <2> QED BY <2>1, <2>4, <2>5, <2>6 DEF Stands
<1>7. ASSUME NEW e, NEW sol, Onward(w, e, sol, "none", s.records), e.kind = "none",
             s.sol = "running", sol = "verdict" \/ (sol = "running" /\ e.rollout = Unfinished)
      PROVE  Stands(x)
  <2>1. Number(w) \in 1..Attempts /\ s.pc \notin {"off", "ended"} BY <1>7, CurrentFacts
  <2>2. /\ Len(x.rounds) = Number(w) /\ x.rounds[Number(w)] = e /\ x.pc = s.pc
        /\ x.sol = sol /\ x.exit = "none"
    BY <1>7 DEF Onward, Same
  <2> HIDE DEF s, x
  <2> QED BY <1>7, <2>1, <2>2 DEF Stands
<1>8. ASSUME WritesSol(w) PROVE Stands(x)
  <2> DEFINE c == Current(w) e == [c EXCEPT !.wrote = TRUE]
  <2>1. s.sol = "running" BY <1>8, SolWritten
  <2>2. c \in RoundStates /\ c.kind = "none" /\ s.exit = "none" /\ c.rollout = Unfinished
    BY <1>1, <2>1, CurrentFacts DEF Stands
  <2>3. e.kind = "none" /\ e.rollout = Unfinished
    <3> HIDE DEF c
    <3> QED BY <2>2 DEF RoundStates
  <2>4. Onward(w, e, "running", s.exit, s.records) BY <1>8, SolWritten
  <2> HIDE DEF e, s
  <2> QED BY <1>7, <2>1, <2>2, <2>3, <2>4
<1>9. ASSUME NEW r \in Rollouts, CodexEnds(w, r) PROVE Stands(x)
  <2> DEFINE c == Current(w) e == [c EXCEPT !.rollout = r]
  <2>1. s.sol = "running" BY <1>9, CodexOver
  <2>2. c \in RoundStates /\ c.kind = "none" /\ s.exit = "none" BY <2>1, CurrentFacts
  <2>3. e.kind = "none"
    <3> HIDE DEF c
    <3> QED BY <2>2 DEF RoundStates
  <2>4. Onward(w, e, "verdict", s.exit, s.records) BY <1>9, CodexOver
  <2> HIDE DEF e, s
  <2> QED BY <1>7, <2>1, <2>2, <2>3, <2>4
<1>10. ASSUME NEW j, Judge(w, j) PROVE Stands(x)
  <2> DEFINE kind == Kind(w, j) exit == ExitOf(kind, Number(w))
             e == [Current(w) EXCEPT !.kind = kind, !.read = ReadFrom(w, j)]
             records == IF kind = "ok" THEN s.records ELSE s.records + 1
             sol == IF exit = "none" THEN "round" ELSE "ended"
  <2>1. s.sol = "verdict" /\ Onward(w, e, sol, exit, records) BY <1>10, RoundJudged
  <2>2. Number(w) \in 1..Attempts /\ s.pc \notin {"off", "ended"} BY <2>1, CurrentFacts
  <2>3. exit = "none" => Number(w) < Attempts BY DEF ExitOf
  <2> HIDE DEF e, records, exit
  <2>4. Len(x.rounds) = Number(w) /\ x.pc = s.pc /\ x.sol = sol /\ x.exit = exit
    BY <2>1 DEF Onward, Same
  <2> HIDE DEF s, x
  <2> QED BY <2>2, <2>3, <2>4 DEF Stands
<1>11. ASSUME \E writes \in BOOLEAN : Fold(w, writes) PROVE Stands(x)
  <2>1. s.sol = "ended" /\ x.pc = "ended" /\ x.sol = s.sol BY <1>11, Folded
  <2> QED BY <2>1 DEF Stands
<1>12. ASSUME PrintsBanner(w) \/ PrintsWide(w) PROVE Stands(x)
  <2>1. x = s BY <1>12, Printed1
  <2> QED BY <1>1, <2>1
<1>13. Stands(x) BY <1>3, <1>4, <1>5, <1>6, <1>8, <1>9, <1>10, <1>11, <1>12 DEF WeeklyStep
<1>14. \A v \in Weeklies : v # w => weeklies'[v] = weeklies[v] BY WeeklyWrites DEF WeeklyType
<1>15. \A v \in Weeklies : Stands(weeklies'[v]) BY <1>13, <1>14 DEF Stage
<1> QED BY <1>15 DEF Stage

(* The failed rounds can be counted. *)
LEMMA FailuresFacts ==
  ASSUME NEW rounds \in Seq(RoundStates)
  PROVE  /\ IsFiniteSet(Failures(rounds)) /\ Cardinality(Failures(rounds)) \in Nat
         /\ \A k \in Failures(rounds) : k \in 1..Len(rounds)
<1>1. Len(rounds) \in Nat /\ 1 \in Nat OBVIOUS
<1>2. IsFiniteSet(1..Len(rounds)) BY <1>1, FS_Interval
<1>3. Failures(rounds) \subseteq 1..Len(rounds) BY DEF Failures
<1>4. IsFiniteSet(Failures(rounds)) BY <1>2, <1>3, FS_Subset
<1> QED BY <1>3, <1>4, FS_CardinalityType

LEMMA RoundsStep ==
  ASSUME TriageAssumption, WeeklyAssumption, TriageType, WeeklyType, Stage, RoundsOf,
         NEW w \in Weeklies, WeeklyStep(w)
  PROVE  RoundsOf'
<1> DEFINE s == weeklies[w] x == weeklies'[w] old == s.rounds then == x.rounds n == Number(w)
<1>1. Told(s) /\ Stands(s) BY DEF RoundsOf, Stage
<1>2. s \in WeeklyStates /\ old \in Seq(RoundStates) /\ s.records \in Nat /\ n = Len(old) /\ n \in Nat
  BY DEF WeeklyType, WeeklyStates, Number
<1>3. x \in WeeklyStates /\ then \in Seq(RoundStates) BY WeeklyWrites DEF WeeklyStates
<1>4. Cardinality(Failures(<<>>)) = 0
  <2>1. Failures(<<>>) = {} BY DEF Failures
  <2> QED BY <2>1, FS_EmptySet
<1>5. ASSUME ReadWeek(w) PROVE Told(x)
  <2>1. then = <<>> /\ x.records = 0 /\ x.exit = "none" BY <1>5, WeekRead
  <2> QED BY <1>4, <2>1 DEF Told, Attempts
<1>6. ASSUME then = old, x.exit = s.exit, x.records = s.records, x.sol = s.sol PROVE Told(x)
  <2> HIDE DEF s, x
  <2> QED BY <1>1, <1>6, Zenon DEF Told, Undecided, old, then
<1>7. ASSUME PreflightFails(w) \/ Preflight(w) \/ DispatchRaises(w) PROVE Told(x)
  <2>1. /\ then = old
        /\ \/ s.sol = "preflight" /\ x.exit = "97" /\ x.records = 1
           \/ s.sol = "preflight" /\ x.exit = s.exit /\ x.records = s.records
           \/ s.sol \in {"preflight", "round", "verdict"} /\ x.exit = "1" /\ x.records = s.records
    BY <1>7, SolMoved
  <2>2. s.exit = "none" BY <1>1, <2>1 DEF Stands
  <2>3. CASE s.sol = "preflight"
    <3>1. old = <<>> /\ s.records = 0 BY <1>1, <2>3 DEF Stands
    <3> HIDE DEF s, x
    <3> QED BY <1>4, <2>1, <2>2, <3>1 DEF Told, Attempts, then, old
  <2>4. CASE s.sol # "preflight"
    <3>1. x.exit = "1" /\ x.records = s.records BY <2>1, <2>4
    <3>2. \A k \in 1..Len(old) : /\ old[k].kind # "ok" /\ old[k].kind \notin Infrastructure
                                 /\ old[k].kind = "none" => k = Len(old)
      BY <1>1, <2>2 DEF Told
    <3>3. s.records = Cardinality(Failures(old)) + 0 /\ Len(old) <= Attempts
      BY <1>1, <2>2 DEF Told
    <3> HIDE DEF s, x
    <3> QED BY <2>1, <3>1, <3>2, <3>3 DEF Told, Undecided, then, old
  <2> QED BY <2>3, <2>4
<1>8. ASSUME StartRound(w) PROVE Told(x)
  <2> DEFINE e == [mark |-> Len(Dir(w).log), wide |-> Dir(w).wide, wrote |-> FALSE,
                   rollout |-> Unfinished, kind |-> "none", read |-> <<>>]
  <2>1. /\ s.sol = "round" /\ x.sol = "running" /\ x.exit = s.exit /\ x.records = s.records
        /\ Len(then) = n + 1 /\ then[n + 1] = e /\ \A k \in 1..n : then[k] = old[k]
    BY <1>8, RoundStarts
  <2>2. e.kind = "none" OBVIOUS
  <2> HIDE DEF e
  <2>3. s.exit = "none" /\ n < Attempts BY <1>1, <1>2, <2>1 DEF Stands
  <2>4. \A k \in 1..n : old[k].kind \notin {"ok", "none"} /\ old[k].kind \notin Infrastructure
    BY <1>1, <1>2, <2>1, <2>3 DEF Told, Undecided
  <2>5. \A k \in 1..(n + 1) : k \in 1..n \/ k = n + 1 BY <1>2
  <2>6. Failures(then) = Failures(old)
    <3> HIDE DEF old, then, n
    <3> QED BY <1>2, <2>1, <2>2, <2>5 DEF Failures
  <2>7. x.records = Cardinality(Failures(then)) + 0 BY <1>1, <2>1, <2>3, <2>6 DEF Told
  <2>8. n + 1 <= Attempts BY <1>2, <2>3 DEF Attempts
  <2>9. \A k \in 1..Len(then) :
          /\ then[k].kind # "ok" /\ then[k].kind \notin Infrastructure
          /\ then[k].kind = "none" => k = Len(then)
    <3>1. "none" \notin Infrastructure BY DEF Infrastructure
    <3> HIDE DEF old, then, n
    <3> QED BY <2>1, <2>2, <2>4, <2>5, <3>1
  <2> HIDE DEF s, x
  <2> QED BY <2>1, <2>3, <2>7, <2>8, <2>9 DEF Told, Undecided, then
<1>9. ASSUME NEW e, NEW sol, Onward(w, e, sol, s.exit, s.records), e.kind = "none",
             s.sol = "running", sol \in {"running", "verdict"}
      PROVE  Told(x)
  <2>1. n \in 1..Attempts /\ Current(w) = old[n] /\ old[n].kind = "none" /\ s.exit = "none"
    BY <1>9, CurrentFacts
  <2>2. /\ Len(then) = n /\ then[n] = e /\ \A k \in 1..(n - 1) : then[k] = old[k]
        /\ x.sol = sol /\ x.exit = "none" /\ x.records = s.records
    BY <1>9, <2>1 DEF Onward
  <2>3. \A k \in 1..n : k \in 1..(n - 1) \/ k = n BY <1>2
  <2>4. \A k \in 1..n : then[k].kind = old[k].kind BY <1>9, <2>1, <2>2, <2>3
  <2>5. Failures(then) = Failures(old)
    <3> HIDE DEF old, then, n
    <3> QED BY <1>2, <2>2, <2>4 DEF Failures
  <2>6. n <= Attempts /\ s.records = Cardinality(Failures(old)) + 0 BY <1>1, <1>2, <2>1 DEF Told
  <2>7. \A k \in 1..n : /\ old[k].kind # "ok" /\ old[k].kind \notin Infrastructure
                        /\ old[k].kind = "none" => k = n
    BY <1>1, <1>2, <2>1 DEF Told
  <2> HIDE DEF s, x, n
  <2> QED BY <1>9, <2>2, <2>4, <2>5, <2>6, <2>7 DEF Told, Undecided, then, old
<1>10. ASSUME WritesSol(w) PROVE Told(x)
  <2> DEFINE c == Current(w) e == [c EXCEPT !.wrote = TRUE]
  <2>1. s.sol = "running" BY <1>10, SolWritten
  <2>2. c \in RoundStates /\ c.kind = "none" BY <2>1, CurrentFacts
  <2>3. e.kind = "none"
    <3> HIDE DEF c
    <3> QED BY <2>2 DEF RoundStates
  <2>4. Onward(w, e, "running", s.exit, s.records) BY <1>10, SolWritten
  <2> HIDE DEF e, s, x
  <2> QED BY <1>9, <2>1, <2>3, <2>4
<1>11. ASSUME NEW r \in Rollouts, CodexEnds(w, r) PROVE Told(x)
  <2> DEFINE c == Current(w) e == [c EXCEPT !.rollout = r]
  <2>1. s.sol = "running" BY <1>11, CodexOver
  <2>2. c \in RoundStates /\ c.kind = "none" BY <2>1, CurrentFacts
  <2>3. e.kind = "none"
    <3> HIDE DEF c
    <3> QED BY <2>2 DEF RoundStates
  <2>4. Onward(w, e, "verdict", s.exit, s.records) BY <1>11, CodexOver
  <2> HIDE DEF e, s, x
  <2> QED BY <1>9, <2>1, <2>3, <2>4
<1>12. ASSUME NEW j, Judge(w, j) PROVE Told(x)
  <2> DEFINE c == Current(w) kind == Kind(w, j) read == ReadFrom(w, j) exit == ExitOf(kind, n)
             e == [c EXCEPT !.kind = kind, !.read = read]
             records == IF kind = "ok" THEN s.records ELSE s.records + 1
             sol == IF exit = "none" THEN "round" ELSE "ended"
  <2>1. s.sol = "verdict" /\ Onward(w, e, sol, exit, records) /\ kind \in Verdicts
    BY <1>12, RoundJudged
  <2>2. n \in 1..Attempts /\ c = old[n] /\ old[n].kind = "none" /\ s.exit = "none" /\ c \in RoundStates
    BY <2>1, CurrentFacts
  <2>3. e.kind = kind
    <3> HIDE DEF c, kind, read
    <3> QED BY <2>2 DEF RoundStates
  <2>4. kind # "none" BY <2>1 DEF Verdicts
  <2>5. /\ kind = "ok" => exit = "codex"
        /\ exit = "codex" => kind = "ok"
        /\ kind \in Infrastructure => exit = "97"
    BY DEF ExitOf, Infrastructure
  <2> HIDE DEF e, kind, exit
  <2>6. /\ Len(then) = n /\ then[n] = e /\ \A k \in 1..(n - 1) : then[k] = old[k]
        /\ x.exit = exit /\ x.records = records
    BY <2>1 DEF Onward
  <2>7. \A k \in 1..n : k \in 1..(n - 1) \/ k = n BY <1>2
  <2>8. n <= Attempts /\ s.records = Cardinality(Failures(old)) + 0 BY <1>1, <1>2, <2>2 DEF Told
  <2>9. \A k \in 1..n : /\ old[k].kind # "ok" /\ old[k].kind \notin Infrastructure
                        /\ old[k].kind = "none" => k = n
    BY <1>1, <1>2, <2>2 DEF Told
  <2>10. n \notin Failures(old) BY <2>2 DEF Failures
  <2>11. Failures(then) = IF kind = "ok" THEN Failures(old) ELSE Failures(old) \union {n}
    <3> HIDE DEF old, then, n
    <3> QED BY <1>2, <2>2, <2>3, <2>4, <2>6, <2>7 DEF Failures
  <2>12. Cardinality(Failures(then)) = IF kind = "ok" THEN Cardinality(Failures(old))
                                       ELSE Cardinality(Failures(old)) + 1
    <3>1. IsFiniteSet(Failures(old)) BY <1>2, FailuresFacts
    <3>2. Cardinality(Failures(old) \union {n}) = Cardinality(Failures(old)) + 1
      BY <2>10, <3>1, FS_AddElement
    <3> QED BY <2>11, <3>2
  <2>13. x.records = Cardinality(Failures(then)) + 0
    <3>1. Cardinality(Failures(old)) \in Nat BY <1>2, FailuresFacts
    <3> QED BY <2>6, <2>8, <2>12, <3>1
  <2>14. \A k \in 1..n :
           /\ then[k].kind = "ok" => k = n /\ x.exit = "codex"
           /\ then[k].kind \in Infrastructure => k = n /\ x.exit = "97"
           /\ then[k].kind # "none"
    <3> SUFFICES ASSUME NEW k \in 1..n
                 PROVE  /\ then[k].kind = "ok" => k = n /\ x.exit = "codex"
                        /\ then[k].kind \in Infrastructure => k = n /\ x.exit = "97"
                        /\ then[k].kind # "none"
      OBVIOUS
    <3>1. CASE k = n BY <2>3, <2>4, <2>5, <2>6, <3>1
    <3>2. CASE k # n
      <4>1. k \in 1..(n - 1) BY <2>7, <3>2
      <4>2. then[k] = old[k] BY <2>6, <4>1
      <4> HIDE DEF then, old, n
      <4> QED BY <2>9, <3>2, <4>2
    <3> QED BY <3>1, <3>2
  <2>15. n > 0
    <3>1. \A m \in 1..Attempts : m > 0 BY DEF Attempts
    <3> HIDE DEF n
    <3> QED BY <2>2, <3>1
  <2>16. x.exit = "codex" => then[n].kind = "ok" BY <2>3, <2>5, <2>6
  <2> HIDE DEF s, x, n
  <2> QED BY <2>6, <2>8, <2>13, <2>14, <2>15, <2>16 DEF Told, then
<1>13. Told(x)
  <2>1. CASE OpusStarts(w) \/ WeeklyDies(w) \/ \E answers \in BOOLEAN : OpusEnds(w, answers)
    BY <1>6, <2>1, OpusMoved
  <2>2. CASE \E writes \in BOOLEAN : Fold(w, writes) BY <1>6, <2>2, Folded
  <2>3. CASE PrintsBanner(w) \/ PrintsWide(w) BY <1>6, <2>3, Printed1
  <2> QED BY <1>5, <1>7, <1>8, <1>10, <1>11, <1>12, <2>1, <2>2, <2>3 DEF WeeklyStep
<1>14. \A v \in Weeklies : v # w => weeklies'[v] = weeklies[v] BY WeeklyWrites DEF WeeklyType
<1>15. \A v \in Weeklies : Told(weeklies'[v]) BY <1>13, <1>14 DEF RoundsOf
<1> QED BY <1>15 DEF RoundsOf

(* Who wrote what lies in a directory, and what was read from it. *)
LEMMA AuthorsStep ==
  ASSUME TriageAssumption, WeeklyAssumption, TriageType, WeeklyType, Stage, Authors,
         NEW w \in Weeklies, WeeklyStep(w)
  PROVE  Authors'
<1> DEFINE s == weeklies[w] x == weeklies'[w] t == s.today u == x.today
           Goal == /\ dirs'[t].opus \subseteq OfDay(weeklies', t)
                   /\ {dirs'[t].sol, dirs'[t].report} \subseteq {0} \union OfDay(weeklies', t)
                   /\ dirs[t].sol # 0 => dirs'[t].sol # 0
                   /\ x.readOpus \subseteq OfDay(weeklies', u)
                   /\ {x.readSol, x.report} \subseteq {0} \union OfDay(weeklies', u)
                   /\ Wrote(x) => dirs'[u].sol # 0 /\ (x.pc = "ended" => x.readSol # 0)
<1>1. /\ \A m \in 0..MaxDay : /\ dirs[m].opus \subseteq OfDay(weeklies, m)
                              /\ {dirs[m].sol, dirs[m].report} \subseteq {0} \union OfDay(weeklies, m)
      /\ \A v \in Weeklies :
           /\ weeklies[v].readOpus \subseteq OfDay(weeklies, weeklies[v].today)
           /\ {weeklies[v].readSol, weeklies[v].report}
                \subseteq {0} \union OfDay(weeklies, weeklies[v].today)
           /\ Wrote(weeklies[v]) => /\ dirs[weeklies[v].today].sol # 0
                                    /\ weeklies[v].pc = "ended" => weeklies[v].readSol # 0
  BY DEF Authors
<1>2. /\ t \in 0..MaxDay /\ u \in 0..MaxDay
      /\ \A v \in Weeklies : weeklies[v].today \in 0..MaxDay
      /\ \A m \in 0..MaxDay : m # t => dirs'[m] = dirs[m]
      /\ \A v \in Weeklies : v # w => weeklies'[v] = weeklies[v]
      /\ s \in WeeklyStates /\ x \in WeeklyStates
  BY WeeklyWrites DEF WeeklyType, WeeklyStates
<1>3. x.pc # "off" /\ (s.pc = "off" \/ u = t)
  <2>1. ReadWeek(w) => x.pc # "off" /\ s.pc = "off" BY WeekRead DEF NoWeekly
  <2> QED BY <2>1, RunsOn
<1>4. \A m : OfDay(weeklies, m) \subseteq OfDay(weeklies', m) BY DayKeeps
<1>5. w \in OfDay(weeklies', u) /\ w # 0 BY <1>3, WeeklyAssumption DEF OfDay, Weeklies
<1>6. ASSUME ReadWeek(w) PROVE Goal
  <2>1. dirs' = dirs /\ x.rounds = <<>> /\ x.readOpus = {} /\ x.readSol = 0 /\ x.report = 0
    BY <1>6, WeekRead
  <2>2. ~Wrote(x) BY <2>1 DEF Wrote
  <2> QED BY <1>1, <1>2, <1>4, <2>1, <2>2
<1>7. ASSUME x.rounds = s.rounds, u = t, x.readOpus = s.readOpus, x.readSol = s.readSol,
             x.report = s.report, x.pc \in {s.pc, "died"},
             dirs'[t].opus \subseteq dirs[t].opus \union {w},
             dirs'[t].sol = dirs[t].sol, dirs'[t].report = dirs[t].report
      PROVE  Goal
  <2>1. Wrote(x) <=> Wrote(s) BY <1>7 DEF Wrote
  <2> QED BY <1>1, <1>2, <1>4, <1>5, <1>7, <2>1
<1>8. ASSUME OpusStarts(w) \/ WeeklyDies(w) \/ \E answers \in BOOLEAN : OpusEnds(w, answers)
      PROVE  Goal
  <2>1. /\ x.pc \in {s.pc, "died"} /\ u = t
        /\ x.rounds = s.rounds /\ x.readOpus = s.readOpus
        /\ x.readSol = s.readSol /\ x.report = s.report
        /\ dirs'[t].opus \subseteq dirs[t].opus \union {w}
        /\ dirs'[t].sol = dirs[t].sol /\ dirs'[t].report = dirs[t].report
    BY <1>8, OpusMoved
  <2> QED BY <1>7, <2>1
<1>9. ASSUME PreflightFails(w) \/ Preflight(w) \/ DispatchRaises(w) PROVE Goal
  <2>1. /\ x.pc = s.pc /\ u = t /\ x.rounds = s.rounds /\ x.readOpus = s.readOpus
        /\ x.readSol = s.readSol /\ x.report = s.report /\ dirs' = dirs
    BY <1>9, SolMoved
  <2> QED BY <1>7, <2>1
<1>10. ASSUME PrintsBanner(w) \/ PrintsWide(w) PROVE Goal
  <2>1. x = s /\ dirs'[t].opus = dirs[t].opus /\ dirs'[t].sol = dirs[t].sol
        /\ dirs'[t].report = dirs[t].report
    BY <1>2, <1>10, Printed1
  <2> QED BY <1>7, <2>1
<1>11. ASSUME StartRound(w) PROVE Goal
  <2> DEFINE n == Number(w)
             e == [mark |-> Len(Dir(w).log), wide |-> Dir(w).wide, wrote |-> FALSE,
                   rollout |-> Unfinished, kind |-> "none", read |-> <<>>]
  <2>1. /\ Same(s, x) /\ dirs' = dirs /\ Len(x.rounds) = n + 1 /\ n \in Nat /\ n = Len(s.rounds)
        /\ x.rounds[n + 1] = e /\ \A k \in 1..n : x.rounds[k] = s.rounds[k]
    BY <1>11, RoundStarts DEF Number
  <2>2. ~e.wrote OBVIOUS
  <2>3. DOMAIN s.rounds = 1..n /\ DOMAIN x.rounds = 1..(n + 1) BY <1>2, <2>1 DEF WeeklyStates
  <2> HIDE DEF e, n
  <2>4. \A k \in 1..(n + 1) : k \in 1..n \/ k = n + 1 BY <2>1
  <2>5. Wrote(x) => Wrote(s)
    <3> HIDE DEF s, x
    <3> QED BY <2>1, <2>2, <2>3, <2>4 DEF Wrote
  <2> QED BY <1>1, <1>2, <1>4, <2>1, <2>5 DEF Same
<1>12. ASSUME NEW e, NEW sol, NEW exit, NEW records, Onward(w, e, sol, exit, records),
              s.sol \in {"running", "verdict"}, e.wrote = Current(w).wrote \/ dirs'[t].sol = w,
              dirs'[t].sol \in {w, dirs[t].sol}, dirs'[t].opus = dirs[t].opus,
              dirs'[t].report = dirs[t].report
       PROVE  Goal
  <2> DEFINE n == Number(w)
  <2>1. n \in 1..Attempts /\ n = Len(s.rounds) /\ Current(w) = s.rounds[n] /\ s.pc \notin {"off", "ended"}
    BY <1>12, CurrentFacts
  <2>2. /\ Len(x.rounds) = n /\ x.rounds[n] = e /\ \A k \in 1..(n - 1) : x.rounds[k] = s.rounds[k]
        /\ Same(s, x)
    BY <1>12 DEF Onward
  <2>3. n \in Nat /\ n \in 1..n /\ \A k \in 1..n : k \in 1..(n - 1) \/ k = n
    <3>1. \A m \in 1..Attempts : m \in Nat /\ m \in 1..m BY DEF Attempts
    <3>2. \A m \in Nat : \A k \in 1..m : k \in 1..(m - 1) \/ k = m OBVIOUS
    <3> HIDE DEF n
    <3> QED BY <2>1, <3>1, <3>2
  <2>4. DOMAIN s.rounds = 1..n /\ DOMAIN x.rounds = 1..n BY <1>2, <2>1, <2>2 DEF WeeklyStates
  <2> HIDE DEF n
  <2>5. Wrote(x) => Wrote(s) \/ dirs'[t].sol = w
    <3> HIDE DEF s, x, t
    <3> QED BY <1>12, <2>1, <2>2, <2>3, <2>4 DEF Wrote
  <2>6. x.pc # "ended" /\ u = t BY <2>1, <2>2 DEF Same
  <2> QED BY <1>1, <1>2, <1>4, <1>5, <1>12, <2>2, <2>5, <2>6 DEF Same
<1>13. ASSUME WritesSol(w) PROVE Goal
  <2> DEFINE c == Current(w) e == [c EXCEPT !.wrote = TRUE]
  <2>1. s.sol = "running" /\ Onward(w, e, "running", s.exit, s.records)
        /\ dirs' = [dirs EXCEPT ![t] = [dirs[t] EXCEPT !.sol = w]]
    BY <1>13, SolWritten
  <2>2. dirs'[t].sol = w /\ dirs'[t].opus = dirs[t].opus /\ dirs'[t].report = dirs[t].report
    BY <1>2, <2>1 DEF WeeklyType, DirStates
  <2> HIDE DEF e, s, t, x, u
  <2> QED BY <1>12, <2>1, <2>2
<1>14. ASSUME NEW r \in Rollouts, CodexEnds(w, r) PROVE Goal
  <2> DEFINE c == Current(w) e == [c EXCEPT !.rollout = r]
  <2>1. s.sol = "running" /\ Onward(w, e, "verdict", s.exit, s.records) /\ dirs' = dirs
    BY <1>14, CodexOver
  <2>2. c \in RoundStates BY <2>1, CurrentFacts
  <2>3. e.wrote = c.wrote
    <3> HIDE DEF c
    <3> QED BY <2>2 DEF RoundStates
  <2> HIDE DEF e, s, t, x, u
  <2> QED BY <1>12, <2>1, <2>3
<1>15. ASSUME NEW j, Judge(w, j) PROVE Goal
  <2> DEFINE c == Current(w) kind == Kind(w, j) read == ReadFrom(w, j) exit == ExitOf(kind, Number(w))
             e == [c EXCEPT !.kind = kind, !.read = read]
             records == IF kind = "ok" THEN s.records ELSE s.records + 1
             sol == IF exit = "none" THEN "round" ELSE "ended"
  <2>1. s.sol = "verdict" /\ Onward(w, e, sol, exit, records) /\ dirs' = dirs BY <1>15, RoundJudged
  <2>2. c \in RoundStates BY <2>1, CurrentFacts
  <2>3. e.wrote = c.wrote
    <3> HIDE DEF c, kind, read
    <3> QED BY <2>2 DEF RoundStates
  <2> HIDE DEF e, sol, exit, records, s, t, x, u
  <2> QED BY <1>12, <2>1, <2>3
<1>16. ASSUME \E writes \in BOOLEAN : Fold(w, writes) PROVE Goal
  <2>1. /\ u = t /\ x.rounds = s.rounds
        /\ x.readOpus = dirs[t].opus /\ x.readSol = dirs[t].sol /\ x.report \in {w, dirs[t].report}
        /\ dirs'[t].opus = dirs[t].opus /\ dirs'[t].sol = dirs[t].sol
        /\ dirs'[t].report \in {w, dirs[t].report}
    BY <1>16, Folded
  <2>2. Wrote(x) <=> Wrote(s) BY <2>1 DEF Wrote
  <2> QED BY <1>1, <1>2, <1>4, <1>5, <2>1, <2>2
<1>17. Goal BY <1>6, <1>8, <1>9, <1>10, <1>11, <1>13, <1>14, <1>15, <1>16 DEF WeeklyStep
<1>18. \A m \in 0..MaxDay : /\ dirs'[m].opus \subseteq OfDay(weeklies', m)
                            /\ {dirs'[m].sol, dirs'[m].report} \subseteq {0} \union OfDay(weeklies', m)
                            /\ dirs[m].sol # 0 => dirs'[m].sol # 0
  <2> SUFFICES ASSUME NEW m \in 0..MaxDay
               PROVE  /\ dirs'[m].opus \subseteq OfDay(weeklies', m)
                      /\ {dirs'[m].sol, dirs'[m].report} \subseteq {0} \union OfDay(weeklies', m)
                      /\ dirs[m].sol # 0 => dirs'[m].sol # 0
    OBVIOUS
  <2>1. CASE m = t BY <1>17, <2>1
  <2>2. CASE m # t BY <1>1, <1>2, <1>4, <2>2
  <2> QED BY <2>1, <2>2
<1>19. \A v \in Weeklies :
         /\ weeklies'[v].readOpus \subseteq OfDay(weeklies', weeklies'[v].today)
         /\ {weeklies'[v].readSol, weeklies'[v].report}
              \subseteq {0} \union OfDay(weeklies', weeklies'[v].today)
         /\ Wrote(weeklies'[v]) => /\ dirs'[weeklies'[v].today].sol # 0
                                   /\ weeklies'[v].pc = "ended" => weeklies'[v].readSol # 0
  <2> SUFFICES ASSUME NEW v \in Weeklies
               PROVE  /\ weeklies'[v].readOpus \subseteq OfDay(weeklies', weeklies'[v].today)
                      /\ {weeklies'[v].readSol, weeklies'[v].report}
                           \subseteq {0} \union OfDay(weeklies', weeklies'[v].today)
                      /\ Wrote(weeklies'[v]) =>
                           /\ dirs'[weeklies'[v].today].sol # 0
                           /\ weeklies'[v].pc = "ended" => weeklies'[v].readSol # 0
    OBVIOUS
  <2>1. CASE v = w BY <1>17, <2>1
  <2>2. CASE v # w BY <1>1, <1>2, <1>4, <1>18, <2>2
  <2> QED BY <2>1, <2>2
<1> QED BY <1>18, <1>19 DEF Authors

(* Where the banners stand. *)
LEMMA BannersStep ==
  ASSUME TriageAssumption, WeeklyAssumption, TriageType, WeeklyType, Stage, Banners,
         NEW w \in Weeklies, WeeklyStep(w)
  PROVE  Banners'
<1>1. /\ \A m \in 0..MaxDay : \A j \in 1..Len(dirs[m].log) :
           dirs[m].log[j][1] \in OfDay(weeklies, m) /\ Placed(weeklies, dirs[m].log[j], j)
      /\ \A v \in Weeklies : \A k \in 1..Len(weeklies[v].rounds) :
           weeklies[v].rounds[k].mark <= Len(dirs[weeklies[v].today].log)
  BY DEF Banners
<1>2. \A v \in Weeklies : RoundsStay(w, v) BY RoundsKeep
<1>3. /\ \A m : OfDay(weeklies, m) \subseteq OfDay(weeklies', m)
      /\ \A v \in Weeklies :
           /\ weeklies[v].pc # "off" => weeklies'[v].pc # "off" /\ weeklies'[v].today = weeklies[v].today
           /\ weeklies'[v].today \in 0..MaxDay
  BY DayKeeps
<1>4. \A m \in 0..MaxDay : /\ dirs[m].log \in Seq(Sessions) /\ Len(dirs[m].log) \in Nat
  BY DEF WeeklyType, DirStates
<1>5. \A v \in Weeklies :
        /\ weeklies[v].rounds \in Seq(RoundStates) /\ Len(weeklies[v].rounds) \in Nat
        /\ weeklies[v].today \in 0..MaxDay
        /\ weeklies[v].pc = "off" => Len(weeklies[v].rounds) = 0
        /\ \A k \in 1..Len(weeklies[v].rounds) : weeklies[v].rounds[k].mark \in Nat
  <2> SUFFICES ASSUME NEW v \in Weeklies
               PROVE  /\ weeklies[v].rounds \in Seq(RoundStates) /\ Len(weeklies[v].rounds) \in Nat
                      /\ weeklies[v].today \in 0..MaxDay
                      /\ weeklies[v].pc = "off" => Len(weeklies[v].rounds) = 0
                      /\ \A k \in 1..Len(weeklies[v].rounds) : weeklies[v].rounds[k].mark \in Nat
    OBVIOUS
  <2>1. weeklies[v].rounds \in Seq(RoundStates) /\ weeklies[v].today \in 0..MaxDay
    BY DEF WeeklyType, WeeklyStates
  <2>2. weeklies[v].pc = "off" => weeklies[v].rounds = <<>> BY DEF Stage, Stands, NoWeekly
  <2>3. /\ Len(weeklies[v].rounds) \in Nat
        /\ \A k \in 1..Len(weeklies[v].rounds) : weeklies[v].rounds[k] \in RoundStates
    BY <2>1
  <2> QED BY <2>1, <2>2, <2>3 DEF RoundStates
(* A banner that is there stays where it is. *)
<1>6. ASSUME NEW m \in 0..MaxDay, NEW j \in 1..Len(dirs[m].log)
      PROVE  dirs[m].log[j][1] \in OfDay(weeklies', m) /\ Placed(weeklies', dirs[m].log[j], j)
  <2> DEFINE e == dirs[m].log[j]
  <2>1. e[1] \in OfDay(weeklies, m) /\ Placed(weeklies, e, j) BY <1>1, <1>6
  <2>2. e[1] \in OfDay(weeklies', m) BY <1>3, <2>1
  <2> DEFINE v == e[1] k == e[2] old == weeklies[v].rounds then == weeklies'[v].rounds
  <2>3. v \in Weeklies /\ weeklies[v].today = m /\ weeklies[v].pc # "off" BY <2>1 DEF OfDay
  <2>4. /\ k \in 1..Len(old) /\ old[k].mark < j
        /\ \A i \in (k + 1)..Len(old) : j <= old[i].mark
    BY <2>1 DEF Placed
  <2>5. /\ Len(old) \in Nat /\ Len(then) \in Nat /\ Len(old) <= Len(then)
        /\ \A i \in 1..Len(old) : then[i].mark = old[i].mark
        /\ \A i \in 1..Len(then) : i \in 1..Len(old) \/ (v = w /\ Fresh(w, then[i]))
    BY <1>2, <2>3 DEF RoundsStay, Keeps
  <2>6. Len(dirs[m].log) \in Nat /\ j \in Nat /\ j <= Len(dirs[m].log) BY <1>4
  <2>7. ASSUME NEW i \in (k + 1)..Len(then) PROVE j <= then[i].mark
    <3> HIDE DEF e, k, old, then
    <3>1. i \in 1..Len(then) BY <2>4, <2>5
    <3>2. CASE i \in 1..Len(old)
      <4>1. i \in (k + 1)..Len(old) BY <2>4, <2>5, <3>2
      <4> QED BY <2>4, <2>5, <3>2, <4>1
    <3>3. CASE v = w /\ Fresh(w, then[i])
      <4>1. then[i].mark = Len(dirs[m].log) BY <2>3, <3>3 DEF Fresh, Dir
      <4> QED BY <2>6, <4>1
    <3> QED BY <2>5, <3>1, <3>2, <3>3
  <2>8. k \in 1..Len(then) /\ then[k].mark < j
    <3> HIDE DEF e, k, old, then
    <3> QED BY <2>4, <2>5
  <2>9. Placed(weeklies', e, j) BY <2>7, <2>8 DEF Placed
  <2> QED BY <2>2, <2>9
<1>7. CASE \A m \in 0..MaxDay : dirs'[m].log = dirs[m].log
  <2>1. \A m \in 0..MaxDay : \A j \in 1..Len(dirs'[m].log) :
          dirs'[m].log[j][1] \in OfDay(weeklies', m) /\ Placed(weeklies', dirs'[m].log[j], j)
    BY <1>6, <1>7
  <2>2. ASSUME NEW v \in Weeklies, NEW k \in 1..Len(weeklies'[v].rounds)
        PROVE  weeklies'[v].rounds[k].mark <= Len(dirs'[weeklies'[v].today].log)
    <3>1. CASE k \in 1..Len(weeklies[v].rounds)
      <4>1. weeklies[v].pc # "off" BY <1>5, <3>1
      <4>2. weeklies'[v].today = weeklies[v].today /\ weeklies[v].today \in 0..MaxDay BY <1>3, <1>5, <4>1
      <4>3. weeklies'[v].rounds[k].mark = weeklies[v].rounds[k].mark BY <1>2, <3>1 DEF RoundsStay, Keeps
      <4> QED BY <1>1, <1>7, <3>1, <4>2, <4>3
    <3>2. CASE v = w /\ Fresh(w, weeklies'[v].rounds[k])
      <4>1. /\ weeklies'[v].rounds[k].mark = Len(dirs[weeklies[v].today].log)
            /\ weeklies'[v].today = weeklies[v].today /\ weeklies[v].today \in 0..MaxDay
        BY <1>5, <3>2 DEF Fresh, Dir
      <4> QED BY <1>4, <1>7, <4>1
    <3> QED BY <1>2, <2>2, <3>1, <3>2 DEF RoundsStay
  <2> QED BY <2>1, <2>2 DEF Banners
<1>8. CASE LogGrows(w)
  <2> DEFINE t == weeklies[w].today n == Number(w) new == <<w, n>>
  <2>1. /\ weeklies' = weeklies /\ weeklies[w].sol = "running"
        /\ t \in 0..MaxDay /\ dirs'[t].log = Append(dirs[t].log, new)
        /\ \A m \in 0..MaxDay : m # t => dirs'[m].log = dirs[m].log
    BY <1>5, <1>8 DEF LogGrows, Dir
  <2>2. n \in 1..Attempts /\ n = Len(weeklies[w].rounds) /\ weeklies[w].pc # "off" BY <2>1, CurrentFacts
  <2>3. n \in Nat /\ n \in 1..n BY <2>2 DEF Attempts
  <2>4. new \in Sessions BY <2>3 DEF Sessions
  <2>5. /\ Len(dirs'[t].log) = Len(dirs[t].log) + 1 /\ dirs'[t].log[Len(dirs[t].log) + 1] = new
        /\ \A j \in 1..Len(dirs[t].log) : dirs'[t].log[j] = dirs[t].log[j]
    <3> HIDE DEF t, new
    <3> QED BY <1>4, <2>1, <2>4, AppendFacts
  <2>6. new[1] \in OfDay(weeklies, t) /\ Placed(weeklies, new, Len(dirs[t].log) + 1)
    <3>1. new[1] = w /\ new[2] = n OBVIOUS
    <3>2. w \in OfDay(weeklies, t) BY <2>2 DEF OfDay
    <3>3. weeklies[w].rounds[n].mark <= Len(dirs[t].log) /\ weeklies[w].rounds[n].mark \in Nat
          /\ Len(dirs[t].log) \in Nat
      BY <1>1, <1>4, <1>5, <2>1, <2>2, <2>3
    <3>4. weeklies[w].rounds[n].mark < Len(dirs[t].log) + 1 BY <3>3
    <3>5. \A i \in (n + 1)..n : FALSE BY <2>3
    <3> HIDE DEF new, n, t
    <3> QED BY <2>2, <2>3, <3>1, <3>2, <3>4, <3>5 DEF Placed
  <2>7. \A m \in 0..MaxDay : \A j \in 1..Len(dirs'[m].log) :
          dirs'[m].log[j][1] \in OfDay(weeklies', m) /\ Placed(weeklies', dirs'[m].log[j], j)
    <3> SUFFICES ASSUME NEW m \in 0..MaxDay, NEW j \in 1..Len(dirs'[m].log)
                 PROVE  dirs'[m].log[j][1] \in OfDay(weeklies', m) /\ Placed(weeklies', dirs'[m].log[j], j)
      OBVIOUS
    <3>1. CASE m # t BY <1>6, <2>1, <3>1
    <3>2. CASE m = t /\ j \in 1..Len(dirs[t].log) BY <1>6, <2>5, <3>2
    <3>3. CASE m = t /\ j = Len(dirs[t].log) + 1 BY <2>1, <2>5, <2>6, <3>3
    <3>4. m = t => j \in 1..Len(dirs[t].log) \/ j = Len(dirs[t].log) + 1
      <4>1. \A l \in Nat : \A i \in 1..(l + 1) : i \in 1..l \/ i = l + 1 OBVIOUS
      <4> QED BY <1>4, <2>5, <4>1
    <3> QED BY <3>1, <3>2, <3>3, <3>4
  <2>8. ASSUME NEW v \in Weeklies, NEW k \in 1..Len(weeklies'[v].rounds)
        PROVE  weeklies'[v].rounds[k].mark <= Len(dirs'[weeklies'[v].today].log)
    <3>1. /\ weeklies[v].rounds[k].mark <= Len(dirs[weeklies[v].today].log)
          /\ weeklies[v].rounds[k].mark \in Nat /\ weeklies[v].today \in 0..MaxDay
      BY <1>1, <1>5, <2>1
    <3>2. CASE weeklies[v].today # t BY <2>1, <3>1, <3>2
    <3>3. CASE weeklies[v].today = t
      <4>1. Len(dirs[t].log) \in Nat BY <1>4, <2>1
      <4>2. Len(dirs'[t].log) = Len(dirs[t].log) + 1 BY <2>5
      <4>3. \A a, b, c \in Nat : a <= b /\ c = b + 1 => a <= c OBVIOUS
      <4>4. weeklies[v].rounds[k].mark <= Len(dirs'[t].log)
        <5> DEFINE a == weeklies[v].rounds[k].mark b == Len(dirs[t].log) c == Len(dirs'[t].log)
        <5>1. a \in Nat /\ b \in Nat /\ c = b + 1 /\ a <= b BY <3>1, <3>3, <4>1, <4>2
        <5> HIDE DEF a, b, c
        <5>2. c \in Nat BY <5>1
        <5> QED BY <5>1, <5>2, <4>3 DEF a, c
      <4> QED BY <2>1, <3>3, <4>4
    <3> QED BY <3>2, <3>3
  <2> QED BY <2>7, <2>8 DEF Banners
<1> QED BY <1>7, <1>8, LogsKeep

(* The verdict of the round that is judged. *)
LEMMA VerdictFacts ==
  ASSUME WeeklyAssumption, WeeklyType, Stage, Banners, NEW w \in Weeklies, NEW j, Judge(w, j)
  PROVE  LET n == Number(w) x == weeklies'[w].rounds[n] IN
         /\ weeklies[w].sol = "verdict" /\ dirs' = dirs /\ n \in 1..Attempts /\ n = Len(weeklies[w].rounds)
         /\ x.rollout = Current(w).rollout /\ x.wide = Current(w).wide
         /\ x.kind = "ok" => /\ x.read \in Sessions /\ Answer(weeklies, x.read)
                             /\ x.read[1] \in OfDay(weeklies, weeklies[w].today)
                             /\ x.read[1] = w => x.read = <<w, n>>
         /\ (/\ ~x.wide /\ Lonely(weeklies, w) /\ <<w, n>> \in Range(dirs[weeklies[w].today].log))
              => x.kind = Classify(x.rollout)
<1> DEFINE n == Number(w) x == weeklies'[w].rounds[n] c == Current(w) kind == Kind(w, j)
           read == ReadFrom(w, j) exit == ExitOf(kind, n) t == weeklies[w].today
           e == [c EXCEPT !.kind = kind, !.read = read]
           records == IF kind = "ok" THEN weeklies[w].records ELSE weeklies[w].records + 1
           sol == IF exit = "none" THEN "round" ELSE "ended"
<1>1. /\ weeklies[w].sol = "verdict" /\ dirs' = dirs /\ Onward(w, e, sol, exit, records)
      /\ j \in Found(w) /\ kind \in Verdicts
  BY RoundJudged
<1>2. n \in 1..Attempts /\ n = Len(weeklies[w].rounds) /\ c \in RoundStates /\ c = weeklies[w].rounds[n]
      /\ weeklies[w].pc # "off"
  BY <1>1, CurrentFacts
<1>3. e.kind = kind /\ e.read = read /\ e.rollout = c.rollout /\ e.wide = c.wide
  <2> HIDE DEF c, kind, read
  <2> QED BY <1>2 DEF RoundStates
<1>4. x = e
  <2> HIDE DEF e, sol, exit, records
  <2> QED BY <1>1 DEF Onward
<1>5. t \in 0..MaxDay /\ Dir(w) = dirs[t] /\ dirs[t].log \in Seq(Sessions) /\ Len(dirs[t].log) \in Nat
      /\ DOMAIN dirs[t].log = 1..Len(dirs[t].log)
  BY DirFacts
<1>6. n \in Nat /\ n \in 1..n /\ c.mark \in Nat
  <2> HIDE DEF n, c
  <2> QED BY <1>2 DEF Attempts, RoundStates
<1>7. After(w) = {i \in 1..Len(dirs[t].log) : i > c.mark} BY <1>5 DEF After
(* A banner behind the mark is that of the current round or of another run. *)
<1>8. ASSUME NEW i \in After(w)
      PROVE  /\ dirs[t].log[i] \in Sessions /\ dirs[t].log[i][1] \in OfDay(weeklies, t)
             /\ dirs[t].log[i][2] \in 1..Len(weeklies[dirs[t].log[i][1]].rounds)
             /\ dirs[t].log[i][1] = w => dirs[t].log[i] = <<w, n>>
  <2> DEFINE b == dirs[t].log[i]
  <2>1. i \in 1..Len(dirs[t].log) /\ i > c.mark /\ i \in Nat BY <1>7
  <2>2. b \in Sessions /\ b[1] \in OfDay(weeklies, t) /\ Placed(weeklies, b, i) BY <1>5, <2>1 DEF Banners
  <2>3. b[2] \in 1..Len(weeklies[b[1]].rounds) BY <2>2 DEF Placed
  <2>4. ASSUME b[1] = w PROVE b = <<w, n>>
    <3>1. b[2] \in 1..n /\ \A k \in (b[2] + 1)..n : i <= weeklies[w].rounds[k].mark
      BY <1>2, <2>2, <2>4 DEF Placed
    <3>2. ~(n \in (b[2] + 1)..n) BY <1>2, <1>6, <2>1, <3>1
    <3>3. b[2] = n BY <1>6, <3>1, <3>2
    <3> QED BY <2>2, <2>4, <3>3 DEF Sessions
  <2> QED BY <2>2, <2>3, <2>4
<1>9. ASSUME kind = "ok"
      PROVE  /\ read \in Sessions /\ Answer(weeklies, read) /\ read[1] \in OfDay(weeklies, t)
             /\ read[1] = w => read = <<w, n>>
  <2>1. j # 0 /\ Classify(RoundOf(w, j).rollout) = "ok" BY <1>9 DEF Kind
  <2>2. j \in After(w) BY <1>1, <2>1 DEF Found
  <2>3. read = dirs[t].log[j] BY <1>5, <2>1 DEF ReadFrom
  <2>4. Answered(RoundOf(w, j).rollout) BY <2>1 DEF Classify, Answered
  <2>5. RoundOf(w, j) = weeklies[read[1]].rounds[read[2]] BY <1>5, <2>3 DEF RoundOf
  <2> HIDE DEF read, kind
  <2> QED BY <1>8, <2>2, <2>3, <2>4, <2>5 DEF Answer
<1>10. ASSUME ~c.wide, Lonely(weeklies, w), <<w, n>> \in Range(dirs[t].log) PROVE kind = Classify(c.rollout)
  <2>1. PICK i \in 1..Len(dirs[t].log) : dirs[t].log[i] = <<w, n>> BY <1>5, <1>10 DEF Range
  <2>2. Placed(weeklies, <<w, n>>, i) BY <1>5, <2>1 DEF Banners
  <2>3. c.mark < i BY <1>2, <2>2 DEF Placed
  <2>4. i \in After(w) BY <1>6, <1>7, <2>1, <2>3
  <2>5. j \in After(w) BY <1>1, <1>10, <2>4 DEF Found
  <2>6. dirs[t].log[j] = <<w, n>> BY <1>8, <1>10, <2>5 DEF Lonely
  <2>7. RoundOf(w, j) = c BY <1>2, <1>5, <2>6 DEF RoundOf
  <2>8. j # 0 BY <1>5, <1>7, <2>5
  <2> HIDE DEF c
  <2> QED BY <2>7, <2>8 DEF Kind
<1> HIDE DEF e, kind, exit, sol, records, read, c
<1>11. /\ x.rollout = c.rollout /\ x.wide = c.wide
       /\ x.kind = "ok" => /\ x.read \in Sessions /\ Answer(weeklies, x.read)
                           /\ x.read[1] \in OfDay(weeklies, t) /\ (x.read[1] = w => x.read = <<w, n>>)
       /\ (~x.wide /\ Lonely(weeklies, w) /\ <<w, n>> \in Range(dirs[t].log)) => x.kind = Classify(x.rollout)
  BY <1>3, <1>4, <1>9, <1>10
<1> QED BY <1>1, <1>2, <1>11 DEF c

LEMMA JudgedStep ==
  ASSUME TriageAssumption, WeeklyAssumption, TriageType, WeeklyType, Stage, Banners, Judged,
         NEW w \in Weeklies, WeeklyStep(w)
  PROVE  Judged'
<1>1. \A v \in Weeklies : RoundsStay(w, v) BY RoundsKeep
<1>2. /\ \A m : OfDay(weeklies, m) \subseteq OfDay(weeklies', m)
      /\ \A v \in Weeklies :
           weeklies[v].pc # "off" => weeklies'[v].pc # "off" /\ weeklies'[v].today = weeklies[v].today
  BY DayKeeps
<1>3. \A v \in Weeklies : /\ weeklies[v].today \in 0..MaxDay /\ Len(weeklies[v].rounds) \in Nat
                          /\ weeklies[v].pc = "off" => Len(weeklies[v].rounds) = 0
  <2> SUFFICES ASSUME NEW v \in Weeklies
               PROVE  /\ weeklies[v].today \in 0..MaxDay /\ Len(weeklies[v].rounds) \in Nat
                      /\ weeklies[v].pc = "off" => Len(weeklies[v].rounds) = 0
    OBVIOUS
  <2>1. weeklies[v].rounds \in Seq(RoundStates) /\ weeklies[v].today \in 0..MaxDay
    BY DEF WeeklyType, WeeklyStates
  <2>2. weeklies[v].pc = "off" => weeklies[v].rounds = <<>> BY DEF Stage, Stands, NoWeekly
  <2> QED BY <2>1, <2>2
(* An answer stays one. *)
<1>4. ASSUME NEW e \in Sessions, Answer(weeklies, e) PROVE Answer(weeklies', e)
  <2> DEFINE old == weeklies[e[1]].rounds then == weeklies'[e[1]].rounds k == e[2]
  <2>1. e[1] \in Weeklies /\ k \in 1..Len(old) /\ Answered(old[k].rollout) BY <1>4 DEF Answer, Sessions
  <2>2. Len(old) \in Nat /\ Len(then) \in Nat /\ Len(old) <= Len(then) /\ Keeps(old[k], then[k])
    BY <1>1, <2>1 DEF RoundsStay
  <2>3. then[k].rollout = old[k].rollout
    <3>1. old[k].rollout # Unfinished BY <2>1 DEF Answered, Unfinished
    <3> QED BY <2>2, <3>1 DEF Keeps
  <2>4. k \in 1..Len(then)
    <3> HIDE DEF k, old, then
    <3> QED BY <2>1, <2>2
  <2> QED BY <2>1, <2>3, <2>4 DEF Answer
(* What is said of a round that was judged before stays so. *)
<1>5. ASSUME NEW v \in Weeklies, weeklies[v].pc # "off", Lonely(weeklies', v) PROVE Lonely(weeklies, v)
  BY <1>2, <1>5 DEF Lonely
<1>6. ASSUME NEW v \in Weeklies, NEW k \in 1..Len(weeklies[v].rounds),
             weeklies[v].rounds[k].kind # "none",
             <<v, k>> \in Range(dirs'[weeklies[v].today].log)
      PROVE  <<v, k>> \in Range(dirs[weeklies[v].today].log)
  <2> DEFINE t == weeklies[w].today n == Number(w)
  <2>1. CASE dirs'[weeklies[v].today].log = dirs[weeklies[v].today].log BY <1>6, <2>1
  <2>2. CASE LogGrows(w) /\ weeklies[v].today = t
    <3>1. /\ weeklies[w].sol = "running" /\ dirs'[t].log = Append(dirs[t].log, <<w, n>>)
      BY <2>2 DEF LogGrows, Dir
    <3>2. n \in 1..Attempts /\ Current(w) = weeklies[w].rounds[n] /\ Current(w).kind = "none"
      BY <3>1, CurrentFacts
    <3>3. dirs[t].log \in Seq(Sessions) BY DirFacts
    <3>4. n \in Nat
      <4> HIDE DEF n
      <4> QED BY <3>2 DEF Attempts
    <3>5. <<w, n>> \in Sessions BY <3>4 DEF Sessions
    <3>6. Range(dirs'[t].log) = Range(dirs[t].log) \union {<<w, n>>}
      <4> DEFINE new == <<w, n>> log == dirs[t].log
      <4>1. log \in Seq(Sessions) /\ new \in Sessions /\ dirs'[t].log = Append(log, new) BY <3>1, <3>3, <3>5
      <4> HIDE DEF new, log
      <4>2. Range(dirs'[t].log) = Range(log) \union {new} BY <4>1, AppendFacts
      <4> QED BY <4>2 DEF new, log
    <3>7. <<v, k>> # <<w, n>> BY <1>6, <3>2
    <3> QED BY <1>6, <2>2, <3>6, <3>7
  <2>3. CASE LogGrows(w) /\ weeklies[v].today # t BY <1>3, <1>6, <2>3 DEF LogGrows
  <2> QED BY <1>3, <2>1, <2>2, <2>3, LogsKeep
<1>7. ASSUME NEW v \in Weeklies, NEW k \in 1..Len(weeklies'[v].rounds)
      PROVE  LET r == weeklies'[v].rounds[k] IN
             /\ r.kind = "ok" => /\ r.read \in Sessions /\ Answer(weeklies', r.read)
                                 /\ \/ r.read = <<v, k>>
                                    \/ r.read[1] # v /\ r.read[1] \in OfDay(weeklies', weeklies'[v].today)
             /\ (/\ r.kind # "none" /\ ~r.wide /\ Lonely(weeklies', v)
                 /\ <<v, k>> \in Range(dirs'[weeklies'[v].today].log)) => r.kind = Classify(r.rollout)
  <2> DEFINE r == weeklies'[v].rounds[k] old == weeklies[v].rounds[k] t == weeklies[v].today
  <2>1. CASE r.kind = "none" BY <2>1
  <2>2. CASE r.kind # "none"
    <3>1. k \in 1..Len(weeklies[v].rounds)
      <4>1. ~Fresh(w, r) BY <2>2 DEF Fresh
      <4> QED BY <1>1, <1>7, <4>1 DEF RoundsStay
    <3>2. weeklies[v].pc # "off" /\ weeklies'[v].today = t BY <1>2, <1>3, <3>1
    <3>3. CASE old.kind # "none"
      <4>1. r = old BY <1>1, <3>1, <3>3 DEF RoundsStay, Keeps
      <4>2. /\ old.kind = "ok" => /\ old.read \in Sessions /\ Answer(weeklies, old.read)
                                  /\ \/ old.read = <<v, k>>
                                     \/ old.read[1] # v /\ old.read[1] \in OfDay(weeklies, t)
            /\ (~old.wide /\ Lonely(weeklies, v) /\ <<v, k>> \in Range(dirs[t].log))
                 => old.kind = Classify(old.rollout)
        BY <3>1, <3>3 DEF Judged
      <4>3. old.kind = "ok" => Answer(weeklies', old.read) BY <1>4, <4>2
      <4>4. Lonely(weeklies', v) => Lonely(weeklies, v) BY <1>5, <3>2
      <4>5. <<v, k>> \in Range(dirs'[t].log) => <<v, k>> \in Range(dirs[t].log) BY <1>6, <3>1, <3>3
      <4>6. OfDay(weeklies, t) \subseteq OfDay(weeklies', t) BY <1>2
      <4> HIDE DEF old, t
      <4> QED BY <3>2, <4>1, <4>2, <4>3, <4>4, <4>5, <4>6
    <3>4. CASE old.kind = "none"
      <4>1. v = w /\ k = Number(w) /\ \E j : Judge(w, j) BY <1>1, <2>2, <3>1, <3>4 DEF RoundsStay
      <4>2. PICK j : Judge(w, j) BY <4>1
      <4>3. /\ dirs' = dirs
            /\ r.kind = "ok" => /\ r.read \in Sessions /\ Answer(weeklies, r.read)
                                /\ r.read[1] \in OfDay(weeklies, t)
                                /\ r.read[1] = v => r.read = <<v, k>>
            /\ (~r.wide /\ Lonely(weeklies, v) /\ <<v, k>> \in Range(dirs[t].log))
                 => r.kind = Classify(r.rollout)
        BY <4>1, <4>2, VerdictFacts
      <4>4. r.kind = "ok" => Answer(weeklies', r.read) BY <1>4, <4>3
      <4>5. Lonely(weeklies', v) => Lonely(weeklies, v) BY <1>5, <3>2
      <4>6. OfDay(weeklies, t) \subseteq OfDay(weeklies', t) BY <1>2
      <4> HIDE DEF t
      <4> QED BY <3>2, <4>3, <4>4, <4>5, <4>6
    <3> QED BY <3>3, <3>4
  <2> QED BY <2>1, <2>2
<1> QED BY <1>7 DEF Judged

-----------------------------------------------------------------------------
(* The invariant of the weekly runs, and what it promises. *)

(* Every step keeps WeeklyInv. *)
LEMMA WeeklyStepKeeps ==
  ASSUME TriageAssumption, WeeklyAssumption, TriageType, WeeklyInv, [Next]_vars
  PROVE  WeeklyInv'
<1> USE DEF WeeklyInv
<1>1. ASSUME UNCHANGED <<weeklies, dirs>>
      PROVE  WeeklyType' /\ Stage' /\ RoundsOf' /\ Authors' /\ Banners' /\ Judged'
  <2>1. weeklies' = weeklies /\ dirs' = dirs BY <1>1
  <2>2. WeeklyType' BY <2>1 DEF WeeklyType
  <2>3. Stage' BY <2>1 DEF Stage
  <2>4. RoundsOf' BY <2>1, Zenon DEF RoundsOf
  <2>5. Authors' BY <2>1, Zenon DEF Authors
  <2>6. Banners' BY <2>1, Zenon DEF Banners
  <2>7. Judged' BY <2>1, Zenon DEF Judged
  <2> QED BY <2>2, <2>3, <2>4, <2>5, <2>6, <2>7
<1>2. CASE UNCHANGED vars
  <2>1. Lengths' BY <1>2, Zenon DEF vars, triageVars, Lengths
  <2> QED BY <1>1, <1>2, <2>1 DEF vars
<1>3. CASE Next
  <2>1. Lengths' BY <1>3, LengthsStep
  <2>2. CASE UNCHANGED <<weeklies, dirs>>
    BY <1>1, <2>1, <2>2
  <2>3. ASSUME NEW w \in Weeklies, WeeklyStep(w) PROVE WeeklyInv'
    <3>1. weeklies' \in [Weeklies -> WeeklyStates] /\ dirs' \in [0..MaxDay -> DirStates]
      BY <2>3, WeeklyWrites DEF WeeklyType
    <3>2. Stage' /\ RoundsOf' /\ Authors' BY <2>3, StageStep, RoundsStep, AuthorsStep
    <3>3. Banners' /\ Judged' BY <2>3, BannersStep, JudgedStep
    <3> QED BY <2>1, <3>1, <3>2, <3>3 DEF WeeklyType
  <2> QED BY <1>3, <2>2, <2>3 DEF Next
<1> QED BY <1>2, <1>3

(* WeeklyInv holds throughout. *)
THEOREM WeeklyInvariance == Spec => []WeeklyInv
<1> USE TriageAssumption, WeeklyAssumption
<1>1. Init => WeeklyInv BY WeeklyStart
<1>2. TriageType /\ WeeklyInv /\ [Next]_vars => WeeklyInv' BY WeeklyStepKeeps
<1>3. TriageInv => TriageType BY DEF TriageInv
<1> QED BY <1>1, <1>2, <1>3, TriageInvariance, PTL DEF Spec

(* Nothing falls between two weekly runs that are a week apart, unless it is
   headed by a section that was there before the first. *)
THEOREM SectionsReachAWeekTheorem == Spec => []SectionsReachAWeek
<1>1. TriageType /\ WeeklyInv => SectionsReachAWeek
  <2> SUFFICES ASSUME TriageType, WeeklyInv, NEW v \in Weeklies, NEW w \in Weeklies,
                      weeklies[v].pc # "off", weeklies[w].pc # "off",
                      weeklies[w].today <= weeklies[v].today + Week,
                      NEW n \in (weeklies[v].length + 1)..weeklies[w].length,
                      NEW m \in (weeklies[v].length + 1)..n,
                      Heads(m, n), inbox[m].day = inbox[m].on
               PROVE  n \in weeklies[w].input
    BY DEF SectionsReachAWeek
  <2>1. /\ weeklies[v].length \in Nat /\ weeklies[w].length \in Nat /\ Len(inbox) \in Nat
        /\ weeklies[v].today \in Nat /\ weeklies[w].today \in Nat /\ Week \in Nat
    BY WeeklyAssumption DEF TriageType, WeeklyInv, WeeklyType, WeeklyStates
  <2>2. weeklies[w].length <= Len(inbox) BY DEF WeeklyInv, Lengths
  <2>3. /\ n \in 1..weeklies[w].length /\ m \in 1..n
        /\ m \in (weeklies[v].length + 1)..Len(inbox) /\ m \in 1..Len(inbox)
    BY <2>1, <2>2
  <2>4. inbox[m] \in Sections BY <2>3 DEF TriageType
  <2>5. inbox[m].day \in Nat /\ inbox[m].on >= weeklies[v].today
    BY <2>3, <2>4 DEF Sections, WeeklyInv, Lengths
  <2>6. Recent(inbox[m], weeklies[w].today) BY <2>1, <2>5 DEF Recent
  <2>7. KeepIn(inbox, n, weeklies[w].today) BY <2>3, <2>6 DEF KeepIn, Heads
  <2> QED BY <2>3, <2>7 DEF WeeklyInv, Lengths
<1>2. TriageInv => TriageType BY DEF TriageInv
<1> QED BY <1>1, <1>2, TriageInvariance, WeeklyInvariance, PTL

(* "Never let a dead run pass as no findings", and the lanes of each run. *)
THEOREM LanesTheorem == Spec => []LanesTellWhatTheyHave
<1>1. WeeklyInv => DeadRoundsAreTold
  <2> SUFFICES ASSUME WeeklyInv, NEW w \in Weeklies
               PROVE  LET s == weeklies[w] n == Number(w) IN
                 /\ s.exit = "codex" =>
                      /\ Answered(Rollout(s.rounds[n].read))
                      /\ s.rounds[n].read = <<w, n>> \/ Sibling(s.rounds[n].read[1], w)
                 /\ n <= Attempts
                 /\ s.records = Cardinality({k \in 1..n : s.rounds[k].kind \notin {"ok", "none"}})
                                + (IF s.exit = "97" /\ n = 0 THEN 1 ELSE 0)
                 /\ \A k \in 1..n : s.rounds[k].kind = "none" => k = n /\ Undecided(s)
                 /\ \A k \in 1..n :
                      (/\ Alone(w) /\ ~s.rounds[k].wide /\ <<w, k>> \in Range(Dir(w).log)
                       /\ s.rounds[k].kind # "none") =>
                        /\ Answered(s.rounds[k].rollout) => k = n /\ s.exit = "codex"
                        /\ AccountFailed(s.rounds[k].rollout) => k = n /\ s.exit = "97"
    BY DEF DeadRoundsAreTold
  <2> DEFINE s == weeklies[w] n == Number(w)
  <2>1. /\ n <= Attempts
        /\ s.exit = "codex" => n > 0 /\ s.rounds[n].kind = "ok"
        /\ s.records = Cardinality({k \in 1..n : s.rounds[k].kind \notin {"ok", "none"}})
                       + (IF s.exit = "97" /\ n = 0 THEN 1 ELSE 0)
    BY DEF WeeklyInv, RoundsOf, Told, Failures, Number
  <2>2. \A k \in 1..n :
          /\ s.rounds[k].kind = "ok" => k = n /\ s.exit = "codex"
          /\ s.rounds[k].kind \in Infrastructure => k = n /\ s.exit = "97"
          /\ s.rounds[k].kind = "none" => k = n /\ Undecided(s)
    BY DEF WeeklyInv, RoundsOf, Told, Number
  <2>3. n \in Nat /\ n = Len(s.rounds)
    <3>1. s.rounds \in Seq(RoundStates) BY DEF WeeklyInv, WeeklyType, WeeklyStates
    <3> QED BY <3>1 DEF Number
  <2>4. ASSUME s.exit = "codex"
        PROVE  /\ Answered(Rollout(s.rounds[n].read))
               /\ s.rounds[n].read = <<w, n>> \/ Sibling(s.rounds[n].read[1], w)
    <3> DEFINE e == s.rounds[n].read
    <3>1. n \in 1..Len(s.rounds) /\ s.rounds[n].kind = "ok" BY <2>1, <2>3, <2>4
    <3>2. /\ e \in Sessions /\ Answer(weeklies, e)
          /\ e = <<w, n>> \/ (e[1] # w /\ e[1] \in OfDay(weeklies, s.today))
      BY <3>1 DEF WeeklyInv, Judged
    <3> QED BY <3>2 DEF Answer, Rollout, OfDay, Sibling
  <2>5. ASSUME NEW k \in 1..n, Alone(w), ~s.rounds[k].wide, <<w, k>> \in Range(Dir(w).log),
               s.rounds[k].kind # "none"
        PROVE  /\ Answered(s.rounds[k].rollout) => k = n /\ s.exit = "codex"
               /\ AccountFailed(s.rounds[k].rollout) => k = n /\ s.exit = "97"
    <3>1. Lonely(weeklies, w) BY <2>5 DEF Alone, Lonely, OfDay, Sibling
    <3>2. s.rounds[k].kind = Classify(s.rounds[k].rollout)
      BY <2>3, <2>5, <3>1 DEF WeeklyInv, Judged, Dir
    <3>3. Answered(s.rounds[k].rollout) => Classify(s.rounds[k].rollout) = "ok" BY DEF Answered, Classify
    <3>4. AccountFailed(s.rounds[k].rollout) => Classify(s.rounds[k].rollout) \in Infrastructure
      BY DEF AccountFailed, Classify, Infrastructure
    <3> QED BY <2>2, <3>2, <3>3, <3>4
  <2> QED BY <2>1, <2>2, <2>4, <2>5
<1>2. WeeklyInv => OwnLanes
  <2> SUFFICES ASSUME WeeklyInv, NEW w \in Weeklies, weeklies[w].pc = "ended"
               PROVE  LET s == weeklies[w] IN
                        /\ \A v \in s.readOpus : v = w \/ Sibling(v, w)
                        /\ s.readSol = 0 => \A k \in DOMAIN s.rounds : ~s.rounds[k].wrote
                        /\ \A v \in {s.readSol, s.report} \ {0, w} : Sibling(v, w)
    BY DEF OwnLanes
  <2>1. LET s == weeklies[w] IN
          /\ s.readOpus \subseteq OfDay(weeklies, s.today)
          /\ {s.readSol, s.report} \subseteq {0} \union OfDay(weeklies, s.today)
          /\ \A k \in DOMAIN s.rounds : s.rounds[k].wrote =>
               dirs[s.today].sol # 0 /\ (s.pc = "ended" => s.readSol # 0)
    BY DEF WeeklyInv, Authors, Wrote
  <2>2. \A v \in OfDay(weeklies, weeklies[w].today) : v = w \/ Sibling(v, w) BY DEF OfDay, Sibling
  <2> QED BY <2>1, <2>2
<1>3. WeeklyInv => LanesTellWhatTheyHave BY <1>1, <1>2 DEF LanesTellWhatTheyHave
<1> QED BY <1>3, WeeklyInvariance, PTL
=============================================================================
