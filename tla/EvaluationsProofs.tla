-------------------------- MODULE EvaluationsProofs --------------------------
(***************************************************************************)
(* Proofs about Evaluations: about pipeline runs with any stages, pins and *)
(* answers, and about analyzer runs with any modes, labels and documents.  *)
(*                                                                         *)
(* The recursive functions of the model (sums of costs, what is kept of a  *)
(* sequence, the greedy matching, sums over sets) are characterized first, *)
(* by induction in the form of a least counterexample, with the sign of    *)
(* the ratios the reduction compares.  The invariants then say how far the *)
(* files of the current pair are, that no pair has another's record, and   *)
(* that a promotion has two arms and no losing interval.                   *)
(***************************************************************************)
EXTENDS Evaluations, FiniteSetTheorems, FunctionTheorems, WellFoundedInduction, TLAPS

(* The order of the numbers is well founded. *)
LEMMA NatOrder == \E R : IsWellFoundedOn(R, Nat) /\ \A x, y \in Nat : <<y, x>> \in R <=> y < x
<1>1. IsWellFoundedOn(OpToRel(<, Nat), Nat) BY NatLessThanWellFounded
<1>2. \A x, y \in Nat : <<y, x>> \in OpToRel(<, Nat) <=> y < x BY DEF OpToRel
<1> QED BY <1>1, <1>2, Zenon

(* Such a set has a least element. *)
LEMMA Least == ASSUME NEW T, T \subseteq Nat, T # {} PROVE \E m \in T : \A k \in T : m <= k
<1>1. PICK R : IsWellFoundedOn(R, Nat) /\ \A x, y \in Nat : <<y, x>> \in R <=> y < x BY NatOrder
<1>2. PICK x \in T : \A y \in T : ~(<<y, x>> \in R) BY <1>1, WFMin
<1>3. ASSUME NEW k \in T PROVE x <= k
  <2>1. x \in Nat /\ k \in Nat OBVIOUS
  <2>2. ~(<<k, x>> \in R) BY <1>2
  <2> QED BY <1>1, <2>1, <2>2
<1> QED BY <1>3

(* What holds of 0 and passes on to the next number holds up to N. *)
LEMMA Induct ==
  ASSUME NEW N \in Nat, NEW H, 0 \in H, \A n \in 1..N : n - 1 \in H => n \in H
  PROVE  0..N \subseteq H
<1> SUFFICES ASSUME NEW k \in 0..N, k \notin H PROVE FALSE OBVIOUS
<1> DEFINE T == {n \in 0..N : n \notin H}
<1>1. T \subseteq Nat /\ T # {} OBVIOUS
<1>2. PICK m \in T : \A n \in T : m <= n
  <2> HIDE DEF T
  <2> QED BY <1>1, Least
<1>3. m \in 1..N /\ m \notin H OBVIOUS
<1>4. m - 1 \in H BY <1>2, <1>3
<1> QED BY <1>3, <1>4

(* f starts at base, and st leads from each value to the next. *)
Recursive(f, N, base, st) == f[0] = base /\ \A i \in 1..N : f[i] = st[<<i, f[i - 1]>>]

(* A function may be defined by recursion over 0..N. *)
LEMMA Recursion ==
  ASSUME NEW N \in Nat, NEW V, NEW base \in V, NEW st \in [(1..N) \X V -> V]
  PROVE  \E f \in [0..N -> V] : Recursive(f, N, base, st)
<1> USE DEF Recursive
<1> DEFINE Fits(f, n) == f[0] = base /\ \A i \in 1..n : f[i] = st[<<i, f[i - 1]>>]
           H == {n \in 0..N : \E f \in [0..n -> V] : Fits(f, n)}
<1>1. 0 \in H
  <2>1. [i \in 0..0 |-> base] \in [0..0 -> V] /\ Fits([i \in 0..0 |-> base], 0) OBVIOUS
  <2>2. 0 \in 0..N OBVIOUS
  <2>3. \E f \in [0..0 -> V] : Fits(f, 0) BY <2>1
  <2> QED BY <2>2, <2>3
<1>2. ASSUME NEW n \in 1..N, n - 1 \in H PROVE n \in H
  <2>1. PICK f \in [0..(n - 1) -> V] : Fits(f, n - 1) BY <1>2
  <2> DEFINE g == [i \in 0..n |-> IF i = n THEN st[<<n, f[n - 1]>>] ELSE f[i]]
  <2>2. f[n - 1] \in V /\ <<n, f[n - 1]>> \in (1..N) \X V OBVIOUS
  <2>3. st[<<n, f[n - 1]>>] \in V BY <2>2
  <2>4. g \in [0..n -> V] BY <2>3
  <2>5. g[0] = base BY <2>1
  <2>6. \A i \in 1..n : g[i] = st[<<i, g[i - 1]>>]
    <3> SUFFICES ASSUME NEW i \in 1..n PROVE g[i] = st[<<i, g[i - 1]>>] OBVIOUS
    <3>1. g[i - 1] = f[i - 1] OBVIOUS
    <3>2. CASE i = n
      <4>1. g[n] = st[<<n, f[n - 1]>>] OBVIOUS
      <4> QED BY <3>1, <3>2, <4>1
    <3>3. CASE i # n
      <4>1. i \in 1..(n - 1) /\ g[i] = f[i] BY <3>3
      <4> QED BY <2>1, <3>1, <4>1
    <3> QED BY <3>2, <3>3
  <2>7. n \in 0..N OBVIOUS
  <2> QED BY <2>4, <2>5, <2>6, <2>7
<1>3. 0..N \subseteq H
  <2> HIDE DEF H
  <2> QED BY <1>1, <1>2, Induct
<1> QED BY <1>3

-----------------------------------------------------------------------------
(* The cost of a run with one more call is what it was and the call's. *)
CostSums(q, f) == /\ f \in [0..Len(q) -> Int] /\ f[0] = 0
                  /\ \A i \in 1..Len(q) : f[i] = f[i - 1] + q[i].cost
Costs(q) == q \in Seq(Range(q)) /\ \A n \in 1..Len(q) : q[n].cost \in Int

(* CostOf is the last of the sums. *)
LEMMA CostFacts == ASSUME NEW q, Costs(q) PROVE \E f : CostSums(q, f) /\ CostOf(q) = f[Len(q)]
<1> DEFINE N == Len(q)
           st == [p \in (1..N) \X Int |-> p[2] + q[p[1]].cost]
           Eq(g) == g = [n \in 0..N |-> IF n = 0 THEN 0 ELSE g[n - 1] + q[n].cost]
           f == CHOOSE h : Eq(h)
<1>1. N \in Nat /\ \A n \in 1..N : q[n].cost \in Int BY DEF Costs
<1>2. st \in [(1..N) \X Int -> Int] BY <1>1
<1>3. PICK g \in [0..N -> Int] : Recursive(g, N, 0, st)
  <2> DEFINE V == Int base == 0
  <2>1. N \in Nat /\ base \in V /\ st \in [(1..N) \X V -> V] BY <1>1, <1>2
  <2> HIDE DEF N, st, V, base
  <2>2. \E g \in [0..N -> V] : Recursive(g, N, base, st) BY <2>1, Recursion
  <2> QED BY <2>2 DEF V, base
<1>4. \A i \in 1..N : g[i] = g[i - 1] + q[i].cost
  <2> SUFFICES ASSUME NEW i \in 1..N PROVE g[i] = g[i - 1] + q[i].cost OBVIOUS
  <2>1. g[i - 1] \in Int BY <1>1
  <2>2. g[i] = st[<<i, g[i - 1]>>] BY <1>3 DEF Recursive
  <2> QED BY <2>1, <2>2
<1>5. Eq(g)
  <2>1. \A n \in 0..N : g[n] = IF n = 0 THEN 0 ELSE g[n - 1] + q[n].cost
    <3> SUFFICES ASSUME NEW n \in 0..N PROVE g[n] = IF n = 0 THEN 0 ELSE g[n - 1] + q[n].cost OBVIOUS
    <3>1. CASE n = 0 BY <1>3, <3>1 DEF Recursive
    <3>2. CASE n # 0
      <4>1. n \in 1..N BY <1>1, <3>2
      <4> QED BY <1>4, <3>2, <4>1
    <3> QED BY <3>1, <3>2
  <2> QED BY <2>1
<1>6. Eq(f) BY <1>5
<1>7. CostOf(q) = f[N] BY DEF CostOf, Total
<1>8. \A n \in 0..N : f[n] = IF n = 0 THEN 0 ELSE f[n - 1] + q[n].cost
  <2> HIDE DEF f
  <2> QED BY <1>6
<1>9. f \in [0..N -> Int]
  <2> HIDE DEF f, N
  <2> DEFINE H == {n \in 0..N : f[n] \in Int}
  <2>1. 0 \in H BY <1>1, <1>8
  <2>2. \A n \in 1..N : n - 1 \in H => n \in H
    <3> SUFFICES ASSUME NEW n \in 1..N, n - 1 \in H PROVE n \in H OBVIOUS
    <3>1. n \in 0..N /\ n # 0 BY <1>1
    <3>2. f[n] = f[n - 1] + q[n].cost BY <1>8, <3>1
    <3> QED BY <1>1, <3>1, <3>2
  <2>3. 0..N \subseteq H
    <3> HIDE DEF H
    <3> QED BY <1>1, <2>1, <2>2, Induct
  <2>4. DOMAIN f = 0..N BY <1>6
  <2>5. f = [n \in 0..N |-> f[n]] BY <1>6, <2>4
  <2> QED BY <2>3, <2>5
<1>10. f[0] = 0 /\ \A i \in 1..N : f[i] = f[i - 1] + q[i].cost
  <2>1. \A i \in 1..N : i \in 0..N /\ i # 0 BY <1>1
  <2>2. 0 \in 0..N BY <1>1
  <2> HIDE DEF f
  <2> QED BY <1>8, <2>1, <2>2
<1> HIDE DEF f
<1>11. CostSums(q, f) BY <1>9, <1>10 DEF CostSums
<1> QED BY <1>7, <1>11

(* Sequences of any values. *)
IsList(q) == q \in Seq(Range(q))

(* Whatever the set is, it is such a sequence. *)
LEMMA ListFacts ==
  ASSUME NEW q, NEW S, q \in Seq(S)
  PROVE  IsList(q) /\ Len(q) \in Nat /\ DOMAIN q = 1..Len(q)
<1>1. Len(q) \in Nat /\ DOMAIN q = 1..Len(q) /\ \A n \in 1..Len(q) : q[n] \in Range(q) BY DEF Range
<1>2. q = [n \in 1..Len(q) |-> q[n]] OBVIOUS
<1>3. q \in [1..Len(q) -> Range(q)] BY <1>1, <1>2
<1>4. q \in Seq(Range(q)) BY <1>1, <1>3
<1> QED BY <1>1, <1>4 DEF IsList

(* One more member changes no other one, *)
LEMMA AppendFacts ==
  ASSUME NEW q, IsList(q), NEW e
  PROVE  /\ IsList(Append(q, e)) /\ Len(Append(q, e)) = Len(q) + 1 /\ Len(q) \in Nat
         /\ DOMAIN Append(q, e) = 1..(Len(q) + 1) /\ DOMAIN q = 1..Len(q)
         /\ Append(q, e)[Len(q) + 1] = e /\ \A n \in 1..Len(q) : Append(q, e)[n] = q[n]
<1> DEFINE S == Range(q) \union {e}
<1>1. \A s \in Seq(Range(q)) : s \in Seq(S) OBVIOUS
<1>2. q \in Seq(S) /\ e \in S BY <1>1 DEF IsList
<1> HIDE DEF S
<1>3. Append(q, e) \in Seq(S) /\ Len(Append(q, e)) = Len(q) + 1 BY <1>2
<1>4. /\ DOMAIN Append(q, e) = 1..(Len(q) + 1) /\ Append(q, e)[Len(q) + 1] = e
      /\ \A n \in 1..Len(q) : Append(q, e)[n] = q[n]
  BY <1>2
<1>5. IsList(Append(q, e)) BY <1>3, ListFacts
<1> QED BY <1>2, <1>3, <1>4, <1>5, ListFacts

(* nor any proper prefix. *)
LEMMA PrefixFacts ==
  ASSUME NEW q, IsList(q), NEW e
  PROVE  /\ SubSeq(q, 1, Len(q)) = q
         /\ \A k \in 0..Len(q) : SubSeq(Append(q, e), 1, k) = SubSeq(q, 1, k)
<1>1. Len(q) \in Nat /\ q = [n \in 1..Len(q) |-> q[n]] BY DEF IsList
<1>2. SubSeq(q, 1, Len(q)) = [n \in 1..Len(q) |-> q[n]] BY <1>1 DEF IsList
<1>3. ASSUME NEW k \in 0..Len(q) PROVE SubSeq(Append(q, e), 1, k) = SubSeq(q, 1, k)
  <2>1. \A n \in 1..k : Append(q, e)[n] = q[n] BY <1>1, <1>3, AppendFacts
  <2>2. SubSeq(q, 1, k) = [n \in 1..k |-> q[n]] BY <1>1, <1>3 DEF IsList
  <2>3. SubSeq(Append(q, e), 1, k) = [n \in 1..k |-> Append(q, e)[n]]
    <3>1. Append(q, e) \in Seq(Range(Append(q, e))) /\ Len(Append(q, e)) = Len(q) + 1
      BY AppendFacts DEF IsList
    <3> DEFINE a == Append(q, e) T == Range(a)
    <3>2. a \in Seq(T) /\ k \in 0..Len(a) BY <1>1, <1>3, <3>1
    <3> HIDE DEF a, T
    <3>3. SubSeq(a, 1, k) = [n \in 1..k |-> a[n]] BY <3>2
    <3> QED BY <3>3 DEF a
  <2> QED BY <2>1, <2>2, <2>3
<1> QED BY <1>1, <1>2, <1>3

(* The cost of a run without calls, and of one with a further call. *)
LEMMA NoCost == CostOf(<<>>) = 0
<1>1. Costs(<<>>) /\ Len(<<>>) = 0 BY DEF Costs
<1> DEFINE e == <<>>
<1>2. Costs(e) /\ Len(e) = 0 BY <1>1
<1> HIDE DEF e
<1>3. PICK f : CostSums(e, f) /\ CostOf(e) = f[Len(e)] BY <1>2, CostFacts
<1>4. CostOf(e) = 0 BY <1>2, <1>3 DEF CostSums
<1> QED BY <1>4 DEF e

(* A call adds its own cost to the sum. *)
LEMMA CostAppends ==
  ASSUME NEW q, Costs(q), NEW e, e.cost \in Int
  PROVE  /\ CostOf(q) \in Int /\ Costs(Append(q, e))
         /\ CostOf(Append(q, e)) = CostOf(q) + e.cost
<1> DEFINE N == Len(q) r == Append(q, e)
<1>1. IsList(q) BY DEF Costs, IsList
<1>2. /\ IsList(r) /\ Len(r) = N + 1 /\ N \in Nat /\ r[N + 1] = e /\ \A n \in 1..N : r[n] = q[n]
  BY <1>1, AppendFacts
<1>3. Costs(r)
  <2>1. ASSUME NEW n \in 1..Len(r) PROVE r[n].cost \in Int
    <3>1. CASE n = N + 1 BY <1>2, <3>1
    <3>2. CASE n # N + 1
      <4>1. n \in 1..N BY <1>2, <3>2
      <4> QED BY <1>2, <4>1 DEF Costs
    <3> QED BY <3>1, <3>2
  <2> QED BY <1>2, <2>1 DEF Costs, IsList
<1>4. PICK f : CostSums(q, f) /\ CostOf(q) = f[N] BY CostFacts
<1> HIDE DEF r
<1>5. PICK g : CostSums(r, g) /\ CostOf(r) = g[N + 1] BY <1>2, <1>3, CostFacts
<1> DEFINE H == {n \in 0..N : g[n] = f[n]}
<1>6. 0 \in H BY <1>2, <1>4, <1>5 DEF CostSums
<1>7. ASSUME NEW n \in 1..N, n - 1 \in H PROVE n \in H
  <2>1. n \in 1..Len(r) /\ n \in 0..N /\ r[n] = q[n] BY <1>2
  <2>2. g[n] = g[n - 1] + r[n].cost BY <1>5, <2>1 DEF CostSums
  <2>3. f[n] = f[n - 1] + q[n].cost BY <1>4 DEF CostSums
  <2> QED BY <1>7, <2>1, <2>2, <2>3
<1>8. g[N] = f[N]
  <2> HIDE DEF H
  <2>1. 0..N \subseteq H BY <1>2, <1>6, <1>7, Induct
  <2> USE DEF H
  <2> QED BY <1>2, <2>1
<1>9. g[N + 1] = g[N] + e.cost
  <2>1. N + 1 \in 1..Len(r) /\ (N + 1) - 1 = N BY <1>2
  <2> QED BY <1>2, <1>5, <2>1 DEF CostSums
<1>10. CostOf(q) \in Int
  <2>1. N \in 0..N BY <1>2
  <2> QED BY <1>4, <2>1 DEF CostSums
<1> QED BY <1>3, <1>4, <1>5, <1>8, <1>9, <1>10 DEF r

(* Rows of L: every number from 1 on has one place in them. *)
LEMMA Places ==
  ASSUME NEW K \in Nat, NEW L \in Nat, L # 0
  PROVE  /\ \A n \in 1..K * L : ((n - 1) \div L) + 1 \in 1..K /\ ((n - 1) % L) + 1 \in 1..L
         /\ \A n, m \in 1..K * L :
              (((n - 1) \div L) + 1 = ((m - 1) \div L) + 1 /\ ((n - 1) % L) + 1 = ((m - 1) % L) + 1)
              => n = m
<1>1. \A x \in Nat : /\ x \div L \in Nat /\ x % L \in 0..L - 1
                     /\ x = L * (x \div L) + (x % L)
  OBVIOUS
<1>2. K * L \in Nat OBVIOUS
<1>3. ASSUME NEW n \in 1..K * L PROVE ((n - 1) \div L) + 1 \in 1..K
  <2> DEFINE x == n - 1 d == x \div L
  <2>1. x \in Nat /\ x < K * L BY <1>2
  <2>2. d \in Nat /\ L * d <= x BY <1>1, <2>1
  <2> HIDE DEF d, x
  <2>3. d < K
    <3> SUFFICES ASSUME K <= d PROVE FALSE BY <2>2
    <3>1. L * K <= L * d BY <2>2
    <3>2. L * K = K * L OBVIOUS
    <3> QED BY <1>2, <2>1, <2>2, <3>1, <3>2
  <2> USE DEF d, x
  <2> QED BY <2>2, <2>3
<1>4. ASSUME NEW n \in 1..K * L PROVE n - 1 \in Nat /\ ((n - 1) % L) + 1 \in 1..L BY <1>1, <1>2
<1>5. ASSUME NEW n \in 1..K * L, NEW m \in 1..K * L, ((n - 1) \div L) + 1 = ((m - 1) \div L) + 1,
             ((n - 1) % L) + 1 = ((m - 1) % L) + 1
      PROVE  n = m
  <2>1. n - 1 \in Nat /\ m - 1 \in Nat BY <1>4
  <2>2. (n - 1) \div L = (m - 1) \div L /\ (n - 1) % L = (m - 1) % L BY <1>1, <1>5, <2>1
  <2>3. n - 1 = m - 1 BY <1>1, <2>1, <2>2
  <2> QED BY <2>1, <2>3
<1> QED BY <1>3, <1>4, <1>5

(* Items and versions: every pair once. *)
LEMMA ProductFacts ==
  ASSUME NEW a, IsList(a), a # <<>>, NEW b, IsList(b), b # <<>>
  PROVE  /\ IsList(Product(a, b)) /\ DOMAIN Product(a, b) = 1..Len(Product(a, b))
         /\ Len(Product(a, b)) \in Nat \ {0}
         /\ (IsInjective(a) /\ IsInjective(b)) =>
              \A n, m \in DOMAIN Product(a, b) :
                (Product(a, b)[n][1] = Product(a, b)[m][1] /\ Product(a, b)[n][2] = Product(a, b)[m][2])
                => n = m
<1> DEFINE K == Len(a) L == Len(b)
           First(n) == ((n - 1) \div L) + 1  Second(n) == ((n - 1) % L) + 1
           p == [n \in 1..K * L |-> <<a[First(n)], b[Second(n)]>>]
<1>1. K \in Nat /\ L \in Nat /\ K # 0 /\ L # 0 /\ DOMAIN a = 1..K /\ DOMAIN b = 1..L BY DEF IsList
<1>2. K * L \in Nat /\ K * L # 0 BY <1>1
<1>3. Product(a, b) = p BY DEF Product
<1>4. p \in Seq(Range(p)) /\ Len(p) = K * L /\ DOMAIN p = 1..K * L
  <2>1. \A S : [1..K * L -> S] \subseteq Seq(S) BY <1>2
  <2>2. DOMAIN p = 1..K * L /\ p \in [1..K * L -> Range(p)] BY DEF Range
  <2>3. p \in Seq(Range(p)) BY <2>1, <2>2
  <2> HIDE DEF p
  <2> QED BY <1>2, <2>2, <2>3
<1>5. \A n \in 1..K * L : p[n][1] = a[First(n)] /\ p[n][2] = b[Second(n)] OBVIOUS
<1>6. /\ \A n \in 1..K * L : First(n) \in 1..K /\ Second(n) \in 1..L
      /\ \A n, m \in 1..K * L : (First(n) = First(m) /\ Second(n) = Second(m)) => n = m
  <2> HIDE DEF K, L
  <2> QED BY <1>1, Places
<1> HIDE DEF p, First, Second, K, L
<1>7. ASSUME IsInjective(a), IsInjective(b), NEW n \in 1..K * L, NEW m \in 1..K * L,
             p[n][1] = p[m][1], p[n][2] = p[m][2]
      PROVE  n = m
  <2>1. a[First(n)] = a[First(m)] /\ b[Second(n)] = b[Second(m)] BY <1>5, <1>7
  <2>2. First(n) = First(m) /\ Second(n) = Second(m) BY <1>1, <1>6, <1>7, <2>1 DEF IsInjective
  <2> QED BY <1>6, <2>2
<1> QED BY <1>2, <1>3, <1>4, <1>7 DEF IsList

-----------------------------------------------------------------------------
(* Candidate pairs in their order; Blocks is the condition under which one pair
   takes the other's label or finding first. *)
Gap(ex, em, e) == Distance(ex[e[1]], em[e[2]])
Blocks(ex, em, f, e) == Earlier(ex, em, f, e) /\ (f[1] = e[1] \/ f[2] = e[2])

(* A candidate pair is a label, a finding and how far they are apart. *)
LEMMA EdgeFacts ==
  ASSUME NEW ex, Findings(ex), NEW em, Findings(em), NEW tol
  PROVE  /\ DOMAIN ex = 1..Len(ex) /\ Len(ex) \in Nat /\ DOMAIN em = 1..Len(em) /\ Len(em) \in Nat
         /\ Edges(ex, em, tol) \subseteq (1..Len(ex)) \X (1..Len(em)) /\ IsFiniteSet(Edges(ex, em, tol))
         /\ \A e \in Edges(ex, em, tol) :
              /\ e[1] \in 1..Len(ex) /\ e[2] \in 1..Len(em) /\ e = <<e[1], e[2]>>
              /\ Gap(ex, em, e) \in Nat
<1>1. /\ DOMAIN ex = 1..Len(ex) /\ Len(ex) \in Nat /\ DOMAIN em = 1..Len(em) /\ Len(em) \in Nat
      /\ \A n \in 1..Len(ex) : ex[n].line \in Nat
      /\ \A n \in 1..Len(em) : em[n].line \in Nat
  BY DEF Findings
<1>2. Edges(ex, em, tol) \subseteq (1..Len(ex)) \X (1..Len(em)) BY <1>1 DEF Edges
<1>3. IsFiniteSet((1..Len(ex)) \X (1..Len(em)))
  <2>1. IsFiniteSet(1..Len(ex)) /\ IsFiniteSet(1..Len(em)) BY <1>1, FS_Interval
  <2> QED BY <2>1, FS_Product
<1>4. IsFiniteSet(Edges(ex, em, tol)) BY <1>2, <1>3, FS_Subset
<1>5. ASSUME NEW e \in Edges(ex, em, tol)
      PROVE  /\ e[1] \in 1..Len(ex) /\ e[2] \in 1..Len(em) /\ e = <<e[1], e[2]>>
             /\ Gap(ex, em, e) \in Nat
  <2>1. e[1] \in 1..Len(ex) /\ e[2] \in 1..Len(em) /\ e = <<e[1], e[2]>> BY <1>2
  <2>2. ex[e[1]].line \in Nat /\ em[e[2]].line \in Nat BY <1>1, <2>1
  <2> QED BY <2>1, <2>2 DEF Gap, Distance
<1> QED BY <1>1, <1>2, <1>4, <1>5

(* The candidate pairs are in a strict total order, by distance first. *)
LEMMA EarlierFacts ==
  ASSUME NEW ex, Findings(ex), NEW em, Findings(em), NEW tol
  PROVE  /\ \A e \in Edges(ex, em, tol) : ~Earlier(ex, em, e, e)
         /\ \A e, f \in Edges(ex, em, tol) :
              /\ e = f \/ Earlier(ex, em, e, f) \/ Earlier(ex, em, f, e)
              /\ ~(Earlier(ex, em, e, f) /\ Earlier(ex, em, f, e))
              /\ Earlier(ex, em, e, f) => Gap(ex, em, e) <= Gap(ex, em, f)
<1> SUFFICES ASSUME NEW e \in Edges(ex, em, tol), NEW f \in Edges(ex, em, tol)
             PROVE  /\ ~Earlier(ex, em, e, e)
                    /\ e = f \/ Earlier(ex, em, e, f) \/ Earlier(ex, em, f, e)
                    /\ ~(Earlier(ex, em, e, f) /\ Earlier(ex, em, f, e))
                    /\ Earlier(ex, em, e, f) => Gap(ex, em, e) <= Gap(ex, em, f)
  OBVIOUS
<1> DEFINE Lex(x, y) == \/ Gap(ex, em, x) < Gap(ex, em, y)
                        \/ Gap(ex, em, x) = Gap(ex, em, y) /\ (x[1] < y[1] \/ (x[1] = y[1] /\ x[2] < y[2]))
<1>1. /\ e[1] \in Nat /\ e[2] \in Nat /\ e = <<e[1], e[2]>> /\ Gap(ex, em, e) \in Nat
      /\ f[1] \in Nat /\ f[2] \in Nat /\ f = <<f[1], f[2]>> /\ Gap(ex, em, f) \in Nat
  BY EdgeFacts
<1>2. \A x, y : Earlier(ex, em, x, y) <=> Lex(x, y) BY DEF Earlier, Gap
<1>3. ~Lex(e, e) BY <1>1
<1>4. e = f \/ Lex(e, f) \/ Lex(f, e) BY <1>1
<1>5. ~(Lex(e, f) /\ Lex(f, e)) BY <1>1
<1>6. Lex(e, f) => Gap(ex, em, e) <= Gap(ex, em, f) BY <1>1
<1> HIDE DEF Lex
<1> QED BY <1>2, <1>3, <1>4, <1>5, <1>6

(* Every set of candidate pairs has a first one. *)
LEMMA FirstEdge ==
  ASSUME NEW ex, Findings(ex), NEW em, Findings(em), NEW tol,
         NEW T, T \subseteq Edges(ex, em, tol), T # {}
  PROVE  \E e \in T : \A f \in T : f = e \/ Earlier(ex, em, e, f)
<1>0. \A e \in T : e[1] \in Nat /\ e[2] \in Nat /\ e = <<e[1], e[2]>> /\ Gap(ex, em, e) \in Nat
  BY EdgeFacts
<1> DEFINE D == {Gap(ex, em, e) : e \in T}
<1>1. PICK d \in D : \A x \in D : d <= x
  <2>1. D \subseteq Nat /\ D # {} BY <1>0
  <2> HIDE DEF D
  <2> QED BY <2>1, Least
<1> DEFINE T1 == {e \in T : Gap(ex, em, e) = d}  A == {e[1] : e \in T1}
<1>2. PICK a \in A : \A x \in A : a <= x
  <2>1. A \subseteq Nat /\ A # {} BY <1>0
  <2> HIDE DEF A
  <2> QED BY <2>1, Least
<1> DEFINE T2 == {e \in T1 : e[1] = a}  B == {e[2] : e \in T2}
<1>3. PICK b \in B : \A x \in B : b <= x
  <2>1. B \subseteq Nat /\ B # {} BY <1>0
  <2> HIDE DEF B
  <2> QED BY <2>1, Least
<1>4. PICK e \in T2 : e[2] = b OBVIOUS
<1>5. ASSUME NEW f \in T, f # e PROVE Earlier(ex, em, e, f)
  <2>1. /\ Gap(ex, em, e) = d /\ e[1] = a /\ e[2] = b /\ d \in Nat /\ a \in Nat /\ b \in Nat /\ e = <<a, b>>
        /\ f[1] \in Nat /\ f[2] \in Nat /\ f = <<f[1], f[2]>> /\ Gap(ex, em, f) \in Nat
    BY <1>0, <1>4
  <2>2. d <= Gap(ex, em, f) BY <1>1
  <2>3. Gap(ex, em, f) = d => a <= f[1] BY <1>2
  <2>4. (Gap(ex, em, f) = d /\ f[1] = a) => b <= f[2] BY <1>3
  <2>5. f[1] # a \/ f[2] # b BY <1>5, <2>1
  <2> DEFINE g == Gap(ex, em, f) h == Gap(ex, em, e)
  <2>6. h < g \/ (h = g /\ (e[1] < f[1] \/ (e[1] = f[1] /\ e[2] < f[2])))
    <3> HIDE DEF D, A, B, T1, T2
    <3> QED BY ONLY <2>1, <2>2, <2>3, <2>4, <2>5
  <2> QED BY <2>6 DEF Earlier, Gap
<1> QED BY <1>4, <1>5

(* Some set of candidate pairs contains exactly those that no member blocks:
   built up from the first pair on. *)
LEMMA Matching ==
  ASSUME NEW ex, Findings(ex), NEW em, Findings(em), NEW tol
  PROVE  \E M \in SUBSET Edges(ex, em, tol) :
           \A e \in Edges(ex, em, tol) : e \in M <=> \A f \in M : ~Blocks(ex, em, f, e)
<1> DEFINE edges == Edges(ex, em, tol)
           Lower(T) == \A e \in T, f \in edges : Earlier(ex, em, f, e) => f \in T
           Fits(T, M) == M \subseteq T /\ \A e \in T : e \in M <=> \A f \in M : ~Blocks(ex, em, f, e)
           N == Cardinality(edges)
           H == {n \in 0..N : \E T, M \in SUBSET edges :
                                Cardinality(T) = n /\ Lower(T) /\ Fits(T, M)}
<1>1. IsFiniteSet(edges) /\ N \in Nat BY EdgeFacts, FS_CardinalityType
<1>2. 0 \in H
  <2>1. Cardinality({}) = 0 BY FS_EmptySet
  <2>2. 0 \in 0..N /\ Lower({}) /\ Fits({}, {}) /\ {} \in SUBSET edges BY <1>1
  <2> HIDE DEF edges, Lower, Fits, N
  <2> QED BY <2>1, <2>2
<1>3. ASSUME NEW n \in 1..N, n - 1 \in H PROVE n \in H
  <2>1. PICK T \in SUBSET edges, M \in SUBSET edges : Cardinality(T) = n - 1 /\ Lower(T) /\ Fits(T, M)
    BY <1>3
  <2>2. edges \ T # {}
    <3> SUFFICES ASSUME edges \ T = {} PROVE FALSE OBVIOUS
    <3>1. T = edges BY <2>1
    <3> QED BY <1>1, <2>1, <3>1
  <2>3. PICK e \in edges \ T : \A f \in edges \ T : f = e \/ Earlier(ex, em, e, f)
    <3> DEFINE U == edges \ T
    <3>1. U \subseteq Edges(ex, em, tol) /\ U # {} BY <2>2
    <3> HIDE DEF U
    <3>2. \E x \in U : \A f \in U : f = x \/ Earlier(ex, em, x, f) BY <3>1, FirstEdge
    <3> QED BY <3>2 DEF U
  <2> DEFINE T1 == T \union {e}
             M1 == IF \A f \in M : ~Blocks(ex, em, f, e) THEN M \union {e} ELSE M
  <2>4. T1 \in SUBSET edges /\ M1 \in SUBSET edges /\ M1 \subseteq T1 BY <2>1, <2>3
  <2>5. Cardinality(T1) = n
    <3>1. IsFiniteSet(T) BY <1>1, <2>1, FS_Subset
    <3>2. Cardinality(T \union {e}) = Cardinality(T) + 1 BY <2>3, <3>1, FS_AddElement
    <3> QED BY <1>1, <2>1, <3>2
  <2>6. /\ \A f \in edges : ~Earlier(ex, em, f, f)
        /\ \A f, g \in edges : ~(Earlier(ex, em, f, g) /\ Earlier(ex, em, g, f))
    BY EarlierFacts
  <2>7. Lower(T1)
    <3> SUFFICES ASSUME NEW x \in T1, NEW f \in edges, Earlier(ex, em, f, x) PROVE f \in T1 OBVIOUS
    <3>1. CASE x \in T BY <2>1, <3>1
    <3>2. CASE x = e
      <4>1. f # e BY <2>6, <3>2
      <4>2. f \notin edges \ T BY <2>3, <2>6, <3>2, <4>1
      <4> QED BY <4>2
    <3> QED BY <3>1, <3>2
  <2>8. Fits(T1, M1)
    <3> SUFFICES ASSUME NEW x \in T1 PROVE x \in M1 <=> \A f \in M1 : ~Blocks(ex, em, f, x) BY <2>4
    <3>1. CASE x = e
      <4>1. ~Blocks(ex, em, e, e) /\ e \notin M BY <2>1, <2>3, <2>6 DEF Blocks
      <4> QED BY <3>1, <4>1
    <3>2. CASE x \in T
      <4>1. x # e /\ ~Earlier(ex, em, e, x) BY <2>1, <2>3, <3>2
      <4>2. ~Blocks(ex, em, e, x) BY <4>1 DEF Blocks
      <4>3. x \in M <=> \A f \in M : ~Blocks(ex, em, f, x) BY <2>1, <3>2
      <4> QED BY <4>1, <4>2, <4>3
    <3> QED BY <3>1, <3>2
  <2>9. n \in 0..N BY <1>1
  <2> HIDE DEF T1, M1, Lower, Fits, edges, N
  <2> QED BY <2>4, <2>5, <2>7, <2>8, <2>9
<1>4. N \in H
  <2> HIDE DEF H, N
  <2>1. 0..N \subseteq H BY <1>1, <1>2, <1>3, Induct
  <2> QED BY <1>1, <2>1
<1>5. PICK T \in SUBSET edges, M \in SUBSET edges : Cardinality(T) = N /\ Fits(T, M) BY <1>4
<1>6. T = edges
  <2>1. (Cardinality(edges) = Cardinality(T)) => edges = T BY <1>1, FS_Subset
  <2> QED BY <1>5, <2>1
<1> QED BY <1>5, <1>6

(* Greedy matching takes exactly the candidate pairs that no pair taken blocks. *)
LEMMA GreedyFacts ==
  ASSUME NEW ex, Findings(ex), NEW em, Findings(em), NEW tol
  PROVE  /\ Greedy(ex, em, tol) \subseteq Edges(ex, em, tol)
         /\ \A e \in Edges(ex, em, tol) :
              e \in Greedy(ex, em, tol) <=> \A f \in Greedy(ex, em, tol) : ~Blocks(ex, em, f, e)
<1> DEFINE edges == Edges(ex, em, tol)
           Before(e) == {f \in edges : Earlier(ex, em, f, e) /\ (f[1] = e[1] \/ f[2] = e[2])}
           Eq(h) == h = [e \in edges |-> \A f \in Before(e) : ~h[f]]
           taken == CHOOSE h : Eq(h)
<1>1. PICK M \in SUBSET edges : \A e \in edges : e \in M <=> \A f \in M : ~Blocks(ex, em, f, e)
  BY Matching
<1> DEFINE g == [e \in edges |-> e \in M]
<1>2. Eq(g)
  <2> DEFINE P(e) == \A f \in Before(e) : ~g[f]
  <2>1. \A e \in edges : P(e) \in BOOLEAN OBVIOUS
  <2>2. \A e \in edges : (e \in M) <=> P(e) BY <1>1 DEF Blocks
  <2> HIDE DEF P, edges
  <2>3. \A e \in edges : (e \in M) = P(e) BY <2>1, <2>2
  <2>4. [e \in edges |-> e \in M] = [e \in edges |-> P(e)] BY <2>3, Zenon
  <2> QED BY <2>4 DEF P
<1>3. Eq(taken) BY <1>2, Zenon
<1>4. Greedy(ex, em, tol) = {e \in edges : taken[e]} BY DEF Greedy
<1> HIDE DEF taken
<1>5. \A e \in edges : taken[e] <=> \A f \in Before(e) : ~taken[f]
  <2>1. taken = [e \in edges |-> \A f \in Before(e) : ~taken[f]] BY <1>3
  <2> DEFINE P(e) == \A f \in Before(e) : ~taken[f]
  <2>2. taken = [e \in edges |-> P(e)] BY <2>1
  <2> HIDE DEF P
  <2>3. \A e \in edges : taken[e] = P(e) BY <2>2, Zenon
  <2>4. \A e \in edges : P(e) \in BOOLEAN BY DEF P
  <2>5. \A e \in edges : taken[e] <=> P(e) BY <2>3, Zenon
  <2> QED BY <2>5 DEF P
<1> QED BY <1>4, <1>5 DEF Blocks

-----------------------------------------------------------------------------
(* What is left of a finite set. *)
LEMMA Parts ==
  ASSUME NEW S, IsFiniteSet(S), NEW T, T \subseteq S
  PROVE  /\ IsFiniteSet(T) /\ Cardinality(S \ T) = Cardinality(S) - Cardinality(T)
         /\ Cardinality(S) \in Nat /\ Cardinality(T) \in Nat /\ Cardinality(T) <= Cardinality(S)
<1>1. IsFiniteSet(T) /\ Cardinality(T) <= Cardinality(S) BY FS_Subset
<1>2. S \cap T = T OBVIOUS
<1>3. Cardinality(S \ T) = Cardinality(S) - Cardinality(S \cap T) BY FS_Difference
<1> QED BY <1>1, <1>2, <1>3, FS_CardinalityType

(* Disjoint parts add up, *)
LEMMA Apart2 ==
  ASSUME NEW S, IsFiniteSet(S), NEW A, NEW B, A \subseteq S, B \subseteq S, A \cap B = {}
  PROVE  /\ Cardinality(A \union B) = Cardinality(A) + Cardinality(B)
         /\ Cardinality(A) + Cardinality(B) <= Cardinality(S)
<1>1. IsFiniteSet(A) /\ IsFiniteSet(B) BY FS_Subset
<1>2. Cardinality(A \union B) = Cardinality(A) + Cardinality(B) - Cardinality(A \cap B) BY <1>1, FS_Union
<1>3. Cardinality(A \cap B) = 0 BY FS_EmptySet
<1>4. Cardinality(A \union B) <= Cardinality(S)
  <2>1. A \union B \in SUBSET S OBVIOUS
  <2> QED BY <2>1, FS_Subset
<1>5. Cardinality(A) \in Nat /\ Cardinality(B) \in Nat BY <1>1, FS_CardinalityType
<1> QED BY <1>2, <1>3, <1>4, <1>5

(* an injective image has as many members, *)
LEMMA Numbered ==
  ASSUME NEW S, IsFiniteSet(S), NEW h, DOMAIN h = S, \A x, y \in S : h[x] = h[y] => x = y
  PROVE  IsFiniteSet({h[x] : x \in S}) /\ Cardinality({h[x] : x \in S}) = Cardinality(S)
<1> DEFINE T == {h[x] : x \in S} g == [x \in S |-> h[x]]
<1>1. g \in Bijection(S, T)
  <2>1. g \in [S -> T] /\ (\A x, y \in S : g[x] = g[y] => x = y) /\ \A t \in T : \E x \in S : g[x] = t OBVIOUS
  <2> HIDE DEF g, T
  <2> QED BY <2>1 DEF Bijection, Injection, Surjection, IsInjective
<1> HIDE DEF g, T
<1>2. ExistsBijection(S, T) BY <1>1 DEF ExistsBijection
<1>3. IsFiniteSet(T) /\ Cardinality(T) = Cardinality(S) BY <1>2, FS_Bijection
<1> QED BY <1>3 DEF T

(* and the numbers up to n are n. *)
LEMMA Upto == ASSUME NEW n \in Nat PROVE IsFiniteSet(1..n) /\ Cardinality(1..n) = n
<1>1. 1 \in Int /\ n \in Int OBVIOUS
<1>2. /\ IsFiniteSet(1..n) /\ Cardinality(1..n) = IF 1 > n THEN 0 ELSE n - 1 + 1
  BY <1>1, FS_Interval
<1> QED BY <1>2

(* What matching any labels with any findings gives: the property's clauses. *)
Sums(st, field) == st["asserted"][field] + st["candidate"][field]

(* Every label and every finding is counted once; greedy is greedy. *)
LEMMA MatchFacts ==
  ASSUME NEW ex, Findings(ex), NEW em, Findings(em), NEW tol, NEW neg, NEW max \in Nat, NEW m,
         m = MatchFindings(ex, em, tol, neg, max)
  PROVE  /\ m.matches = Greedy(ex, em, tol) /\ m.tp = Cardinality(m.matches) /\ IsFiniteSet(m.matches)
         /\ \A a, b \in m.matches : (a[1] = b[1] \/ a[2] = b[2]) => a = b
         /\ \A e \in Edges(ex, em, tol) :
              \E a \in m.matches : (a[1] = e[1] \/ a[2] = e[2]) /\ Gap(ex, em, a) <= Gap(ex, em, e)
         /\ m.tp + m.fn = Len(ex) /\ m.tp + m.fp = Len(em) + m.surplus
         /\ m.tp \in Nat /\ m.fp \in Nat /\ m.fn \in Int /\ Len(ex) \in Nat
<1> DEFINE G == Greedy(ex, em, tol) U == DOMAIN em \ {g[2] : g \in G}
           s == IF Len(em) > max THEN Len(em) - max ELSE 0
<1>1. /\ m.matches = G /\ m.tp = Cardinality(G) /\ m.fn = Len(ex) - Cardinality(G)
      /\ m.fp = Cardinality(U) + s /\ m.surplus = s
  BY DEF MatchFindings
<1>2. /\ G \subseteq Edges(ex, em, tol)
      /\ \A e \in Edges(ex, em, tol) : e \in G <=> \A f \in G : ~Blocks(ex, em, f, e)
  BY GreedyFacts
<1>3. /\ \A e, f \in Edges(ex, em, tol) :
           /\ e = f \/ Earlier(ex, em, e, f) \/ Earlier(ex, em, f, e)
           /\ Earlier(ex, em, e, f) => Gap(ex, em, e) <= Gap(ex, em, f)
  BY EarlierFacts
<1>4. /\ Len(ex) \in Nat /\ DOMAIN em = 1..Len(em) /\ Len(em) \in Nat /\ IsFiniteSet(Edges(ex, em, tol))
      /\ \A e \in Edges(ex, em, tol) : e[2] \in 1..Len(em) /\ Gap(ex, em, e) \in Nat
  BY EdgeFacts
<1> HIDE DEF G, U, s
<1>5. ASSUME NEW a \in G, NEW b \in G, a[1] = b[1] \/ a[2] = b[2] PROVE a = b
  <2>1. a \in Edges(ex, em, tol) /\ b \in Edges(ex, em, tol) BY <1>2
  <2>2. ~Blocks(ex, em, a, b) /\ ~Blocks(ex, em, b, a) BY <1>2, <2>1
  <2>3. ~Earlier(ex, em, a, b) /\ ~Earlier(ex, em, b, a) BY <1>5, <2>2 DEF Blocks
  <2> QED BY <1>3, <2>1, <2>3
<1>6. ASSUME NEW e \in Edges(ex, em, tol)
      PROVE  \E a \in G : (a[1] = e[1] \/ a[2] = e[2]) /\ Gap(ex, em, a) <= Gap(ex, em, e)
  <2>1. CASE e \in G
    <3>1. Gap(ex, em, e) <= Gap(ex, em, e) BY <1>4
    <3> QED BY <2>1, <3>1
  <2>2. CASE e \notin G
    <3>1. PICK f \in G : Blocks(ex, em, f, e) BY <1>2, <2>2
    <3>2. Gap(ex, em, f) <= Gap(ex, em, e) BY <1>2, <1>3, <3>1 DEF Blocks
    <3> QED BY <3>1, <3>2 DEF Blocks
  <2> QED BY <2>1, <2>2
<1>7. IsFiniteSet(G) /\ Cardinality(G) \in Nat BY <1>2, <1>4, FS_Subset, FS_CardinalityType
<1>8. Cardinality(U) = Len(em) - Cardinality(G) /\ Cardinality(U) \in Nat
  <2> DEFINE h == [g \in G |-> g[2]] T == {h[g] : g \in G}
  <2>1. DOMAIN h = G /\ (\A a, b \in G : h[a] = h[b] => a = b) /\ T = {g[2] : g \in G} BY <1>5
  <2>2. T \subseteq 1..Len(em) BY <1>2, <1>4
  <2> HIDE DEF h
  <2>3. Cardinality(T) = Cardinality(G) BY <1>7, <2>1, Numbered
  <2> HIDE DEF T
  <2>4. IsFiniteSet(1..Len(em)) /\ Cardinality(1..Len(em)) = Len(em) BY <1>4, Upto
  <2>5. Cardinality((1..Len(em)) \ T) = Len(em) - Cardinality(T) BY <2>2, <2>4, Parts
  <2>6. U = (1..Len(em)) \ T BY <1>4, <2>1 DEF U
  <2>7. Cardinality(U) \in Nat BY <2>4, <2>6, FS_Difference, FS_CardinalityType
  <2> QED BY <2>3, <2>5, <2>6, <2>7
<1>9. s \in Nat BY <1>4 DEF s
<1>10. m.tp + m.fn = Len(ex) /\ m.tp + m.fp = Len(em) + m.surplus BY <1>1, <1>4, <1>7, <1>8, <1>9
<1>11. m.tp \in Nat /\ m.fp \in Nat /\ m.fn \in Int BY <1>1, <1>4, <1>7, <1>8, <1>9
<1> QED BY <1>1, <1>4, <1>5, <1>6, <1>7, <1>10, <1>11 DEF G

(* The strata split the labels, and the findings that have a tier. *)
LEMMA StrataFacts ==
  ASSUME NEW ex, Findings(ex), NEW em, Findings(em), NEW M, M \subseteq (DOMAIN ex) \X (DOMAIN em), NEW st,
         st = Strata(ex, em, M), \A n \in DOMAIN ex : ex[n].tier \in Tiers
  PROVE  /\ Sums(st, "tp") <= Cardinality(M)
         /\ Sums(st, "tp") + Sums(st, "fp") = Cardinality({n \in DOMAIN em : em[n].tier \in Tiers})
         /\ Sums(st, "tp") + Sums(st, "fn") = Len(ex)
<1> DEFINE E(t) == {n \in DOMAIN ex : ex[n].tier = t}
           F(t) == {n \in DOMAIN em : em[n].tier = t}
           I(t) == M \cap (E(t) \X F(t))
<1>1. /\ DOMAIN ex = 1..Len(ex) /\ Len(ex) \in Nat /\ DOMAIN em = 1..Len(em) /\ Len(em) \in Nat
      /\ IsFiniteSet(DOMAIN ex) /\ IsFiniteSet(DOMAIN em) /\ Cardinality(DOMAIN ex) = Len(ex)
      /\ IsFiniteSet((DOMAIN ex) \X (DOMAIN em))
  <2>1. /\ DOMAIN ex = 1..Len(ex) /\ Len(ex) \in Nat /\ DOMAIN em = 1..Len(em) /\ Len(em) \in Nat
    BY DEF Findings
  <2>2. /\ IsFiniteSet(1..Len(ex)) /\ IsFiniteSet(1..Len(em)) /\ Cardinality(1..Len(ex)) = Len(ex)
    BY <2>1, Upto
  <2>3. IsFiniteSet((1..Len(ex)) \X (1..Len(em))) BY <2>2, FS_Product
  <2> QED BY <2>1, <2>2, <2>3
<1>2. \A t \in Tiers : st[t].tp = Cardinality(I(t)) /\ st[t].fp = Cardinality(F(t)) - Cardinality(I(t))
                       /\ st[t].fn = Cardinality(E(t)) - Cardinality(I(t))
  BY DEF Strata
<1>3. "asserted" \in Tiers /\ "candidate" \in Tiers /\ Tiers = {"asserted", "candidate"} BY DEF Tiers
<1>4. IsFiniteSet(M) BY <1>1, FS_Subset
<1>5. Cardinality(I("asserted")) + Cardinality(I("candidate")) <= Cardinality(M)
  <2>1. I("asserted") \cap I("candidate") = {} OBVIOUS
  <2>2. I("asserted") \subseteq M /\ I("candidate") \subseteq M OBVIOUS
  <2> HIDE DEF I
  <2> QED BY <1>4, <2>1, <2>2, Apart2
<1>6. Cardinality(E("asserted")) + Cardinality(E("candidate")) = Len(ex)
  <2>1. /\ E("asserted") \cap E("candidate") = {} /\ E("asserted") \union E("candidate") = DOMAIN ex
        /\ E("asserted") \subseteq DOMAIN ex /\ E("candidate") \subseteq DOMAIN ex
    BY <1>3
  <2> HIDE DEF E
  <2> QED BY <1>1, <2>1, Apart2
<1>7. /\ Cardinality(F("asserted")) + Cardinality(F("candidate"))
           = Cardinality({n \in DOMAIN em : em[n].tier \in Tiers})
  <2>1. /\ F("asserted") \cap F("candidate") = {}
        /\ F("asserted") \union F("candidate") = {n \in DOMAIN em : em[n].tier \in Tiers}
        /\ F("asserted") \subseteq DOMAIN em /\ F("candidate") \subseteq DOMAIN em
    BY <1>3
  <2> HIDE DEF F
  <2> QED BY <1>1, <2>1, Apart2
<1>8. \A t \in Tiers : /\ Cardinality(I(t)) \in Nat /\ Cardinality(E(t)) \in Nat /\ Cardinality(F(t)) \in Nat
  <2> SUFFICES ASSUME NEW t \in Tiers
               PROVE  /\ Cardinality(I(t)) \in Nat /\ Cardinality(E(t)) \in Nat /\ Cardinality(F(t)) \in Nat
    OBVIOUS
  <2>1. I(t) \in SUBSET M /\ E(t) \in SUBSET DOMAIN ex /\ F(t) \in SUBSET DOMAIN em OBVIOUS
  <2> HIDE DEF I, E, F
  <2>2. IsFiniteSet(I(t)) /\ IsFiniteSet(E(t)) /\ IsFiniteSet(F(t)) BY <1>1, <1>4, <2>1, FS_Subset
  <2> QED BY <2>2, FS_CardinalityType
<1> HIDE DEF I, E, F
<1>9. Cardinality(M) \in Nat BY <1>4, FS_CardinalityType
<1>10. LET t == "asserted" u == "candidate" IN
       /\ Sums(st, "tp") = Cardinality(I(t)) + Cardinality(I(u))
       /\ Sums(st, "fp") = Cardinality(F(t)) - Cardinality(I(t)) + (Cardinality(F(u)) - Cardinality(I(u)))
       /\ Sums(st, "fn") = Cardinality(E(t)) - Cardinality(I(t)) + (Cardinality(E(u)) - Cardinality(I(u)))
  <2>1. /\ Sums(st, "tp") = st["asserted"].tp + st["candidate"].tp
        /\ Sums(st, "fp") = st["asserted"].fp + st["candidate"].fp
        /\ Sums(st, "fn") = st["asserted"].fn + st["candidate"].fn
    BY DEF Sums
  <2> QED BY <1>2, <1>3, <2>1
<1>11. /\ \A t \in {"asserted", "candidate"} : /\ Cardinality(I(t)) \in Int /\ Cardinality(E(t)) \in Int
                                               /\ Cardinality(F(t)) \in Int
  BY <1>3, <1>8
<1> QED BY <1>5, <1>6, <1>7, <1>9, <1>10, <1>11

(* What Kept goes through, member by member. *)
KeptSteps(q, wanted, f) ==
  /\ f[0] = <<>>
  /\ \A n \in 1..Len(q) : f[n] = IF q[n] \in wanted THEN Append(f[n - 1], q[n]) ELSE f[n - 1]

LEMMA KeptRecursion ==
  ASSUME NEW s, IsList(s), NEW wanted
  PROVE  \E f : KeptSteps(s, wanted, f) /\ Kept(s, wanted) = f[Len(s)]
<1> DEFINE N == Len(s) V == Seq(Range(s))
           st == [p \in (1..N) \X V |-> IF s[p[1]] \in wanted THEN Append(p[2], s[p[1]]) ELSE p[2]]
           Eq(g) == g = [n \in 0..N |-> IF n = 0 THEN <<>>
                                        ELSE IF s[n] \in wanted THEN Append(g[n - 1], s[n]) ELSE g[n - 1]]
           f == CHOOSE h : Eq(h)
<1>1. N \in Nat /\ <<>> \in V /\ \A n \in 1..N : s[n] \in Range(s) BY DEF IsList, Range
<1>2. \A v \in V, e \in Range(s) : Append(v, e) \in V OBVIOUS
<1>3. st \in [(1..N) \X V -> V] BY <1>1, <1>2
<1>4. PICK g \in [0..N -> V] : Recursive(g, N, <<>>, st)
  <2> DEFINE base == <<>>
  <2>1. N \in Nat /\ base \in V /\ st \in [(1..N) \X V -> V] BY <1>1, <1>3
  <2> HIDE DEF N, st, V, base
  <2>2. \E g \in [0..N -> V] : Recursive(g, N, base, st) BY <2>1, Recursion
  <2> QED BY <2>2 DEF base
<1>5. Eq(g)
  <2> SUFFICES ASSUME NEW n \in 0..N
               PROVE  g[n] = IF n = 0 THEN <<>>
                             ELSE IF s[n] \in wanted THEN Append(g[n - 1], s[n]) ELSE g[n - 1]
    OBVIOUS
  <2>1. CASE n = 0 BY <1>4, <2>1 DEF Recursive
  <2>2. CASE n # 0
    <3>1. n \in 1..N /\ n - 1 \in 0..N BY <1>1, <2>2
    <3>2. <<n, g[n - 1]>> \in (1..N) \X V BY <3>1
    <3>3. g[n] = st[<<n, g[n - 1]>>] BY <1>4, <3>1 DEF Recursive
    <3> QED BY <2>2, <3>2, <3>3
  <2> QED BY <2>1, <2>2
<1>6. Eq(f) BY <1>5
<1>7. Kept(s, wanted) = f[N] BY DEF Kept
<1>8. \A n \in 0..N : f[n] = IF n = 0 THEN <<>>
                             ELSE IF s[n] \in wanted THEN Append(f[n - 1], s[n]) ELSE f[n - 1]
  <2> HIDE DEF f
  <2> QED BY <1>6
<1> HIDE DEF f
<1>9. f[0] = <<>> BY <1>1, <1>8
<1>10. \A n \in 1..Len(s) : f[n] = IF s[n] \in wanted THEN Append(f[n - 1], s[n]) ELSE f[n - 1]
  <2> SUFFICES ASSUME NEW n \in 1..N
               PROVE  f[n] = IF s[n] \in wanted THEN Append(f[n - 1], s[n]) ELSE f[n - 1]
    OBVIOUS
  <2>1. n \in 0..N /\ n # 0 BY <1>1
  <2> QED BY <1>8, <2>1
<1> QED BY <1>7, <1>9, <1>10 DEF KeptSteps

(* The numbers of S in ascending order. *)
Lists(r, K, S) ==
  /\ K \in Nat /\ r \in [1..K -> S]
  /\ \A s \in S : \E k \in 1..K : r[k] = s
  /\ \A k, l \in 1..K : k < l => r[k] < r[l]

(* There is one such order. *)
LEMMA OneOrder ==
  ASSUME NEW S, S \subseteq Nat, NEW K, NEW r, Lists(r, K, S), NEW M, NEW t, Lists(t, M, S)
  PROVE  K = M /\ r = t
<1>1. /\ K \in Nat /\ r \in [1..K -> S] /\ (\A s \in S : \E k \in 1..K : r[k] = s)
      /\ \A k, l \in 1..K : k < l => r[k] < r[l]
  BY DEF Lists
<1>2. /\ M \in Nat /\ t \in [1..M -> S] /\ (\A s \in S : \E k \in 1..M : t[k] = s)
      /\ \A k, l \in 1..M : k < l => t[k] < t[l]
  BY DEF Lists
<1> DEFINE T == {k \in 1..K : k \notin 1..M \/ r[k] # t[k]}
<1>3. T = {}
  <2> SUFFICES ASSUME T # {} PROVE FALSE OBVIOUS
  <2>1. PICK k \in T : \A l \in T : k <= l
    <3>1. T \subseteq Nat BY <1>1
    <3> HIDE DEF T
    <3> QED BY <3>1, Least
  <2>2. k \in 1..K /\ (k \notin 1..M \/ r[k] # t[k]) OBVIOUS
  <2>3. \A l \in 1..K : l < k => l \in 1..M /\ r[l] = t[l] BY <1>1, <2>1
  <2>4. PICK m \in 1..M : t[m] = r[k] BY <1>1, <1>2, <2>2
  <2>5. m >= k
    <3> SUFFICES ASSUME m < k PROVE FALSE BY <1>1, <1>2
    <3>1. m \in 1..K BY <1>1, <1>2, <2>2
    <3>2. r[m] = t[m] BY <2>3, <3>1
    <3>3. r[m] < r[k] BY <1>1, <2>2, <3>1
    <3>4. r[m] \in Nat BY <1>1, <3>1
    <3> QED BY <2>4, <3>2, <3>3, <3>4
  <2>6. k \in 1..M /\ k < m
    <3>1. k \in 1..M BY <1>1, <1>2, <2>2, <2>5
    <3>2. k # m BY <2>2, <2>4, <3>1
    <3> QED BY <2>5, <3>1, <3>2
  <2>7. t[k] < r[k] BY <1>2, <2>4, <2>6
  <2>8. PICK l \in 1..K : r[l] = t[k] BY <1>1, <1>2, <2>6
  <2>9. l < k
    <3> SUFFICES ASSUME k <= l PROVE FALSE BY <1>1
    <3>1. r[k] \in Nat /\ r[l] \in Nat BY <1>1, <2>2
    <3>2. k < l \/ k = l BY <1>1, <2>2
    <3>3. r[k] <= r[l] BY <1>1, <2>2, <3>1, <3>2
    <3> QED BY <2>7, <2>8, <3>1, <3>3
  <2>10. l \in 1..M /\ t[l] = t[k] BY <2>3, <2>8, <2>9
  <2>11. t[l] < t[k] /\ t[k] \in Nat BY <1>2, <2>6, <2>9, <2>10
  <2> QED BY <2>10, <2>11
<1>4. \A k \in 1..K : k \in 1..M /\ r[k] = t[k] BY <1>3
<1>5. K = M
  <2>1. K <= M
    <3>1. K = 0 \/ K \in 1..K BY <1>1
    <3> QED BY <1>1, <1>2, <1>4, <3>1
  <2> SUFFICES ASSUME K < M PROVE FALSE BY <1>1, <1>2, <2>1
  <2>2. K + 1 \in 1..M BY <1>1, <1>2
  <2>3. PICK k \in 1..K : r[k] = t[K + 1] BY <1>1, <1>2, <2>2
  <2>4. k \in 1..M /\ t[k] = t[K + 1] /\ k < K + 1 BY <1>1, <1>4, <2>3
  <2>5. t[k] < t[K + 1] /\ t[k] \in Nat BY <1>2, <2>2, <2>4
  <2> QED BY <2>4, <2>5
<1>6. r = [k \in 1..K |-> r[k]] /\ t = [k \in 1..K |-> t[k]] BY <1>1, <1>2, <1>5
<1> QED BY <1>4, <1>5, <1>6

(* A list is the function of its places, and as long as it has places. *)
LEMMA ListFunction ==
  ASSUME NEW q, IsList(q)
  PROVE  /\ q = [n \in 1..Len(q) |-> q[n]]
         /\ \A K \in Nat : DOMAIN q = 1..K => Len(q) = K
<1>1. q \in Seq(Range(q)) BY DEF IsList
<1>2. Len(q) \in Nat /\ DOMAIN q = 1..Len(q) /\ q = [n \in 1..Len(q) |-> q[n]] BY <1>1
<1>3. ASSUME NEW K \in Nat, DOMAIN q = 1..K PROVE Len(q) = K
  <2>1. 1..Len(q) = 1..K BY <1>2, <1>3
  <2>2. \A n : n \in 1..Len(q) <=> n \in 1..K BY <2>1
  <2>3. Len(q) <= K
    <3>1. Len(q) = 0 \/ Len(q) \in 1..Len(q) BY <1>2
    <3> QED BY <1>2, <2>2, <3>1
  <2>4. K <= Len(q)
    <3>1. K = 0 \/ K \in 1..K OBVIOUS
    <3> QED BY <1>2, <2>2, <3>1
  <2> QED BY <1>2, <2>3, <2>4
<1> QED BY <1>2, <1>3

(* The members of q at the numbers of S, in ascending order. *)
Chosen(q, S, g) == \E K, r : Lists(r, K, S) /\ g = [k \in 1..K |-> q[r[k]]]

(* What is kept are the members at the places where a wanted one is, in their
   order. *)
LEMMA KeptPlaces ==
  ASSUME NEW q, IsList(q), NEW W
  PROVE  Chosen(q, {n \in 1..Len(q) : q[n] \in W}, Kept(q, W))
<1> DEFINE N == Len(q)
           At(n) == {m \in 1..n : q[m] \in W}
<1>1. N \in Nat /\ DOMAIN q = 1..N BY ListFacts DEF IsList
<1>2. PICK f : KeptSteps(q, W, f) /\ Kept(q, W) = f[N] BY KeptRecursion
<1> DEFINE H == {n \in 0..N : Chosen(q, At(n), f[n])}
<1>3. 0 \in H
  <2>1. Lists(<<>>, 0, At(0)) BY DEF Lists
  <2>2. f[0] = [k \in 1..0 |-> q[<<>>[k]]] BY <1>2 DEF KeptSteps
  <2>3. Chosen(q, At(0), f[0])
    <3> HIDE DEF At
    <3> QED BY <2>1, <2>2 DEF Chosen
  <2> QED BY <1>1, <2>3
<1>4. ASSUME NEW n \in 1..N, n - 1 \in H PROVE n \in H
  <2>1. PICK K, r : Lists(r, K, At(n - 1)) /\ f[n - 1] = [k \in 1..K |-> q[r[k]]] BY <1>4 DEF Chosen
  <2>2. f[n] = IF q[n] \in W THEN Append(f[n - 1], q[n]) ELSE f[n - 1] BY <1>2 DEF KeptSteps
  <2>3. /\ K \in Nat /\ r \in [1..K -> At(n - 1)] /\ (\A s \in At(n - 1) : \E k \in 1..K : r[k] = s)
        /\ \A k, l \in 1..K : k < l => r[k] < r[l]
    BY <2>1 DEF Lists
  <2>4. Chosen(q, At(n), f[n])
    <3>1. CASE q[n] \notin W
      <4>1. At(n) = At(n - 1) BY <1>1, <3>1
      <4>2. f[n] = f[n - 1] BY <2>2, <3>1
      <4> HIDE DEF At
      <4> QED BY <2>1, <4>1, <4>2 DEF Chosen
    <3>2. CASE q[n] \in W
      <4> DEFINE t == [k \in 1..K + 1 |-> IF k = K + 1 THEN n ELSE r[k]]
      <4>1. At(n) = At(n - 1) \cup {n} /\ \A m \in At(n - 1) : m < n /\ m \in Nat BY <1>1, <3>2
      <4>2. \A k \in 1..K : t[k] = r[k] /\ r[k] \in At(n - 1) BY <2>3
      <4>3. t[K + 1] = n BY <2>3
      <4>4. t \in [1..K + 1 -> At(n)] BY <2>3, <4>1
      <4> HIDE DEF t, At
      <4>5. \A s \in At(n) : \E k \in 1..K + 1 : t[k] = s
        <5> SUFFICES ASSUME NEW s \in At(n) PROVE \E k \in 1..K + 1 : t[k] = s OBVIOUS
        <5>1. CASE s = n
          <6>1. K + 1 \in 1..K + 1 BY <2>3
          <6> QED BY <4>3, <5>1, <6>1
        <5>2. CASE s # n
          <6>1. PICK k \in 1..K : r[k] = s BY <2>3, <4>1, <5>2
          <6>2. k \in 1..K + 1 BY <2>3
          <6> QED BY <4>2, <6>1, <6>2
        <5> QED BY <5>1, <5>2
      <4>6. ASSUME NEW k \in 1..K + 1, NEW l \in 1..K + 1, k < l PROVE t[k] < t[l]
        <5>1. k \in 1..K BY <2>3, <4>6
        <5>2. CASE l = K + 1 BY <4>1, <4>2, <4>3, <5>1, <5>2
        <5>3. CASE l # K + 1
          <6>1. l \in 1..K BY <2>3, <5>3
          <6> QED BY <2>3, <4>2, <4>6, <5>1, <6>1
        <5> QED BY <5>2, <5>3
      <4>7. Lists(t, K + 1, At(n)) BY <2>3, <4>4, <4>5, <4>6 DEF Lists
      <4>8. f[n] = [k \in 1..K + 1 |-> q[t[k]]]
        <5> DEFINE g == [k \in 1..K |-> q[r[k]]]
        <5>1. IsList(g) /\ Len(g) = K
          <6>1. DOMAIN g = 1..K /\ g \in [1..K -> Range(g)] BY DEF Range
          <6> HIDE DEF g
          <6>2. g \in Seq(Range(g)) BY <2>3, <6>1
          <6>3. Len(g) = K BY <2>3, <6>1, <6>2
          <6> QED BY <6>2, <6>3 DEF IsList
        <5>2. f[n] = Append(g, q[n]) BY <2>1, <2>2, <3>2
        <5>3. \A k \in 1..K : g[k] = q[r[k]] OBVIOUS
        <5> HIDE DEF g
        <5>4. /\ DOMAIN f[n] = 1..K + 1 /\ f[n][K + 1] = q[n] /\ \A k \in 1..K : f[n][k] = g[k]
              /\ IsList(f[n])
          BY <5>1, <5>2, AppendFacts
        <5>5. \A k \in 1..K + 1 : f[n][k] = q[t[k]]
          <6> SUFFICES ASSUME NEW k \in 1..K + 1 PROVE f[n][k] = q[t[k]] OBVIOUS
          <6>1. k = K + 1 \/ k \in 1..K BY <2>3
          <6> QED BY <4>2, <4>3, <5>3, <5>4, <6>1
        <5>6. f[n] = [k \in 1..K + 1 |-> f[n][k]]
          <6> DEFINE h == f[n]
          <6>1. IsList(h) /\ DOMAIN h = 1..K + 1 /\ K + 1 \in Nat BY <2>3, <5>4
          <6> HIDE DEF h
          <6>2. h = [k \in 1..Len(h) |-> h[k]] /\ Len(h) = K + 1 BY <6>1, ListFunction
          <6>3. h = [k \in 1..K + 1 |-> h[k]] BY <6>2
          <6> QED BY <6>3 DEF h
        <5> QED BY <5>5, <5>6
      <4> QED BY <4>7, <4>8 DEF Chosen
    <3> QED BY <3>1, <3>2
  <2>5. n \in 0..N BY <1>1
  <2> QED BY <2>4, <2>5
<1>5. N \in H
  <2> HIDE DEF H, At
  <2>1. 0..N \subseteq H BY <1>1, <1>3, <1>4, Induct
  <2> QED BY <1>1, <2>1
<1> QED BY <1>2, <1>5

(* They are in the sequence and wanted, and each wanted one is kept. *)
LEMMA KeptMembers ==
  ASSUME NEW q, IsList(q), NEW W
  PROVE  /\ IsList(Kept(q, W)) /\ Range(Kept(q, W)) = Range(q) \cap W
         /\ DOMAIN Kept(q, W) = 1..Len(Kept(q, W)) /\ Len(Kept(q, W)) \in Nat
         /\ Len(Kept(q, W)) = Cardinality({n \in 1..Len(q) : q[n] \in W})
         /\ IsInjective(q) => IsInjective(Kept(q, W))
<1> DEFINE N == Len(q) S == {n \in 1..N : q[n] \in W}
<1>1. N \in Nat /\ DOMAIN q = 1..N BY ListFacts DEF IsList
<1>2. PICK K, r : Lists(r, K, S) /\ Kept(q, W) = [k \in 1..K |-> q[r[k]]]
  <2>1. Chosen(q, S, Kept(q, W)) BY KeptPlaces
  <2> HIDE DEF S
  <2> QED BY <2>1 DEF Chosen
<1> DEFINE g == Kept(q, W)
<1>3. IsList(g)
  <2>1. g = [k \in 1..K |-> q[r[k]]] /\ K \in Nat BY <1>2 DEF Lists
  <2> HIDE DEF g
  <2>2. DOMAIN g = 1..K /\ \A k \in 1..K : g[k] \in Range(g) BY <2>1 DEF Range
  <2>3. g \in [1..K -> Range(g)] BY <2>1, <2>2
  <2> QED BY <2>1, <2>3, ListFacts DEF IsList
<1>4. g = [k \in 1..K |-> q[r[k]]] BY <1>2
<1> HIDE DEF g
<1>5. /\ K \in Nat /\ r \in [1..K -> S] /\ (\A s \in S : \E k \in 1..K : r[k] = s)
      /\ \A k, l \in 1..K : k < l => r[k] < r[l]
  BY <1>2 DEF Lists
<1>6. Len(g) = K /\ DOMAIN g = 1..K /\ \A k \in 1..K : g[k] = q[r[k]]
  <2>1. DOMAIN g = 1..K /\ \A k \in 1..K : g[k] = q[r[k]] BY <1>4
  <2>2. Len(g) = K BY <1>3, <1>5, <2>1, ListFunction
  <2> QED BY <2>1, <2>2
<1>7. Range(g) = Range(q) \cap W
  <2>1. ASSUME NEW x \in Range(g) PROVE x \in Range(q) \cap W
    <3>1. PICK k \in 1..K : x = g[k] BY <1>6, <2>1 DEF Range
    <3>2. r[k] \in S BY <1>5
    <3> QED BY <1>1, <1>6, <3>1, <3>2 DEF Range
  <2>2. ASSUME NEW x \in Range(q), x \in W PROVE x \in Range(g)
    <3>1. PICK n \in 1..N : x = q[n] BY <1>1, <2>2 DEF Range
    <3>2. n \in S BY <2>2, <3>1
    <3>3. PICK k \in 1..K : r[k] = n BY <1>5, <3>2
    <3> QED BY <1>6, <3>1, <3>3 DEF Range
  <2> QED BY <2>1, <2>2
<1>8. \A k, l \in 1..K : r[k] = r[l] => k = l
  <2> SUFFICES ASSUME NEW k \in 1..K, NEW l \in 1..K, r[k] = r[l], k # l PROVE FALSE OBVIOUS
  <2>1. k < l \/ l < k BY <1>5
  <2>2. r[k] \in Nat /\ r[l] \in Nat BY <1>5
  <2> QED BY <1>5, <2>1, <2>2
<1>9. Cardinality(S) = K
  <2>1. DOMAIN r = 1..K /\ {r[k] : k \in 1..K} = S BY <1>5
  <2>2. IsFiniteSet(1..K) /\ Cardinality(1..K) = K BY <1>5, Upto
  <2> DEFINE D == 1..K
  <2>3. IsFiniteSet(D) /\ DOMAIN r = D /\ \A x, y \in D : r[x] = r[y] => x = y BY <1>8, <2>1, <2>2
  <2> HIDE DEF D
  <2>4. Cardinality({r[k] : k \in D}) = Cardinality(D) BY <2>3, Numbered
  <2> USE DEF D
  <2> QED BY <2>1, <2>2, <2>4
<1>10. ASSUME IsInjective(q) PROVE IsInjective(g)
  <2>1. \A k \in 1..K : r[k] \in DOMAIN q BY <1>1, <1>5
  <2> QED BY <1>6, <1>8, <1>10, <2>1 DEF IsInjective
<1>11. K \in Nat BY <1>5
<1> QED BY <1>3, <1>6, <1>7, <1>9, <1>10, <1>11 DEF g

(* Keeping twice is keeping what both want. *)
LEMMA KeptTwice ==
  ASSUME NEW q, IsList(q), NEW A, NEW B
  PROVE  Kept(Kept(q, A), B) = Kept(q, A \cap B)
<1> DEFINE N == Len(q) S == {n \in 1..N : q[n] \in A} U == {n \in 1..N : q[n] \in A \cap B}
           g == Kept(q, A)
<1>1. N \in Nat /\ DOMAIN q = 1..N BY ListFacts DEF IsList
<1>2. PICK K, r : Lists(r, K, S) /\ g = [k \in 1..K |-> q[r[k]]]
  <2>1. Chosen(q, S, Kept(q, A)) BY KeptPlaces
  <2> HIDE DEF S
  <2> QED BY <2>1 DEF Chosen
<1>3. IsList(g) BY KeptMembers
<1>4. /\ K \in Nat /\ r \in [1..K -> S] /\ (\A s \in S : \E k \in 1..K : r[k] = s)
      /\ \A k, l \in 1..K : k < l => r[k] < r[l]
  BY <1>2 DEF Lists
<1> HIDE DEF g
<1>5. Len(g) = K /\ \A k \in 1..K : g[k] = q[r[k]]
  <2>1. DOMAIN g = 1..K /\ \A k \in 1..K : g[k] = q[r[k]] BY <1>2
  <2>2. Len(g) = K BY <1>3, <1>4, <2>1, ListFunction
  <2> QED BY <2>1, <2>2
<1> DEFINE T == {k \in 1..K : g[k] \in B}
<1>6. PICK J, t : Lists(t, J, T) /\ Kept(g, B) = [j \in 1..J |-> g[t[j]]]
  <2>1. Chosen(g, {n \in 1..Len(g) : g[n] \in B}, Kept(g, B)) BY <1>3, KeptPlaces
  <2>2. T = {n \in 1..Len(g) : g[n] \in B} BY <1>5
  <2>3. Chosen(g, T, Kept(g, B)) BY <2>1, <2>2
  <2> HIDE DEF T
  <2> QED BY <2>3 DEF Chosen
<1>7. /\ J \in Nat /\ t \in [1..J -> T] /\ (\A s \in T : \E j \in 1..J : t[j] = s)
      /\ \A j, l \in 1..J : j < l => t[j] < t[l]
  BY <1>6 DEF Lists
<1> DEFINE w == [j \in 1..J |-> r[t[j]]]
<1>8. \A j \in 1..J : t[j] \in 1..K /\ g[t[j]] \in B /\ g[t[j]] = q[r[t[j]]] /\ r[t[j]] \in S BY <1>4, <1>5, <1>7
<1>9. Lists(w, J, U)
  <2>1. w \in [1..J -> U] BY <1>8
  <2>2. \A s \in U : \E j \in 1..J : w[j] = s
    <3> SUFFICES ASSUME NEW s \in U PROVE \E j \in 1..J : w[j] = s OBVIOUS
    <3>1. s \in S /\ q[s] \in B OBVIOUS
    <3>2. PICK k \in 1..K : r[k] = s BY <1>4, <3>1
    <3>3. k \in T BY <1>5, <3>1, <3>2
    <3>4. PICK j \in 1..J : t[j] = k BY <1>7, <3>3
    <3> QED BY <3>2, <3>4
  <2>3. \A j, l \in 1..J : j < l => w[j] < w[l] BY <1>4, <1>7, <1>8
  <2> QED BY <1>7, <2>1, <2>2, <2>3 DEF Lists
<1>10. Kept(g, B) = [j \in 1..J |-> q[w[j]]]
  <2>1. \A j \in 1..J : g[t[j]] = q[w[j]] BY <1>8
  <2> HIDE DEF w
  <2> QED BY <1>6, <2>1
<1>11. PICK L, x : Lists(x, L, U) /\ Kept(q, A \cap B) = [k \in 1..L |-> q[x[k]]]
  <2>1. Chosen(q, U, Kept(q, A \cap B)) BY KeptPlaces
  <2> HIDE DEF U
  <2> QED BY <2>1 DEF Chosen
<1>12. J = L /\ w = x
  <2>1. U \subseteq Nat BY <1>1
  <2> HIDE DEF w, U
  <2> QED BY <1>9, <1>11, <2>1, OneOrder
<1> HIDE DEF w
<1> QED BY <1>10, <1>11, <1>12 DEF g

(* Where one member only is wanted it is all that is kept. *)
LEMMA KeptOne ==
  ASSUME NEW q, IsList(q), NEW W, NEW n \in 1..Len(q), q[n] \in W, \A m \in 1..Len(q) : q[m] \in W => m = n
  PROVE  Kept(q, W) = <<q[n]>>
<1> DEFINE S == {m \in 1..Len(q) : q[m] \in W}
<1>1. S = {n} BY Zenon
<1>2. n \in Nat
  <2>1. Len(q) \in Nat BY ListFacts DEF IsList
  <2> QED BY <2>1
<1>3. PICK K, r : Lists(r, K, S) /\ Kept(q, W) = [k \in 1..K |-> q[r[k]]]
  <2>1. Chosen(q, S, Kept(q, W)) BY KeptPlaces
  <2> HIDE DEF S
  <2> QED BY <2>1 DEF Chosen
<1> HIDE DEF S
<1> DEFINE t == [k \in 1..1 |-> n]
<1>4. Lists(t, 1, S) BY <1>1, <1>2 DEF Lists
<1>5. K = 1 /\ r = t
  <2>1. S \subseteq Nat BY <1>1, <1>2
  <2> HIDE DEF t
  <2> QED BY <1>3, <1>4, <2>1, OneOrder
<1>6. Kept(q, W) = [k \in 1..1 |-> q[n]] BY <1>3, <1>5
<1> QED BY <1>6

(* Where none is, nothing. *)
LEMMA KeptNone ==
  ASSUME NEW q, IsList(q), NEW W, \A m \in 1..Len(q) : q[m] \notin W
  PROVE  Kept(q, W) = <<>>
<1> DEFINE g == Kept(q, W)
<1>1. IsList(g) /\ Len(g) \in Nat /\ Len(g) = Cardinality({n \in 1..Len(q) : q[n] \in W}) BY KeptMembers
<1>2. {n \in 1..Len(q) : q[n] \in W} = {} OBVIOUS
<1>3. Cardinality({}) = 0 BY FS_EmptySet
<1>4. Len(g) = 0 BY <1>1, <1>2, <1>3
<1> HIDE DEF g
<1>5. g = <<>>
  <2>1. g \in Seq(Range(g)) BY <1>1 DEF IsList
  <2> QED BY <1>4, <2>1
<1> QED BY <1>5 DEF g

-----------------------------------------------------------------------------
(* Ratios: the sign of what is computed of them. *)
Ratios == Int \X (Nat \ {0})
Naught == {x \in Ratios : x[1] = 0}
NotNegative == {x \in Ratios : x[1] >= 0}
Positive == {x \in Ratios : x[1] > 0}
Negative == {x \in Ratios : x[1] < 0}

(* Products keep an order, and lose none. *)
LEMMA Products ==
  /\ \A a, b \in Int : /\ a >= 0 /\ b >= 0 => a * b >= 0
                       /\ a > 0 /\ b > 0 => a * b > 0
                       /\ a < 0 /\ b > 0 => a * b < 0
                       /\ a <= 0 /\ b >= 0 => a * b <= 0
  /\ \A a, b \in Int : a * b = b * a
  /\ \A a, b, c \in Int : c >= 0 /\ a <= b => a * c <= b * c
  /\ \A a, b, c \in Int : c > 0 /\ a < b => a * c < b * c
<1>1. \A a, b \in Int : a >= 0 /\ b >= 0 => a * b >= 0 OBVIOUS
<1>2. \A a, b \in Int : a > 0 /\ b > 0 => a * b > 0 OBVIOUS
<1>3. \A a, b \in Int : a < 0 /\ b > 0 => a * b < 0 OBVIOUS
<1>4. \A a, b \in Int : a <= 0 /\ b >= 0 => a * b <= 0 OBVIOUS
<1>5. \A a, b \in Int : a * b = b * a OBVIOUS
<1>6. \A a, b, c \in Int : c >= 0 /\ a <= b => a * c <= b * c OBVIOUS
<1>7. \A a, b, c \in Int : c > 0 /\ a < b => a * c < b * c OBVIOUS
<1> QED BY <1>1, <1>2, <1>3, <1>4, <1>5, <1>6, <1>7

(* The common divisor divides both. *)
LEMMA GcdFacts ==
  ASSUME NEW n \in Int, NEW d \in Nat \ {0}
  PROVE  Gcd(d, n) \in 1..d /\ d % Gcd(d, n) = 0 /\ n % Gcd(d, n) = 0
<1> DEFINE G == {g \in 1..d : d % g = 0 /\ n % g = 0}
           T == {d - g : g \in G}
<1>1. 1 \in G OBVIOUS
<1>2. PICK m \in T : \A k \in T : m <= k
  <2>1. T \subseteq Nat /\ T # {} BY <1>1
  <2> HIDE DEF T
  <2> QED BY <2>1, Least
<1>3. PICK x \in G : \A y \in G : x >= y
  <2>1. PICK z \in G : m = d - z BY <1>2
  <2>2. ASSUME NEW y \in G PROVE z >= y
    <3>1. m <= d - y BY <1>2
    <3> QED BY <2>1, <3>1
  <2> QED BY <2>2
<1> HIDE DEF G
<1>4. Gcd(d, n) = CHOOSE w \in G : \A y \in G : w >= y BY DEF Gcd, Max, G
<1>5. Gcd(d, n) \in G BY <1>3, <1>4
<1> QED BY <1>5 DEF G

(* Lowest terms are the same ratio. *)
SameRatio(x, n, d) == \E g \in Nat \ {0} : n = g * x[1] /\ d = g * x[2]

LEMMA LowestFacts ==
  ASSUME NEW n \in Int, NEW d \in Nat \ {0}, NEW x, x = Lowest(n, d)
  PROVE  /\ x \in Ratios
         /\ SameRatio(x, n, d)
         /\ n < 0 => x[1] < 0
         /\ n > 0 => x[1] > 0
         /\ n = 0 => x[1] = 0
<1> DEFINE g == Gcd(d, n)
<1>1. g \in 1..d /\ d % g = 0 /\ n % g = 0 BY GcdFacts
<1>2. x = <<n \div g, d \div g>> BY DEF Lowest
<1> HIDE DEF g
<1>3. g \in Nat \ {0} BY <1>1
<1>4. n \div g \in Int /\ d \div g \in Int /\ n = g * (n \div g) /\ d = g * (d \div g) BY <1>1, <1>3
<1> DEFINE a == n \div g b == d \div g
<1>5. a \in Int /\ b \in Int /\ n = g * a /\ d = g * b BY <1>4
<1> HIDE DEF a, b
<1>6. b > 0
  <2> SUFFICES ASSUME b <= 0 PROVE FALSE BY <1>5
  <2>1. b * g <= 0 /\ b * g = g * b BY <1>3, <1>5, Products
  <2> QED BY <1>5, <2>1
<1>7. a < 0 => a * g < 0 BY <1>3, <1>5, Products
<1>8. a > 0 => a * g > 0 BY <1>3, <1>5, Products
<1>9. a * g = g * a BY <1>3, <1>5
<1>10. /\ n < 0 => a < 0
       /\ n > 0 => a > 0
       /\ n = 0 => a = 0
  <2>1. a = 0 => a * g = 0 BY <1>3
  <2> QED BY <1>5, <1>7, <1>8, <1>9, <2>1
<1>11. x[1] = a /\ x[2] = b BY <1>2 DEF a, b
<1>12. x \in Ratios BY <1>2, <1>5, <1>6 DEF Ratios, a, b
<1>13. SameRatio(x, n, d) BY <1>3, <1>5, <1>11 DEF SameRatio
<1> QED BY <1>10, <1>11, <1>12, <1>13

(* A sum is negative, naught or positive as its members are. *)
LEMMA PlusFacts ==
  ASSUME NEW p \in Ratios, NEW q \in Ratios
  PROVE  /\ Plus(p, q) \in Ratios
         /\ p[1] >= 0 /\ q[1] >= 0 => Plus(p, q)[1] >= 0
         /\ p[1] >= 0 /\ q[1] >= 0 /\ (p[1] > 0 \/ q[1] > 0) => Plus(p, q)[1] > 0
         /\ p[1] = 0 /\ q[1] = 0 => Plus(p, q)[1] = 0
         /\ p[1] = 0 /\ q[1] < 0 => Plus(p, q)[1] < 0
<1> DEFINE a == p[1] b == p[2] c == q[1] d == q[2]
<1>1. a \in Int /\ b \in Nat /\ b > 0 /\ c \in Int /\ d \in Nat /\ d > 0 BY DEF Ratios
<1>2. Plus(p, q) = Lowest(a * d + c * b, b * d) BY DEF Plus
<1> HIDE DEF a, b, c, d
<1> DEFINE n == a * d + c * b e == b * d x == Plus(p, q)
<1>3. /\ a * d \in Int /\ c * b \in Int /\ b * d \in Nat
      /\ b * d > 0
  BY <1>1, Products
<1>4. n \in Int /\ e \in Nat \ {0} /\ x = Lowest(n, e) BY <1>2, <1>3
<1>5. /\ a >= 0 => a * d >= 0
      /\ c >= 0 => c * b >= 0
      /\ a > 0 => a * d > 0
      /\ c > 0 => c * b > 0
      /\ c < 0 => c * b < 0
      /\ a = 0 => a * d = 0
      /\ c = 0 => c * b = 0
  BY <1>1, Products
<1>6. /\ a >= 0 /\ c >= 0 => n >= 0
      /\ a >= 0 /\ c >= 0 /\ (a > 0 \/ c > 0) => n > 0
      /\ a = 0 /\ c = 0 => n = 0
      /\ a = 0 /\ c < 0 => n < 0
  BY <1>3, <1>5
<1> HIDE DEF n, e, x
<1>7. x \in Ratios /\ (n < 0 => x[1] < 0) /\ (n > 0 => x[1] > 0) /\ (n = 0 => x[1] = 0) BY <1>4, LowestFacts
<1>8. n >= 0 => x[1] >= 0 BY <1>4, <1>7 DEF Ratios
<1> QED BY <1>6, <1>7, <1>8 DEF x, a, c

(* Naught less a positive ratio is negative. *)
LEMMA MinusFacts ==
  ASSUME NEW p \in Naught, NEW q \in Positive
  PROVE  Minus(p, q) \in Negative
<1> DEFINE r == <<-q[1], q[2]>>
<1>1. p \in Ratios /\ p[1] = 0 /\ q \in Ratios /\ q[1] > 0 BY DEF Naught, Positive
<1>2. q[1] \in Int /\ q[2] \in Nat \ {0} BY <1>1 DEF Ratios
<1>3. r \in Ratios /\ r[1] < 0 BY <1>1, <1>2 DEF Ratios
<1>4. Minus(p, q) = Plus(p, r) BY DEF Minus
<1> HIDE DEF r
<1>5. Plus(p, r) \in Ratios /\ Plus(p, r)[1] < 0 BY <1>1, <1>3, PlusFacts
<1> QED BY <1>4, <1>5 DEF Negative

(* A share of n. *)
LEMMA OverFacts ==
  ASSUME NEW k \in Int, NEW n \in Nat, NEW x, x = Over(k, n)
  PROVE  /\ x \in Ratios
         /\ k >= 0 => x \in NotNegative
         /\ k > 0 /\ n > 0 => x \in Positive
         /\ k = 0 => x \in Naught
<1>1. CASE n = 0
  <2>1. x = <<0, 1>> BY <1>1 DEF Over
  <2> QED BY <1>1, <2>1 DEF Ratios, NotNegative, Positive, Naught
<1>2. CASE n # 0
  <2>1. x = Lowest(k, n) /\ n \in Nat \ {0} BY <1>2 DEF Over
  <2>2. x \in Ratios /\ (k < 0 => x[1] < 0) /\ (k > 0 => x[1] > 0) /\ (k = 0 => x[1] = 0) BY <2>1, LowestFacts
  <2>3. k >= 0 => x[1] >= 0 BY <2>2 DEF Ratios
  <2> QED BY <2>2, <2>3 DEF NotNegative, Positive, Naught
<1> QED BY <1>1, <1>2

(* Ratios are in a strict order. *)
LEMMA LessFacts ==
  ASSUME NEW p \in Ratios, NEW q \in Ratios, NEW r \in Ratios
  PROVE  ~Less(p, p) /\ (Less(p, q) /\ Less(q, r) => Less(p, r))
<1> DEFINE a == p[1] b == p[2] c == q[1] d == q[2] e == r[1] f == r[2]
<1>1. /\ a \in Int /\ b \in Nat /\ b > 0 /\ c \in Int /\ d \in Nat /\ d > 0
      /\ e \in Int /\ f \in Nat /\ f > 0
  BY DEF Ratios
<1>2. /\ Less(p, p) <=> a * b < a * b
      /\ Less(p, q) <=> a * d < c * b
      /\ Less(q, r) <=> c * f < e * d
      /\ Less(p, r) <=> a * f < e * b
  BY DEF Less
<1> HIDE DEF a, b, c, d, e, f
<1>3. ~(a * b < a * b)
  <2>1. a * b \in Int BY <1>1
  <2> QED BY <2>1
<1>4. ASSUME a * d < c * b, c * f < e * d PROVE a * f < e * b
  <2>1. a * d \in Int /\ c * b \in Int /\ c * f \in Int /\ e * d \in Int /\ a * f \in Int /\ e * b \in Int BY <1>1
  <2>2. (a * d) * f < (c * b) * f BY <1>1, <1>4, <2>1, Products
  <2>3. (c * f) * b < (e * d) * b BY <1>1, <1>4, <2>1, Products
  <2>4. (a * d) * f = (a * f) * d /\ (c * b) * f = (c * f) * b /\ (e * d) * b = (e * b) * d BY <1>1
  <2>5. (a * f) * d \in Int /\ (e * b) * d \in Int /\ (c * f) * b \in Int BY <1>1, <2>1
  <2>6. (a * f) * d < (e * b) * d BY <2>2, <2>3, <2>4, <2>5
  <2> SUFFICES ASSUME e * b <= a * f PROVE FALSE BY <2>1
  <2>7. (e * b) * d <= (a * f) * d BY <1>1, <2>1, Products
  <2> QED BY <2>5, <2>6, <2>7
<1> QED BY <1>2, <1>3, <1>4

(* The members of a sequence of ratios that are below x, and at most x. *)
Below(values, x) == {n \in DOMAIN values : Less(values[n], x)}
UpTo(values, x) == {n \in DOMAIN values : ~Less(x, values[n])}

(* The greater of two members has more members up to it. *)
LEMMA UpToGrows ==
  ASSUME NEW values, IsList(values), Range(values) \subseteq Ratios, NEW x \in Range(values),
         NEW y \in Range(values), Less(x, y)
  PROVE  Cardinality(UpTo(values, x)) < Cardinality(UpTo(values, y))
<1>1. DOMAIN values = 1..Len(values) /\ Len(values) \in Nat BY ListFacts DEF IsList
<1>2. \A n \in DOMAIN values : values[n] \in Ratios BY DEF Range
<1>3. PICK m \in DOMAIN values : values[m] = y BY DEF Range
<1>4. m \in UpTo(values, y) /\ m \notin UpTo(values, x) BY <1>2, <1>3, LessFacts DEF UpTo
<1>5. UpTo(values, x) \subseteq UpTo(values, y)
  <2> SUFFICES ASSUME NEW n \in DOMAIN values, ~Less(x, values[n]), Less(y, values[n]) PROVE FALSE BY DEF UpTo
  <2>1. x \in Ratios /\ y \in Ratios /\ values[n] \in Ratios BY <1>2
  <2>2. Less(x, values[n]) BY <2>1, LessFacts
  <2> QED BY <2>2
<1>6. IsFiniteSet(UpTo(values, y))
  <2>1. UpTo(values, y) \subseteq 1..Len(values) BY <1>1 DEF UpTo
  <2>2. IsFiniteSet(1..Len(values)) BY <1>1, Upto
  <2> QED BY <2>1, <2>2, FS_Subset
<1> DEFINE A == UpTo(values, x) B == UpTo(values, y)
<1>7. A \subseteq B /\ m \in B /\ m \notin A /\ IsFiniteSet(B) BY <1>4, <1>5, <1>6
<1> HIDE DEF A, B
<1>8. {m} \subseteq B /\ A \subseteq B /\ A \cap {m} = {} BY <1>7
<1>9. Cardinality(A) + Cardinality({m}) <= Cardinality(B) BY <1>7, <1>8, Apart2
<1>10. Cardinality({m}) = 1 BY FS_Singleton
<1>11. Cardinality(A) \in Nat /\ Cardinality(B) \in Nat BY <1>7, Parts
<1>12. Cardinality(A) < Cardinality(B) BY <1>9, <1>10, <1>11
<1> QED BY <1>12 DEF A, B

(* A part of the members has one with the most up to it. *)
LEMMA GreatestOf ==
  ASSUME NEW values, IsList(values), Range(values) \subseteq Ratios, NEW S, S \subseteq Range(values), S # {}
  PROVE  \E y \in S : \A z \in S : ~Less(y, z)
<1> DEFINE C(x) == Cardinality(UpTo(values, x)) N == Len(values)
           T == {N - C(x) : x \in S}
<1>1. DOMAIN values = 1..N /\ N \in Nat BY ListFacts DEF IsList
<1>2. \A x : C(x) \in 0..N
  <2> SUFFICES ASSUME NEW x PROVE C(x) \in 0..N OBVIOUS
  <2> DEFINE U == UpTo(values, x) V == 1..N
  <2>1. U \subseteq V /\ IsFiniteSet(V) /\ Cardinality(V) = N BY <1>1, Upto DEF UpTo
  <2> HIDE DEF U, V
  <2>2. Cardinality(U) \in Nat /\ Cardinality(U) <= Cardinality(V) BY <2>1, Parts
  <2> QED BY <1>1, <2>1, <2>2 DEF U
<1> HIDE DEF C
<1>3. PICK m \in T : \A k \in T : m <= k
  <2>1. T \subseteq Nat /\ T # {} BY <1>1, <1>2
  <2> HIDE DEF T
  <2> QED BY <2>1, Least
<1>4. PICK y \in S : m = N - C(y) BY <1>3
<1>5. ASSUME NEW z \in S PROVE ~Less(y, z)
  <2>1. N - C(y) <= N - C(z) BY <1>3, <1>4
  <2>2. ~(C(y) < C(z)) BY <1>1, <1>2, <2>1
  <2>3. y \in Range(values) /\ z \in Range(values) BY <1>4
  <2>4. Less(y, z) => Cardinality(UpTo(values, y)) < Cardinality(UpTo(values, z)) BY <2>3, UpToGrows
  <2> QED BY <2>2, <2>4 DEF C
<1> QED BY <1>5

(* Every order statistic is one of the values. *)
LEMMA OrderedFacts ==
  ASSUME NEW values, IsList(values), Range(values) \subseteq Ratios, NEW k \in 1..Len(values)
  PROVE  Ordered(values, k) \in Range(values)
<1> DEFINE C(x) == Cardinality(UpTo(values, x)) N == Len(values) R == Range(values)
<1>1. DOMAIN values = 1..N /\ N \in Nat BY ListFacts DEF IsList
<1>2. \A x : C(x) \in Nat /\ Cardinality(Below(values, x)) \in Nat /\ IsFiniteSet(UpTo(values, x))
  <2> SUFFICES ASSUME NEW x PROVE C(x) \in Nat /\ Cardinality(Below(values, x)) \in Nat /\ IsFiniteSet(UpTo(values, x))
    OBVIOUS
  <2> DEFINE U == UpTo(values, x) V == 1..N W == Below(values, x)
  <2>1. U \subseteq V /\ W \subseteq V /\ IsFiniteSet(V) BY <1>1, Upto DEF UpTo, Below
  <2> HIDE DEF U, V, W
  <2>2. Cardinality(U) \in Nat /\ IsFiniteSet(U) BY <2>1, Parts
  <2>3. Cardinality(W) \in Nat BY <2>1, Parts
  <2> QED BY <2>2, <2>3 DEF U, W
<1>3. \A x, y \in R : Less(x, y) => C(x) < C(y) BY UpToGrows
<1>4. R # {} BY <1>1 DEF Range
<1>5. PICK top \in R : \A z \in R : ~Less(top, z)
  <2> HIDE DEF R
  <2> QED BY <1>4, GreatestOf DEF R
<1>6. C(top) = N
  <2>1. UpTo(values, top) = 1..N BY <1>1, <1>5 DEF UpTo, Range
  <2> QED BY <1>1, <2>1, Upto
<1> HIDE DEF C
<1> DEFINE T == {C(x) : x \in {y \in R : k <= C(y)}}
<1>7. PICK m \in T : \A j \in T : m <= j
  <2>1. T \subseteq Nat BY <1>2
  <2>2. T # {} BY <1>1, <1>5, <1>6
  <2> HIDE DEF T
  <2> QED BY <2>1, <2>2, Least
<1>8. PICK x \in R : k <= C(x) /\ m = C(x) BY <1>7
<1>9. \A y \in R : k <= C(y) => C(x) <= C(y) BY <1>7, <1>8
<1>10. Cardinality(Below(values, x)) < k
  <2> SUFFICES ASSUME k <= Cardinality(Below(values, x)) PROVE FALSE BY <1>1, <1>2
  <2> DEFINE L == {values[n] : n \in Below(values, x)}
  <2>1. L # {} /\ L \subseteq R
    <3>1. Below(values, x) # {}
      <4> SUFFICES ASSUME Below(values, x) = {} PROVE FALSE OBVIOUS
      <4>1. Cardinality(Below(values, x)) = 0 BY FS_EmptySet
      <4> QED BY <1>1, <4>1
    <3>2. Below(values, x) \subseteq DOMAIN values BY DEF Below
    <3> QED BY <3>1, <3>2 DEF Range
  <2>2. PICK y \in L : \A z \in L : ~Less(y, z)
    <3> HIDE DEF L
    <3> QED BY <2>1, GreatestOf
  <2>3. y \in R /\ Less(y, x) BY <2>1 DEF Below
  <2>4. Below(values, x) \subseteq UpTo(values, y) BY <2>2 DEF UpTo, Below
  <2>5. Cardinality(Below(values, x)) <= C(y)
    <3>1. IsFiniteSet(UpTo(values, y)) BY <1>2
    <3> QED BY <2>4, <3>1, Parts DEF C
  <2>6. C(y) < C(x) BY <1>3, <1>8, <2>3
  <2>7. k <= C(y) BY <1>1, <1>2, <2>5
  <2>8. C(x) <= C(y) BY <1>9, <2>3, <2>7
  <2>9. C(x) \in Nat /\ C(y) \in Nat BY <1>2
  <2> QED BY <2>6, <2>8, <2>9
<1> DEFINE Q(w) == Cardinality(Below(values, w)) < k /\ k <= C(w)
<1>11. Ordered(values, k) = CHOOSE w \in R : Q(w)
  BY DEF Ordered, Tally, Numbers, Below, UpTo, C
<1>12. Q(x) BY <1>8, <1>10
<1> HIDE DEF Q
<1>13. Ordered(values, k) \in R BY <1>8, <1>11, <1>12
<1> QED BY <1>13

(* A low percentile of negative ratios is one. *)
LEMMA PercentileFacts ==
  ASSUME NEW values, IsList(values), Range(values) \subseteq Negative, values # <<>>
  PROVE  Percentile(values, 1, 40) \in Negative
<1> DEFINE N == Len(values) pos == N - 1 part == pos % 40
           low == Ordered(values, pos \div 40 + 1)
           high == IF part = 0 THEN low ELSE Ordered(values, pos \div 40 + 2)
<1>1. N \in Nat /\ N # 0 /\ DOMAIN values = 1..N
  <2>1. values \in Seq(Range(values)) BY DEF IsList
  <2> QED BY <2>1
<1>2. Range(values) \subseteq Ratios BY DEF Negative
<1>3. /\ pos \div 40 + 1 \in 1..N
      /\ part # 0 => pos \div 40 + 2 \in 1..N
      /\ part \in 0..39
  <2>1. \A p \in Nat : /\ p \div 40 \in Nat /\ p % 40 \in 0..39
                       /\ p = 40 * (p \div 40) + (p % 40)
    OBVIOUS
  <2>2. \A p \in Nat : /\ p \div 40 + 1 \in 1..p + 1
                       /\ p % 40 # 0 => p \div 40 + 2 \in 1..p + 1
    BY <2>1
  <2>3. pos \in Nat /\ pos + 1 = N BY <1>1
  <2> HIDE DEF pos
  <2> QED BY <2>1, <2>2, <2>3
<1>4. low \in Negative BY <1>2, <1>3, OrderedFacts
<1>5. high \in Negative BY <1>2, <1>3, <1>4, OrderedFacts
<1>6. Percentile(values, 1, 40)
        = Lowest(low[1] * high[2] * (40 - part) + high[1] * low[2] * part, low[2] * high[2] * 40)
  <2>1. N - 1 \in Int BY <1>1
  <2>2. \A p \in Int : p * 1 = p OBVIOUS
  <2>3. (Len(values) - 1) * 1 = pos BY <2>1, <2>2
  <2> HIDE DEF pos
  <2> QED BY <2>3 DEF Percentile
<1> DEFINE a == low[1] b == low[2] c == high[1] d == high[2]
<1>7. a \in Int /\ a < 0 /\ b \in Nat \ {0} /\ c \in Int /\ c < 0 /\ d \in Nat \ {0}
  BY <1>4, <1>5 DEF Negative, Ratios
<1>8. Percentile(values, 1, 40) = Lowest(a * d * (40 - part) + c * b * part, b * d * 40) BY <1>6
<1> HIDE DEF part, a, b, c, d, low, high
<1>9. a * d \in Int /\ a * d < 0 /\ c * b \in Int /\ c * b < 0 /\ b * d \in Int /\ b * d > 0 BY <1>7, Products
<1>10. /\ a * d * (40 - part) \in Int /\ a * d * (40 - part) < 0
       /\ c * b * part \in Int /\ c * b * part <= 0
       /\ b * d * 40 \in Nat \ {0}
  <2>1. 40 - part \in Int /\ 40 - part > 0 /\ part \in Int /\ part >= 0 BY <1>3
  <2> QED BY <1>9, <2>1, Products
<1> DEFINE n == a * d * (40 - part) + c * b * part e == b * d * 40
<1>11. n \in Int /\ n < 0 /\ e \in Nat \ {0} BY <1>10
<1> HIDE DEF n, e
<1>12. Lowest(n, e) \in Ratios /\ Lowest(n, e)[1] < 0 BY <1>11, LowestFacts
<1>13. Percentile(values, 1, 40) = Lowest(n, e) BY <1>8 DEF n, e
<1> QED BY <1>12, <1>13 DEF Negative

-----------------------------------------------------------------------------
(* Folding over a set takes one member after the other. *)
Pick(T) == CHOOSE x \in T : TRUE
Folded(S, g, base, st) ==
  \A T \in SUBSET S : g[T] = IF T = {} THEN base ELSE st[<<Pick(T), g[T \ {Pick(T)}]>>]

LEMMA Removed ==
  ASSUME NEW S, IsFiniteSet(S), NEW T \in SUBSET S, T # {}
  PROVE  /\ Pick(T) \in T /\ T \ {Pick(T)} \in SUBSET S
         /\ Cardinality(T) \in Nat \ {0} /\ Cardinality(T \ {Pick(T)}) = Cardinality(T) - 1
<1>1. Pick(T) \in T BY DEF Pick
<1> DEFINE x == Pick(T)
<1>2. x \in T BY <1>1
<1> HIDE DEF x
<1>3. IsFiniteSet(T) BY Parts
<1>4. {x} \subseteq T BY <1>2
<1>5. Cardinality(T \ {x}) = Cardinality(T) - Cardinality({x}) /\ Cardinality({x}) <= Cardinality(T)
      /\ Cardinality(T) \in Nat
  BY <1>3, <1>4, Parts
<1>6. Cardinality({x}) = 1 BY FS_Singleton
<1> QED BY <1>2, <1>5, <1>6 DEF x

(* Such a function exists. *)
LEMMA SetRecursion ==
  ASSUME NEW S, IsFiniteSet(S), NEW V, NEW base \in V, NEW st \in [S \X V -> V]
  PROVE  \E g \in [SUBSET S -> V] : Folded(S, g, base, st)
<1> DEFINE N == Cardinality(S)
           Small(n) == {T \in SUBSET S : Cardinality(T) <= n}
           After(g, T) == IF T = {} THEN base ELSE st[<<Pick(T), g[T \ {Pick(T)}]>>]
           Fits(g, n) == \A T \in Small(n) : g[T] = After(g, T)
           Has(n) == \E g \in [Small(n) -> V] : Fits(g, n)
           H == {n \in 0..N : Has(n)}
<1>1. N \in Nat /\ \A T \in SUBSET S : Cardinality(T) \in Nat /\ Cardinality(T) <= N /\ (T # {} => Cardinality(T) # 0)
  <2>1. N \in Nat BY FS_CardinalityType
  <2>2. ASSUME NEW T \in SUBSET S PROVE Cardinality(T) \in Nat /\ Cardinality(T) <= N BY Parts
  <2>3. ASSUME NEW T \in SUBSET S, T # {} PROVE Cardinality(T) # 0 BY <2>3, Removed
  <2> QED BY <2>1, <2>2, <2>3
<1>2. 0 \in H
  <2> DEFINE g == [T \in Small(0) |-> base]
  <2>1. \A T \in Small(0) : T = {} BY <1>1
  <2>2. g \in [Small(0) -> V] /\ Fits(g, 0) BY <2>1
  <2>3. 0 \in 0..N BY <1>1
  <2>4. Has(0) BY <2>2
  <2> HIDE DEF Has
  <2> QED BY <2>3, <2>4
<1>3. ASSUME NEW n \in 1..N, n - 1 \in H PROVE n \in H
  <2>1. PICK f \in [Small(n - 1) -> V] : Fits(f, n - 1) BY <1>3
  <2> DEFINE g == [T \in Small(n) |-> After(f, T)]
  <2>2. \A T \in Small(n - 1) : T \in Small(n) /\ g[T] = f[T]
    <3> SUFFICES ASSUME NEW T \in Small(n - 1) PROVE T \in Small(n) /\ g[T] = f[T] OBVIOUS
    <3>1. T \in Small(n) BY <1>1
    <3>2. f[T] = After(f, T) BY <2>1
    <3> QED BY <3>1, <3>2
  <2>3. ASSUME NEW T \in Small(n), T # {}
        PROVE  Pick(T) \in S /\ T \ {Pick(T)} \in Small(n - 1)
    <3>1. Pick(T) \in T /\ T \ {Pick(T)} \in SUBSET S /\ Cardinality(T) \in Nat \ {0}
          /\ Cardinality(T \ {Pick(T)}) = Cardinality(T) - 1
      BY <2>3, Removed
    <3> QED BY <1>1, <3>1
  <2>4. \A T \in Small(n) : After(f, T) \in V
    <3> SUFFICES ASSUME NEW T \in Small(n) PROVE After(f, T) \in V OBVIOUS
    <3>1. CASE T = {} BY <3>1
    <3>2. CASE T # {}
      <4>1. f[T \ {Pick(T)}] \in V BY <2>1, <2>3, <3>2
      <4>2. <<Pick(T), f[T \ {Pick(T)}]>> \in S \X V BY <2>3, <3>2, <4>1
      <4>3. st[<<Pick(T), f[T \ {Pick(T)}]>>] \in V BY <4>2
      <4> QED BY <3>2, <4>3
    <3> QED BY <3>1, <3>2
  <2>5. g \in [Small(n) -> V] BY <2>4
  <2>6. Fits(g, n)
    <3> SUFFICES ASSUME NEW T \in Small(n) PROVE g[T] = After(g, T) OBVIOUS
    <3>1. g[T] = After(f, T) OBVIOUS
    <3>2. CASE T = {} BY <3>1, <3>2
    <3>3. CASE T # {}
      <4>1. g[T \ {Pick(T)}] = f[T \ {Pick(T)}] BY <2>2, <2>3, <3>3
      <4> HIDE DEF g
      <4> QED BY <3>1, <3>3, <4>1
    <3> QED BY <3>2, <3>3
  <2>7. n \in 0..N BY <1>1
  <2>8. Has(n)
    <3> HIDE DEF g, Small
    <3> QED BY <2>5, <2>6
  <2> HIDE DEF Has
  <2> QED BY <2>7, <2>8
<1>4. N \in H
  <2> HIDE DEF H
  <2>1. 0..N \subseteq H BY <1>1, <1>2, <1>3, Induct
  <2> QED BY <1>1, <2>1
<1>5. PICK g \in [Small(N) -> V] : Fits(g, N) BY <1>4
<1>6. Small(N) = SUBSET S BY <1>1
<1>7. g \in [SUBSET S -> V] BY <1>6
<1>8. Folded(S, g, base, st) BY <1>5, <1>6 DEF Folded
<1> QED BY <1>7, <1>8

(* What holds of {} and passes on to a set with one more member holds of all. *)
LEMMA SetInduct ==
  ASSUME NEW S, IsFiniteSet(S), NEW H, {} \in H,
         \A T \in SUBSET S : T # {} /\ T \ {Pick(T)} \in H => T \in H
  PROVE  SUBSET S \subseteq H
<1> SUFFICES ASSUME NEW A \in SUBSET S, A \notin H PROVE FALSE OBVIOUS
<1> DEFINE B == {T \in SUBSET S : T \notin H} C == {Cardinality(T) : T \in B}
<1>1. \A T \in B : T # {} /\ T \in SUBSET S OBVIOUS
<1>2. \A T \in B : Cardinality(T) \in Nat
  <2> HIDE DEF B
  <2> QED BY <1>1, Removed
<1>3. PICK m \in C : \A k \in C : m <= k
  <2>1. C \subseteq Nat /\ C # {} BY <1>2
  <2> HIDE DEF C
  <2> QED BY <2>1, Least
<1>4. PICK T \in B : m = Cardinality(T) BY <1>3
<1>5. T \ {Pick(T)} \in SUBSET S /\ Cardinality(T) \in Nat /\ Cardinality(T \ {Pick(T)}) = Cardinality(T) - 1
  BY <1>1, Removed
<1>6. T \ {Pick(T)} \in H
  <2> SUFFICES ASSUME T \ {Pick(T)} \notin H PROVE FALSE OBVIOUS
  <2>1. Cardinality(T \ {Pick(T)}) \in C BY <1>5
  <2>2. m <= Cardinality(T \ {Pick(T)}) BY <1>3, <2>1
  <2> QED BY <1>4, <1>5, <2>2
<1> QED BY <1>1, <1>4, <1>6

(* A sum of ratios of which none is negative. *)
PlusSums(S, f, g) ==
  g[{}] = <<0, 1>> /\ \A T \in SUBSET S : T # {} => g[T] = Plus(f[Pick(T)], g[T \ {Pick(T)}])

LEMMA FoldPlus ==
  ASSUME NEW S, IsFiniteSet(S), NEW f \in [S -> NotNegative]
  PROVE  \E g \in [SUBSET S -> NotNegative] : PlusSums(S, f, g) /\ FoldFunction(Plus, <<0, 1>>, f) = g[S]
<1> DEFINE V == NotNegative base == <<0, 1>>
           st == [p \in S \X V |-> Plus(f[p[1]], p[2])]
           Eq(g) == g = [T \in SUBSET S |-> IF T = {} THEN base ELSE Plus(f[Pick(T)], g[T \ {Pick(T)}])]
           c == CHOOSE g : Eq(g)
<1>1. base \in V /\ \A p, q \in V : Plus(p, q) \in V BY PlusFacts DEF NotNegative, Ratios
<1>2. st \in [S \X V -> V]
  <2>1. \A p \in S \X V : f[p[1]] \in V /\ p[2] \in V OBVIOUS
  <2> HIDE DEF V
  <2> QED BY <1>1, <2>1
<1>3. PICK g \in [SUBSET S -> V] : Folded(S, g, base, st)
  <2> HIDE DEF V, base, st
  <2> QED BY <1>1, <1>2, SetRecursion
<1>4. Eq(g)
  <2> SUFFICES ASSUME NEW T \in SUBSET S
               PROVE  g[T] = IF T = {} THEN base ELSE Plus(f[Pick(T)], g[T \ {Pick(T)}])
    OBVIOUS
  <2>1. CASE T = {} BY <1>3, <2>1 DEF Folded
  <2>2. CASE T # {}
    <3>1. Pick(T) \in S /\ T \ {Pick(T)} \in SUBSET S BY <2>2, Removed
    <3>2. g[T \ {Pick(T)}] \in V BY <3>1
    <3>3. <<Pick(T), g[T \ {Pick(T)}]>> \in S \X V BY <3>1, <3>2
    <3>4. g[T] = st[<<Pick(T), g[T \ {Pick(T)}]>>] BY <1>3, <2>2 DEF Folded
    <3> HIDE DEF V
    <3> QED BY <2>2, <3>3, <3>4
  <2> QED BY <2>1, <2>2
<1>5. Eq(c) BY <1>4
<1>6. FoldFunction(Plus, <<0, 1>>, f) = c[S]
  <2>1. DOMAIN f = S OBVIOUS
  <2> QED BY <2>1 DEF FoldFunction, FoldFunctionOnSet, MapThenFoldSet, Pick
<1> HIDE DEF c
<1>7. \A T \in SUBSET S : c[T] = IF T = {} THEN base ELSE Plus(f[Pick(T)], c[T \ {Pick(T)}])
  <2> HIDE DEF base, V
  <2> QED BY <1>5
<1>8. c \in [SUBSET S -> V]
  <2> DEFINE H == {T \in SUBSET S : c[T] \in V}
  <2>1. {} \in H BY <1>1, <1>7
  <2>2. ASSUME NEW T \in SUBSET S, T # {}, T \ {Pick(T)} \in H PROVE T \in H
    <3>1. Pick(T) \in S /\ T \ {Pick(T)} \in SUBSET S BY <2>2, Removed
    <3>2. f[Pick(T)] \in V BY <3>1
    <3>3. c[T \ {Pick(T)}] \in V BY <2>2
    <3>4. c[T] = Plus(f[Pick(T)], c[T \ {Pick(T)}]) BY <1>7, <2>2
    <3> HIDE DEF V
    <3>5. c[T] \in V BY <1>1, <3>2, <3>3, <3>4
    <3> QED BY <3>5
  <2>3. SUBSET S \subseteq H
    <3> HIDE DEF H
    <3> QED BY <2>1, <2>2, SetInduct
  <2>4. DOMAIN c = SUBSET S /\ c = [T \in SUBSET S |-> c[T]]
    <3> HIDE DEF base, V
    <3> QED BY <1>5
  <2> HIDE DEF V
  <2> QED BY <2>3, <2>4
<1>9. c[{}] = base BY <1>7
<1>10. \A T \in SUBSET S : T # {} => c[T] = Plus(f[Pick(T)], c[T \ {Pick(T)}]) BY <1>7
<1>11. PlusSums(S, f, c) BY <1>9, <1>10 DEF PlusSums
<1> QED BY <1>6, <1>8, <1>11

(* A sum of numbers. *)
SumSums(S, f, g) ==
  g[{}] = 0 /\ \A T \in SUBSET S : T # {} => g[T] = f[Pick(T)] + g[T \ {Pick(T)}]

LEMMA FoldSum ==
  ASSUME NEW S, IsFiniteSet(S), NEW f \in [S -> Nat]
  PROVE  \E g \in [SUBSET S -> Nat] : SumSums(S, f, g) /\ SumOf(f) = g[S]
<1> DEFINE V == Nat base == 0
           st == [p \in S \X V |-> f[p[1]] + p[2]]
           Eq(g) == g = [T \in SUBSET S |-> IF T = {} THEN base ELSE f[Pick(T)] + g[T \ {Pick(T)}]]
           c == CHOOSE g : Eq(g)
<1>1. base \in V /\ \A p, q \in V : p + q \in V OBVIOUS
<1>2. st \in [S \X V -> V]
  <2>1. \A p \in S \X V : f[p[1]] \in V /\ p[2] \in V OBVIOUS
  <2> HIDE DEF V
  <2> QED BY <1>1, <2>1
<1>3. PICK g \in [SUBSET S -> V] : Folded(S, g, base, st)
  <2> HIDE DEF V, base, st
  <2> QED BY <1>1, <1>2, SetRecursion
<1>4. Eq(g)
  <2> SUFFICES ASSUME NEW T \in SUBSET S
               PROVE  g[T] = IF T = {} THEN base ELSE f[Pick(T)] + g[T \ {Pick(T)}]
    OBVIOUS
  <2>1. CASE T = {} BY <1>3, <2>1 DEF Folded
  <2>2. CASE T # {}
    <3>1. Pick(T) \in S /\ T \ {Pick(T)} \in SUBSET S BY <2>2, Removed
    <3>2. g[T \ {Pick(T)}] \in V BY <3>1
    <3>3. <<Pick(T), g[T \ {Pick(T)}]>> \in S \X V BY <3>1, <3>2
    <3>4. g[T] = st[<<Pick(T), g[T \ {Pick(T)}]>>] BY <1>3, <2>2 DEF Folded
    <3> HIDE DEF V
    <3> QED BY <2>2, <3>3, <3>4
  <2> QED BY <2>1, <2>2
<1>5. Eq(c) BY <1>4
<1>6. SumOf(f) = c[S]
  <2>1. DOMAIN f = S OBVIOUS
  <2> QED BY <2>1 DEF FoldFunction, FoldFunctionOnSet, MapThenFoldSet, Pick, SumOf
<1> HIDE DEF c
<1>7. \A T \in SUBSET S : c[T] = IF T = {} THEN base ELSE f[Pick(T)] + c[T \ {Pick(T)}]
  <2> HIDE DEF base, V
  <2> QED BY <1>5
<1>8. c \in [SUBSET S -> V]
  <2> DEFINE H == {T \in SUBSET S : c[T] \in V}
  <2>1. {} \in H BY <1>1, <1>7
  <2>2. ASSUME NEW T \in SUBSET S, T # {}, T \ {Pick(T)} \in H PROVE T \in H
    <3>1. Pick(T) \in S /\ T \ {Pick(T)} \in SUBSET S BY <2>2, Removed
    <3>2. f[Pick(T)] \in V BY <3>1
    <3>3. c[T \ {Pick(T)}] \in V BY <2>2
    <3>4. c[T] = f[Pick(T)] + c[T \ {Pick(T)}] BY <1>7, <2>2
    <3> HIDE DEF V
    <3>5. c[T] \in V BY <1>1, <3>2, <3>3, <3>4
    <3> QED BY <3>5
  <2>3. SUBSET S \subseteq H
    <3> HIDE DEF H
    <3> QED BY <2>1, <2>2, SetInduct
  <2>4. DOMAIN c = SUBSET S /\ c = [T \in SUBSET S |-> c[T]]
    <3> HIDE DEF base, V
    <3> QED BY <1>5
  <2> HIDE DEF V
  <2> QED BY <2>3, <2>4
<1>9. c[{}] = base BY <1>7
<1>10. \A T \in SUBSET S : T # {} => c[T] = f[Pick(T)] + c[T \ {Pick(T)}] BY <1>7
<1>11. SumSums(S, f, c) BY <1>9, <1>10 DEF SumSums
<1> QED BY <1>6, <1>8, <1>11

(* It is naught when all its members are, and positive when one is. *)
LEMMA PlusSigns ==
  ASSUME NEW S, IsFiniteSet(S), NEW f \in [S -> NotNegative], NEW sum, sum = FoldFunction(Plus, <<0, 1>>, f)
  PROVE  /\ sum \in NotNegative
         /\ (\A x \in S : f[x] \in Naught) => sum \in Naught
         /\ (\E x \in S : f[x] \in Positive) => sum \in Positive
<1>1. PICK g \in [SUBSET S -> NotNegative] :
        /\ g[{}] = <<0, 1>> /\ FoldFunction(Plus, <<0, 1>>, f) = g[S]
        /\ \A T \in SUBSET S : T # {} => g[T] = Plus(f[Pick(T)], g[T \ {Pick(T)}])
  <2>1. PICK g \in [SUBSET S -> NotNegative] : PlusSums(S, f, g) /\ FoldFunction(Plus, <<0, 1>>, f) = g[S]
    BY FoldPlus
  <2> QED BY <2>1 DEF PlusSums
<1>2. \A T \in SUBSET S : T # {} => Pick(T) \in T /\ Pick(T) \in S /\ T \ {Pick(T)} \in SUBSET S BY Removed
<1>3. sum = g[S] /\ S \in SUBSET S BY <1>1
<1>4. ASSUME \A x \in S : f[x] \in Naught PROVE sum \in Naught
  <2> DEFINE H == {T \in SUBSET S : g[T] \in Naught}
  <2>1. {} \in H BY <1>1 DEF Naught, Ratios
  <2>2. ASSUME NEW T \in SUBSET S, T # {}, T \ {Pick(T)} \in H PROVE T \in H
    <3>1. f[Pick(T)] \in Naught /\ g[T \ {Pick(T)}] \in Naught BY <1>2, <1>4, <2>2
    <3>2. g[T] = Plus(f[Pick(T)], g[T \ {Pick(T)}]) BY <1>1, <2>2
    <3>3. \A p, q \in Naught : Plus(p, q) \in Naught BY PlusFacts DEF Naught
    <3>4. g[T] \in Naught BY <3>1, <3>2, <3>3
    <3> QED BY <3>4
  <2>3. SUBSET S \subseteq H
    <3> HIDE DEF H
    <3> QED BY <2>1, <2>2, SetInduct
  <2> QED BY <1>3, <2>3
<1>5. ASSUME NEW x \in S, f[x] \in Positive PROVE sum \in Positive
  <2> DEFINE H == {T \in SUBSET S : x \in T => g[T] \in Positive}
  <2>1. {} \in H OBVIOUS
  <2>2. ASSUME NEW T \in SUBSET S, T # {}, T \ {Pick(T)} \in H PROVE T \in H
    <3> SUFFICES ASSUME x \in T PROVE g[T] \in Positive OBVIOUS
    <3>1. g[T] = Plus(f[Pick(T)], g[T \ {Pick(T)}]) BY <1>1, <2>2
    <3>2. f[Pick(T)] \in NotNegative /\ g[T \ {Pick(T)}] \in NotNegative BY <1>1, <1>2, <2>2
    <3>3. f[Pick(T)] \in Positive \/ g[T \ {Pick(T)}] \in Positive
      <4>1. CASE x = Pick(T) BY <1>5, <4>1
      <4>2. CASE x # Pick(T)
        <5>1. x \in T \ {Pick(T)} BY <4>2
        <5> QED BY <2>2, <5>1
      <4> QED BY <4>1, <4>2
    <3>4. \A p, q \in NotNegative : p \in Positive \/ q \in Positive => Plus(p, q) \in Positive
      BY PlusFacts DEF NotNegative, Positive
    <3> QED BY <3>1, <3>2, <3>3, <3>4
  <2>3. SUBSET S \subseteq H
    <3> HIDE DEF H
    <3> QED BY <2>1, <2>2, SetInduct
  <2> QED BY <1>3, <1>5, <2>3
<1> QED BY <1>1, <1>3, <1>4, <1>5

(* Disjoint cells add up to what they hold. *)
LEMMA Cells ==
  ASSUME NEW S, IsFiniteSet(S), NEW U, IsFiniteSet(U), NEW cell \in [S -> SUBSET U],
         \A x, y \in S : x # y => cell[x] \cap cell[y] = {},
         NEW f, f = [x \in S |-> Cardinality(cell[x])]
  PROVE  SumOf(f) = Cardinality(UNION {cell[x] : x \in S})
<1> DEFINE All(T) == UNION {cell[x] : x \in T}
<1>1. \A x \in S : IsFiniteSet(cell[x]) /\ Cardinality(cell[x]) \in Nat
  <2> SUFFICES ASSUME NEW x \in S PROVE IsFiniteSet(cell[x]) /\ Cardinality(cell[x]) \in Nat OBVIOUS
  <2> DEFINE A == cell[x]
  <2>1. A \subseteq U OBVIOUS
  <2> HIDE DEF A
  <2>2. IsFiniteSet(A) /\ Cardinality(A) \in Nat BY <2>1, Parts
  <2> QED BY <2>2 DEF A
<1>2. f \in [S -> Nat] BY <1>1
<1>3. PICK g \in [SUBSET S -> Nat] :
        /\ g[{}] = 0 /\ SumOf(f) = g[S]
        /\ \A T \in SUBSET S : T # {} => g[T] = f[Pick(T)] + g[T \ {Pick(T)}]
  <2>1. PICK g \in [SUBSET S -> Nat] : SumSums(S, f, g) /\ SumOf(f) = g[S] BY <1>2, FoldSum
  <2> QED BY <2>1 DEF SumSums
<1> DEFINE H == {T \in SUBSET S : g[T] = Cardinality(All(T))}
<1>4. {} \in H
  <2>1. All({}) = {} OBVIOUS
  <2>2. Cardinality({}) = 0 BY FS_EmptySet
  <2> QED BY <1>3, <2>1, <2>2
<1>5. ASSUME NEW T \in SUBSET S, T # {}, T \ {Pick(T)} \in H PROVE T \in H
  <2> DEFINE x == Pick(T) R == T \ {x} A == cell[x] B == All(R)
  <2>1. x \in T /\ x \in S BY <1>5, Removed
  <2>2. g[T] = Cardinality(A) + Cardinality(B)
    <3>1. g[T] = f[x] + g[R] BY <1>3, <1>5
    <3>2. f[x] = Cardinality(A) BY <2>1
    <3> QED BY <1>5, <3>1, <3>2
  <2>3. A \cup B = All(T) BY <2>1
  <2>4. A \subseteq U /\ B \subseteq U /\ A \cap B = {} BY <2>1
  <2> HIDE DEF A, B
  <2>5. Cardinality(A \cup B) = Cardinality(A) + Cardinality(B) BY <2>4, Apart2
  <2> HIDE DEF All
  <2>6. g[T] = Cardinality(All(T)) BY <2>2, <2>3, <2>5
  <2> QED BY <2>6
<1>6. S \in H
  <2> HIDE DEF H
  <2>1. SUBSET S \subseteq H BY <1>4, <1>5, SetInduct
  <2> QED BY <2>1
<1> QED BY <1>3, <1>6

-----------------------------------------------------------------------------
(* What the reducers say of scored rows. *)
LEMMA TallyFacts ==
  ASSUME NEW rows0, IsList(rows0), NEW S, S \subseteq DOMAIN rows0
  PROVE  /\ IsFiniteSet(S) /\ Cardinality(S) \in 0..Len(rows0) /\ Len(rows0) \in Nat
         /\ DOMAIN rows0 = 1..Len(rows0) /\ Cardinality(DOMAIN rows0) = Len(rows0) /\ IsFiniteSet(DOMAIN rows0)
         /\ S # {} => Cardinality(S) > 0
<1>1. DOMAIN rows0 = 1..Len(rows0) /\ Len(rows0) \in Nat BY ListFacts DEF IsList
<1> DEFINE V == 1..Len(rows0)
<1>2. S \subseteq V /\ IsFiniteSet(V) /\ Cardinality(V) = Len(rows0) BY <1>1, Upto
<1> HIDE DEF V
<1>3. IsFiniteSet(S) /\ Cardinality(S) \in Nat /\ Cardinality(S) <= Cardinality(V) BY <1>2, Parts
<1>4. S # {} => Cardinality(S) # 0 BY <1>3, FS_EmptySet
<1> QED BY <1>1, <1>2, <1>3, <1>4 DEF V

(* A class's F1 is naught when no row of it was met, and positive when one was. *)
LEMMA PerClassFacts ==
  ASSUME NEW q, IsList(q), NEW label, NEW f1, f1 = PerClass(q, label).f1
  PROVE  /\ f1 \in NotNegative
         /\ (\A n \in DOMAIN q : ~(q[n].truth = label /\ Prediction(q[n]) = label)) => f1 \in Naught
         /\ (\E n \in DOMAIN q : q[n].truth = label /\ Prediction(q[n]) = label) => f1 \in Positive
<1> DEFINE A == {n \in DOMAIN q : q[n].truth = label /\ Prediction(q[n]) = label}
           B == {n \in DOMAIN q : q[n].truth # label /\ Prediction(q[n]) = label}
           C == {n \in DOMAIN q : q[n].truth = label /\ Prediction(q[n]) # label}
           tp == Cardinality(A) fp == Cardinality(B) fn == Cardinality(C)
<1>1. tp \in Nat /\ fp \in Nat /\ fn \in Nat /\ (A # {} => tp > 0)
  <2>1. A \subseteq DOMAIN q /\ B \subseteq DOMAIN q /\ C \subseteq DOMAIN q OBVIOUS
  <2> HIDE DEF A, B, C
  <2>2. tp \in Nat /\ (A # {} => tp > 0) BY <2>1, TallyFacts
  <2>3. fp \in Nat BY <2>1, TallyFacts
  <2>4. fn \in Nat BY <2>1, TallyFacts
  <2> QED BY <2>2, <2>3, <2>4
<1>2. f1 = Over(2 * tp, 2 * tp + fp + fn) BY DEF PerClass, Tally, Numbers
<1>3. A = {} => tp = 0 BY FS_EmptySet
<1> HIDE DEF tp, fp, fn
<1> DEFINE k == 2 * tp m == 2 * tp + fp + fn
<1>4. k \in Int /\ m \in Nat /\ k >= 0 /\ (tp > 0 => k > 0 /\ m > 0) /\ (tp = 0 => k = 0) BY <1>1
<1>5. f1 = Over(k, m) BY <1>2
<1> HIDE DEF k, m
<1>6. /\ f1 \in NotNegative
      /\ k > 0 /\ m > 0 => f1 \in Positive
      /\ k = 0 => f1 \in Naught
  BY <1>4, <1>5, OverFacts
<1> QED BY <1>1, <1>3, <1>4, <1>6

(* Macro-F1 is naught when every row misses, positive when one is met. *)
LEMMA MacroFacts ==
  ASSUME NEW q, IsList(q), NEW classes, IsFiniteSet(classes), NEW macro, macro = MacroF1(q, classes)
  PROVE  /\ macro \in Ratios
         /\ (\A n \in DOMAIN q : Prediction(q[n]) # q[n].truth) => macro \in Naught
         /\ (\E n \in DOMAIN q : Prediction(q[n]) = q[n].truth /\ q[n].truth \in classes) => macro \in Positive
<1> DEFINE f == [l \in classes |-> PerClass(q, l).f1] sum == FoldFunction(Plus, <<0, 1>>, f)
           m == sum[2] * Cardinality(classes) k == sum[1]
<1>1. f \in [classes -> NotNegative] BY PerClassFacts
<1>2. /\ sum \in NotNegative
      /\ (\A l \in classes : f[l] \in Naught) => sum \in Naught
      /\ (\E l \in classes : f[l] \in Positive) => sum \in Positive
  <2> HIDE DEF f
  <2> QED BY <1>1, PlusSigns
<1>3. macro = Over(k, m) BY DEF MacroF1
<1>4. Cardinality(classes) \in Nat /\ (classes # {} => Cardinality(classes) > 0)
  <2>1. Cardinality(classes) \in Nat BY FS_CardinalityType
  <2>2. classes # {} => Cardinality(classes) # 0 BY FS_EmptySet
  <2> QED BY <2>1, <2>2
<1> HIDE DEF sum
<1>5. sum[1] \in Int /\ sum[1] >= 0 /\ sum[2] \in Nat /\ sum[2] > 0 BY <1>2 DEF NotNegative, Ratios
<1>6. k \in Int /\ k >= 0 /\ m \in Nat /\ (classes # {} => m > 0) BY <1>4, <1>5, Products
<1> HIDE DEF k, m
<1>7. /\ macro \in Ratios
      /\ k > 0 /\ m > 0 => macro \in Positive
      /\ k = 0 => macro \in Naught
  BY <1>3, <1>6, OverFacts
<1>8. ASSUME \A n \in DOMAIN q : Prediction(q[n]) # q[n].truth PROVE macro \in Naught
  <2>1. \A l \in classes : f[l] \in Naught
    <3> SUFFICES ASSUME NEW l \in classes PROVE PerClass(q, l).f1 \in Naught OBVIOUS
    <3>1. \A n \in DOMAIN q : ~(q[n].truth = l /\ Prediction(q[n]) = l) BY <1>8
    <3> QED BY <3>1, PerClassFacts
  <2> QED BY <1>2, <1>7, <2>1 DEF Naught, k
<1>9. ASSUME NEW n \in DOMAIN q, Prediction(q[n]) = q[n].truth, q[n].truth \in classes PROVE macro \in Positive
  <2> DEFINE l == q[n].truth
  <2>1. f[l] \in Positive BY <1>9, PerClassFacts
  <2>2. sum \in Positive
    <3> HIDE DEF f
    <3> QED BY <1>2, <1>9, <2>1
  <2> QED BY <1>6, <1>7, <1>9, <2>2 DEF Positive, k
<1> QED BY <1>7, <1>8, <1>9

(* A validity that passes the gate leaves one row in a hundred invalid. *)
LEMMA ValidityFacts ==
  ASSUME NEW q, IsList(q), \A n \in DOMAIN q : q[n].valid \in BOOLEAN, ~Less(SchemaValidity(q), <<99, 100>>)
  PROVE  100 * Cardinality({n \in DOMAIN q : ~q[n].valid}) <= Len(q)
<1> DEFINE A == {n \in DOMAIN q : q[n].valid} B == {n \in DOMAIN q : ~q[n].valid} N == Len(q)
<1>1. /\ Cardinality(A) \in Nat /\ Cardinality(B) \in Nat /\ N \in Nat /\ Cardinality(A) + Cardinality(B) = N
  <2> DEFINE D == DOMAIN q
  <2>1. A \subseteq D /\ B \subseteq D /\ A \cap B = {} /\ A \cup B = D OBVIOUS
  <2>2. IsFiniteSet(D) /\ Cardinality(D) = N /\ N \in Nat BY TallyFacts
  <2> HIDE DEF A, B, D
  <2>3. Cardinality(A) + Cardinality(B) = N BY <2>1, <2>2, Apart2
  <2>4. Cardinality(A) \in Nat BY <2>1, <2>2, Parts
  <2>5. Cardinality(B) \in Nat BY <2>1, <2>2, Parts
  <2> QED BY <2>2, <2>3, <2>4, <2>5
<1> DEFINE t == Cardinality(A) u == Cardinality(B) x == SchemaValidity(q)
<1>2. x = Over(t, N) BY DEF SchemaValidity, Tally, Numbers
<1>3. ~(x[1] * 100 < 99 * x[2]) BY DEF Less
<1>4. t \in Nat /\ u \in Nat /\ N \in Nat /\ t + u = N BY <1>1
<1> HIDE DEF t, u, N, x
<1>5. CASE N = 0 BY <1>4, <1>5 DEF u
<1>6. CASE N # 0
  <2>1. x = Lowest(t, N) BY <1>2, <1>6 DEF Over
  <2>2. x \in Ratios /\ SameRatio(x, t, N) BY <1>4, <1>6, <2>1, LowestFacts
  <2>3. PICK g \in Nat \ {0} : t = g * x[1] /\ N = g * x[2] BY <2>2 DEF SameRatio
  <2> DEFINE a == x[1] b == x[2]
  <2>4. a \in Int /\ b \in Nat /\ t = g * a /\ N = g * b /\ ~(a * 100 < 99 * b) BY <1>3, <2>2, <2>3 DEF Ratios
  <2> HIDE DEF a, b
  <2>5. (99 * b) * g <= (a * 100) * g
    <3>1. 99 * b <= a * 100 BY <2>4
    <3> QED BY <2>4, <3>1, Products
  <2>6. (99 * b) * g = 99 * (g * b) /\ (a * 100) * g = 100 * (g * a) BY <2>4
  <2>7. 99 * N <= 100 * t BY <2>4, <2>5, <2>6
  <2>8. 100 * u <= N BY <1>4, <2>7
  <2> QED BY <2>8 DEF u, N
<1> QED BY <1>5, <1>6 DEF u, N

(* The values of a finite set are finitely many. *)
LEMMA FiniteValues == ASSUME NEW S, IsFiniteSet(S), NEW h, DOMAIN h = S PROVE IsFiniteSet({h[x] : x \in S})
<1> DEFINE T == {h[x] : x \in S} g == [x \in S |-> h[x]]
<1>1. g \in Surjection(S, T)
  <2>1. g \in [S -> T] /\ \A t \in T : \E x \in S : g[x] = t OBVIOUS
  <2> HIDE DEF g, T
  <2> QED BY <2>1 DEF Surjection
<1> HIDE DEF g, T
<1>2. IsFiniteSet(T) BY <1>1, FS_Surjection
<1> QED BY <1>2 DEF T

(* Each row is in one cell of the confusion table. *)
LEMMA TableFacts ==
  ASSUME NEW q, IsList(q), NEW classes, IsFiniteSet(classes), \A n \in DOMAIN q : q[n].truth \in classes,
         NEW c, c = Classification(q, classes)
  PROVE  c.n = Len(q) /\ SumOf([t \in classes |-> SumOf(c.confusion[t])]) = Len(q)
<1> DEFINE h == [n \in DOMAIN q |-> Prediction(q[n])]
           columns == classes \cup {Invalid} \cup {h[n] : n \in DOMAIN q}
           D == DOMAIN q
           row == [t \in classes |-> {n \in D : q[n].truth = t}]
           cell == [t \in classes |-> [p \in columns |-> {n \in D : q[n].truth = t /\ h[n] = p}]]
<1>1. IsFiniteSet(D) /\ Cardinality(D) = Len(q) BY TallyFacts
<1>2. IsFiniteSet(columns)
  <2>1. IsFiniteSet({h[n] : n \in D})
    <3>1. DOMAIN h = D OBVIOUS
    <3> HIDE DEF h, D
    <3> QED BY <1>1, <3>1, FiniteValues
  <2>2. IsFiniteSet({Invalid}) BY FS_Singleton
  <2> DEFINE A == {h[n] : n \in D} B == {Invalid}
  <2>3. IsFiniteSet(A) /\ IsFiniteSet(B) BY <2>1, <2>2
  <2> HIDE DEF A, B
  <2>4. IsFiniteSet(classes \cup B) BY <2>3, FS_Union
  <2>5. IsFiniteSet((classes \cup B) \cup A) BY <2>3, <2>4, FS_Union
  <2> QED BY <2>5 DEF A, B
<1>3. /\ c.n = Len(q)
      /\ c.confusion = [t \in classes |-> [p \in columns |-> Cardinality(cell[t][p])]]
  <2>1. \A n \in DOMAIN q : h[n] = Prediction(q[n]) OBVIOUS
  <2>2. {h[n] : n \in DOMAIN q} = {Prediction(q[n]) : n \in DOMAIN q} BY <2>1
  <2>3. \A t \in classes, p \in columns : cell[t][p] = {n \in DOMAIN q : q[n].truth = t /\ Prediction(q[n]) = p}
    BY <2>1
  <2>4. c.n = Len(q) BY DEF Classification
  <2> DEFINE cols == classes \cup {Invalid} \cup {Prediction(q[n]) : n \in DOMAIN q}
  <2>5. c.confusion = [t \in classes |-> [p \in cols |->
                          Cardinality({n \in DOMAIN q : q[n].truth = t /\ Prediction(q[n]) = p})]]
    BY DEF Classification, Tally, Numbers
  <2>6. cols = columns BY <2>2
  <2> HIDE DEF cell, columns, h, cols
  <2> QED BY <2>3, <2>4, <2>5, <2>6
<1>4. \A n \in D : h[n] \in columns OBVIOUS
<1> HIDE DEF columns
<1>5. ASSUME NEW t \in classes PROVE SumOf(c.confusion[t]) = Cardinality(row[t])
  <2> DEFINE k == cell[t] f == [p \in columns |-> Cardinality(k[p])]
  <2>1. k \in [columns -> SUBSET D] /\ \A x, y \in columns : x # y => k[x] \cap k[y] = {} OBVIOUS
  <2>2. UNION {k[p] : p \in columns} = row[t]
    <3>1. k = [p \in columns |-> {n \in D : q[n].truth = t /\ h[n] = p}] OBVIOUS
    <3>2. row[t] = {n \in D : q[n].truth = t} OBVIOUS
    <3> HIDE DEF k, D, h, row
    <3>3. ASSUME NEW x \in UNION {k[p] : p \in columns} PROVE x \in row[t] BY <3>1, <3>2
    <3>4. ASSUME NEW x \in row[t] PROVE x \in UNION {k[p] : p \in columns} BY <1>4, <3>1, <3>2
    <3> QED BY <3>3, <3>4
  <2>3. c.confusion[t] = f BY <1>3
  <2> HIDE DEF k, D, h, row
  <2>4. f = [p \in columns |-> Cardinality(k[p])] OBVIOUS
  <2> HIDE DEF f
  <2>5. SumOf(f) = Cardinality(UNION {k[p] : p \in columns}) BY <1>1, <1>2, <2>1, <2>4, Cells
  <2> QED BY <2>2, <2>3, <2>5
<1> DEFINE f == [t \in classes |-> SumOf(c.confusion[t])]
<1>6. f = [t \in classes |-> Cardinality(row[t])] BY <1>5
<1>7. row \in [classes -> SUBSET D] /\ \A x, y \in classes : x # y => row[x] \cap row[y] = {} OBVIOUS
<1>8. UNION {row[t] : t \in classes} = D
  <2>1. row = [t \in classes |-> {n \in D : q[n].truth = t}] OBVIOUS
  <2>2. \A n \in D : q[n].truth \in classes OBVIOUS
  <2> HIDE DEF row, D
  <2>3. ASSUME NEW n \in D PROVE n \in UNION {row[t] : t \in classes} BY <2>1, <2>2
  <2>4. ASSUME NEW n \in UNION {row[t] : t \in classes} PROVE n \in D BY <2>1
  <2> QED BY <2>3, <2>4
<1> HIDE DEF f, row, D
<1>9. SumOf(f) = Cardinality(UNION {row[t] : t \in classes}) BY <1>1, <1>6, <1>7, Cells
<1> QED BY <1>1, <1>3, <1>8, <1>9 DEF f

(* and in one bin of the reliability table. *)
Binned(q, bins) ==
  /\ UNION {bins[b].items : b \in 0..9} = {q[n].item : n \in DOMAIN q}
  /\ SumOf([b \in 0..9 |-> bins[b].n]) = Len(q)

LEMMA BinFacts ==
  ASSUME NEW q, IsList(q), \A n \in DOMAIN q : q[n].conf \in 0..10, NEW bins, bins = Brier(q).bins
  PROVE  Binned(q, bins)
<1> DEFINE D == DOMAIN q B == 0..9
           at0 == [n \in D |-> Bin(BrierInputs(q[n]).conf)]
           cell == [b \in B |-> {n \in D : at0[n] = b}]
<1>1. IsFiniteSet(D) /\ Cardinality(D) = Len(q) BY TallyFacts
<1>2. IsFiniteSet(B)
  <2>1. 0 \in Int /\ 9 \in Int OBVIOUS
  <2>2. IsFiniteSet(0..9) BY <2>1, FS_Interval
  <2> QED BY <2>2
<1>3. \A n \in D : at0[n] \in B
  <2> SUFFICES ASSUME NEW n \in D PROVE Bin(BrierInputs(q[n]).conf) \in 0..9 OBVIOUS
  <2>1. BrierInputs(q[n]).conf \in 0..10 BY DEF BrierInputs
  <2> QED BY <2>1 DEF Bin
<1>4. /\ \A b \in B : bins[b].n = Cardinality(cell[b])
      /\ \A b \in B : bins[b].items = {q[n].item : n \in cell[b]}
  <2> SUFFICES ASSUME NEW b \in B
               PROVE bins[b].n = Cardinality(cell[b]) /\ bins[b].items = {q[n].item : n \in cell[b]}
    OBVIOUS
  <2>1. Numbers(q, LAMBDA r : Bin(BrierInputs(r).conf) = b) = cell[b] BY DEF Numbers
  <2> HIDE DEF cell
  <2> QED BY <2>1 DEF Brier
<1>5. cell \in [B -> SUBSET D] /\ \A x, y \in B : x # y => cell[x] \cap cell[y] = {}
  <2> HIDE DEF at0, B, D
  <2> QED OBVIOUS
<1>6. UNION {cell[b] : b \in B} = D
  <2> HIDE DEF at0, B, D
  <2> QED BY <1>3
<1> DEFINE f == [b \in B |-> bins[b].n]
<1>7. f = [b \in B |-> Cardinality(cell[b])] BY <1>4
<1> HIDE DEF cell, f, D, B
<1>8. SumOf(f) = Cardinality(UNION {cell[b] : b \in B}) BY <1>1, <1>2, <1>5, <1>7, Cells
<1>9. UNION {bins[b].items : b \in B} = {q[n].item : n \in D}
  <2>1. ASSUME NEW b \in B, NEW x \in bins[b].items PROVE x \in {q[n].item : n \in D}
    <3>1. PICK n \in cell[b] : x = q[n].item BY <1>4, <2>1
    <3>2. n \in D BY <1>5
    <3> QED BY <3>1, <3>2
  <2>2. ASSUME NEW n \in D PROVE \E b \in B : q[n].item \in bins[b].items
    <3>1. PICK b \in B : n \in cell[b] BY <1>6
    <3> QED BY <1>4, <3>1
  <2> QED BY <2>1, <2>2
<1> QED BY <1>1, <1>6, <1>8, <1>9 DEF f, D, B, Binned

(* The comparison of a candidate that loses: whatever is drawn, the lower end of
   the interval is below zero. *)
LEMMA LosingInterval ==
  ASSUME NEW keys, IsList(keys), keys # <<>>, NEW R \in Nat \ {0}, NEW draws \in Draws(keys, R),
         NEW base, NEW cand, DOMAIN base = ToSet(keys), DOMAIN cand = ToSet(keys), NEW stat,
         \A s \in [1..Len(keys) -> Range(base)] : stat[s] \in Positive,
         \A s \in [1..Len(keys) -> Range(cand)] : stat[s] \in Naught
  PROVE  Less(PairedDeltaCI(base, cand, keys, stat, draws).lo, <<0, 1>>)
<1> DEFINE D == 1..Len(keys)
           side(b, draw) == [n \in DOMAIN draw |-> b[keys[draw[n]]]]
           deltas == [d \in DOMAIN draws |-> Minus(stat[side(cand, draws[d])], stat[side(base, draws[d])])]
           lo == Percentile(deltas, 1, 40)
<1>1. Len(keys) \in Nat /\ DOMAIN keys = D BY ListFacts DEF IsList
<1>2. DOMAIN draws = 1..R /\ \A d \in 1..R : draws[d] \in [D -> D] BY <1>1 DEF Draws
<1>3. PairedDeltaCI(base, cand, keys, stat, draws).lo = lo BY DEF PairedDeltaCI
<1>4. ASSUME NEW b, DOMAIN b = ToSet(keys), NEW draw \in [D -> D] PROVE side(b, draw) \in [D -> Range(b)]
  <2>1. ASSUME NEW n \in D PROVE b[keys[draw[n]]] \in Range(b)
    <3>1. keys[draw[n]] \in ToSet(keys) BY <1>1 DEF ToSet
    <3> QED BY <1>4, <3>1 DEF Range
  <2> QED BY <2>1
<1>5. ASSUME NEW d \in 1..R PROVE deltas[d] \in Negative
  <2>1. draws[d] \in [D -> D] BY <1>2
  <2> DEFINE x == side(cand, draws[d]) y == side(base, draws[d])
  <2>2. x \in [D -> Range(cand)] /\ y \in [D -> Range(base)] BY <1>4, <2>1
  <2>3. deltas[d] = Minus(stat[x], stat[y]) BY <1>2
  <2> HIDE DEF x, y, deltas
  <2>4. stat[x] \in Naught /\ stat[y] \in Positive BY <2>2
  <2> QED BY <2>3, <2>4, MinusFacts
<1>6. DOMAIN deltas = 1..R BY <1>2
<1> HIDE DEF deltas
<1>7. R \in Nat /\ R > 0 OBVIOUS
<1>8. deltas = [d \in 1..R |-> deltas[d]]
  <2>1. DOMAIN [d \in 1..R |-> deltas[d]] = DOMAIN deltas BY <1>6
  <2> USE DEF deltas
  <2> QED BY <1>6
<1>9. deltas \in Seq(Negative) /\ Len(deltas) = R
  <2>1. deltas \in [1..R -> Negative] BY <1>5, <1>8
  <2> QED BY <1>7, <2>1
<1>10. IsList(deltas) /\ Range(deltas) \subseteq Negative /\ deltas # <<>>
  <2>1. IsList(deltas) BY <1>9, ListFacts
  <2>2. Range(deltas) \subseteq Negative BY <1>5, <1>6 DEF Range
  <2>3. Len(<<>>) = 0 OBVIOUS
  <2> QED BY <1>7, <1>9, <2>1, <2>2, <2>3
<1>11. lo \in Negative BY <1>10, PercentileFacts
<1> HIDE DEF lo
<1>12. lo[1] \in Int /\ lo[2] \in Int /\ lo[1] < 0 BY <1>11 DEF Negative, Ratios
<1>13. Less(lo, <<0, 1>>) BY <1>12 DEF Less
<1> QED BY <1>3, <1>13

(* What an end of lists of one member each is joined to. *)
LEMMA FlattenOnes ==
  ASSUME NEW K \in Nat, NEW x, NEW s, s = [n \in 1..K |-> <<x[n]>>]
  PROVE  FlattenSeq(s) = [n \in 1..K |-> x[n]]
<1> DEFINE V == {x[n] : n \in 1..K} y == [n \in 1..K |-> x[n]]
           Eq(f) == f = [i \in 1..Len(s) |-> IF i = 1 THEN s[i] ELSE f[i - 1] \o s[i]]
           flatten == CHOOSE f : Eq(f)
           g == [i \in 1..K |-> [n \in 1..i |-> x[n]]]
<1>1. s \in [1..K -> Seq(V)]
  <2>1. ASSUME NEW n \in 1..K PROVE <<x[n]>> \in Seq(V) BY SMTT(30)
  <2> QED BY <2>1
<1>2. Len(s) = K /\ s \in Seq(Seq(V))
  <2> DEFINE W == Seq(V)
  <2>1. s \in [1..K -> W] BY <1>1
  <2> HIDE DEF W
  <2>2. s \in Seq(W) /\ Len(s) = K BY <2>1
  <2> QED BY <2>2 DEF W
<1>3. FlattenSeq(s) = IF K = 0 THEN s ELSE flatten[K] BY <1>2 DEF FlattenSeq
<1>4. ASSUME NEW i \in 1..K PROVE g[i] = IF i = 1 THEN s[i] ELSE g[i - 1] \o s[i]
  <2>1. CASE i = 1
    <3>1. g[i] = [n \in 1..1 |-> x[n]] BY <2>1
    <3>2. s[i] = <<x[1]>> BY <2>1
    <3>3. DOMAIN <<x[1]>> = 1..1 /\ \A n \in 1..1 : <<x[1]>>[n] = x[n] OBVIOUS
    <3>4. <<x[1]>> = [n \in 1..1 |-> x[n]] BY <3>3
    <3> QED BY <2>1, <3>1, <3>2, <3>4
  <2>2. CASE i # 1
    <3> DEFINE a == g[i - 1] e == x[i]
    <3>1. a = [n \in 1..(i - 1) |-> x[n]] /\ i - 1 \in Nat BY <2>2
    <3>2. a \in [1..(i - 1) -> V] /\ e \in V BY <3>1
    <3>3. s[i] = <<e>> OBVIOUS
    <3> HIDE DEF a, V
    <3>4. a \in Seq(V) /\ Len(a) = i - 1 BY <3>1, <3>2
    <3>5. a \o <<e>> \in Seq(V) /\ Len(a \o <<e>>) = i BY <3>2, <3>4
    <3>6. \A n \in 1..i : (a \o <<e>>)[n] = IF n <= i - 1 THEN a[n] ELSE e BY <3>2, <3>4
    <3>7. \A n \in 1..i : (a \o <<e>>)[n] = x[n] BY <3>1, <3>6 DEF e
    <3> DEFINE b == a \o <<e>>
    <3>8. b = [n \in 1..i |-> x[n]]
      <4>1. b \in Seq(V) /\ Len(b) = i /\ \A n \in 1..i : b[n] = x[n] BY <3>5, <3>7
      <4> HIDE DEF b
      <4>2. b = [n \in 1..i |-> b[n]] BY <4>1
      <4> QED BY <4>1, <4>2
    <3>9. g[i] = b BY <3>8
    <3> QED BY <2>2, <3>3, <3>9 DEF a
  <2> QED BY <2>1, <2>2
<1>5. Eq(g)
  <2> HIDE DEF g
  <2>1. \A i \in 1..K : g[i] = IF i = 1 THEN s[i] ELSE g[i - 1] \o s[i] BY <1>4
  <2>2. g = [i \in 1..K |-> g[i]] BY DEF g
  <2> QED BY <1>2, <2>1, <2>2
<1>6. Eq(flatten) BY <1>5
<1> HIDE DEF flatten
<1>7. \A i \in 1..K : flatten[i] = IF i = 1 THEN s[i] ELSE flatten[i - 1] \o s[i] BY <1>2, <1>6
<1> HIDE DEF g
<1> DEFINE H == {n \in 0..K : n = 0 \/ flatten[n] = g[n]}
<1>8. 0 \in H OBVIOUS
<1>9. ASSUME NEW n \in 1..K, n - 1 \in H PROVE n \in H
  <2>1. CASE n = 1
    <3> QED BY <1>4, <1>7, <2>1
  <2>2. CASE n # 1
    <3>1. flatten[n - 1] = g[n - 1] BY <1>9, <2>2
    <3>2. n \in 1..K /\ n # 1 BY <2>2
    <3>3. flatten[n] = flatten[n - 1] \o s[n] BY <1>7, <3>2
    <3>4. g[n] = g[n - 1] \o s[n] BY <1>4, <3>2
    <3>5. flatten[n] = g[n] BY <3>1, <3>3, <3>4
    <3> QED BY <3>5
  <2> QED BY <2>1, <2>2
<1>10. 0..K \subseteq H
  <2> HIDE DEF H
  <2> QED BY <1>8, <1>9, Induct
<1>11. CASE K = 0
  <2>1. 1..0 = {} OBVIOUS
  <2>2. s = [n \in 1..0 |-> x[n]] BY <1>11, <2>1
  <2> QED BY <1>3, <1>11, <2>2
<1>12. CASE K # 0
  <2>1. flatten[K] = g[K]
    <3>1. K \in H BY <1>10
    <3> QED BY <1>12, <3>1
  <2>2. g[K] = [n \in 1..K |-> x[n]] BY <1>12 DEF g
  <2> QED BY <1>3, <1>12, <2>1, <2>2
<1> QED BY <1>11, <1>12

-----------------------------------------------------------------------------
(* What the configuration of a run gives. *)
LEMMA WithFacts ==
  ASSUME NEW r, NEW k, NEW p, NEW w, w = With(r, [kind |-> k, pairs |-> p])
  PROVE  /\ w.kind = k /\ w.pairs = p
         /\ \A f \in DOMAIN r \ {"kind", "pairs"} : w[f] = r[f]
<1> DEFINE m == [kind |-> k, pairs |-> p]
<1>1. DOMAIN m = {"kind", "pairs"} /\ m["kind"] = k /\ m["pairs"] = p OBVIOUS
<1>2. w = With(r, m) OBVIOUS
<1> HIDE DEF m
<1>3. \A f \in DOMAIN r \cup DOMAIN m : w[f] = IF f \in DOMAIN m THEN m[f] ELSE r[f] BY <1>2 DEF With
<1>4. w["kind"] = k /\ w["pairs"] = p BY <1>1, <1>3
<1>5. \A f \in DOMAIN r \ {"kind", "pairs"} : w[f] = r[f] BY <1>1, <1>3
<1> QED BY <1>4, <1>5

(* A pipeline's pairs are distinct, and every executor's cost is a number. *)
LEMMA PipelineConf ==
  ASSUME conf \in PipelineRuns
  PROVE  /\ conf.kind = "pipeline"
         /\ Len(conf.stages) \in Nat \ {0} /\ DOMAIN conf.stages = 1..Len(conf.stages)
         /\ \A n, m \in DOMAIN conf.stages : conf.stages[n].name = conf.stages[m].name => n = m
         /\ Len(conf.pairs) \in Nat \ {0} /\ DOMAIN conf.pairs = 1..Len(conf.pairs)
         /\ \A n, m \in DOMAIN conf.pairs :
              (conf.pairs[n][1] = conf.pairs[m][1] /\ conf.pairs[n][2] = conf.pairs[m][2]) => n = m
         /\ conf.cap \in Int /\ conf.cap >= 0
         /\ \A n \in DOMAIN conf.pairs :
              \A a \in Answers(conf.pairs[n][1], conf.pairs[n][2]) : \A e \in a : e.cost \in Int
<1>1. PICK c \in PipelineConfs : LoadsPipeline(c) /\
        conf = With(c, [kind |-> "pipeline", pairs |-> Product(c.items, c.versions)])
  BY DEF PipelineRuns
<1>2. /\ conf.kind = "pipeline" /\ conf.pairs = Product(c.items, c.versions)
      /\ \A f \in DOMAIN c \ {"kind", "pairs"} : conf[f] = c[f]
  <2> DEFINE P == Product(c.items, c.versions)
  <2>1. conf = With(c, [kind |-> "pipeline", pairs |-> P]) BY <1>1
  <2> HIDE DEF P
  <2>2. conf.kind = "pipeline" /\ conf.pairs = P /\ \A f \in DOMAIN c \ {"kind", "pairs"} : conf[f] = c[f]
    BY <2>1, WithFacts
  <2> QED BY <2>2 DEF P
<1>3. /\ {"stages", "versions", "items", "cap"} \subseteq DOMAIN c
      /\ c.stages \in Seq(Range(c.stages)) /\ c.versions \in Seq(Range(c.versions))
      /\ c.items \in Seq(Range(c.items)) /\ c.cap \in Int
      /\ \A p \in Range(Product(c.items, c.versions)) :
           \A a \in Answers(p[1], p[2]) : \A e \in a : e.cost \in Int
  BY PipelineAssumption
<1>4. conf.stages = c.stages /\ conf.cap = c.cap
  BY <1>2, <1>3
<1>5. /\ c.stages # <<>> /\ c.versions # <<>> /\ c.items # <<>> /\ IsInjective(c.versions) /\ IsInjective(c.items)
      /\ c.cap >= 0
      /\ \A n, m \in DOMAIN c.stages : c.stages[n].name = c.stages[m].name => n = m
  BY <1>1 DEF LoadsPipeline
<1>6. IsList(c.items) /\ IsList(c.versions) BY <1>3 DEF IsList
<1>7. /\ DOMAIN conf.pairs = 1..Len(conf.pairs) /\ Len(conf.pairs) \in Nat \ {0}
      /\ \A n, m \in DOMAIN conf.pairs :
           (conf.pairs[n][1] = conf.pairs[m][1] /\ conf.pairs[n][2] = conf.pairs[m][2]) => n = m
  <2> DEFINE I == c.items V == c.versions
  <2>1. IsList(I) /\ I # <<>> /\ IsList(V) /\ V # <<>> /\ IsInjective(I) /\ IsInjective(V) /\ conf.pairs = Product(I, V)
    BY <1>2, <1>5, <1>6
  <2> HIDE DEF I, V
  <2> QED BY <2>1, ProductFacts
<1>8. Len(c.stages) \in Nat \ {0} /\ DOMAIN c.stages = 1..Len(c.stages)
  <2>1. Len(c.stages) \in Nat /\ DOMAIN c.stages = 1..Len(c.stages) BY <1>3
  <2>2. Len(c.stages) # 0
    <3> DEFINE s == c.stages S == Range(c.stages)
    <3>1. s \in Seq(S) /\ s # <<>> BY <1>3, <1>5
    <3> HIDE DEF s, S
    <3>2. Len(s) # 0 BY <3>1
    <3> QED BY <3>2 DEF s
  <2> QED BY <2>1, <2>2
<1>9. ASSUME NEW n \in DOMAIN conf.pairs
      PROVE \A a \in Answers(conf.pairs[n][1], conf.pairs[n][2]) : \A e \in a : e.cost \in Int
  <2>1. conf.pairs[n] \in Range(Product(c.items, c.versions)) BY <1>2 DEF Range
  <2> QED BY <1>3, <2>1
<1> QED BY <1>2, <1>3, <1>4, <1>5, <1>7, <1>8, <1>9

(* An analyzer's labels and Prism's documents list findings. *)
LEMMA AnalyzerConf ==
  ASSUME conf \in AnalyzerRuns
  PROVE  /\ conf.kind = "analyzer"
         /\ Len(conf.pairs) \in Nat \ {0} /\ DOMAIN conf.pairs = 1..Len(conf.pairs)
         /\ \A n \in DOMAIN conf.pairs :
              LET i == conf.pairs[n][2] mode == ModeOf(conf, conf.pairs[n][1]) IN
              /\ Findings(conf.labels[i]) /\ \A k \in DOMAIN conf.labels[i] : conf.labels[i][k].tier \in Tiers
              /\ conf.maximum[i] \in Nat
              /\ \A doc \in Documents(i, mode) : \A d \in doc : Findings(d.findings)
<1>1. PICK c \in AnalyzerConfs : ApplicablePairs(c) # <<>> /\
        conf = With(c, [kind |-> "analyzer", pairs |-> ApplicablePairs(c)])
  BY DEF AnalyzerRuns
<1> DEFINE P == ApplicablePairs(c)
<1>2. conf = With(c, [kind |-> "analyzer", pairs |-> P]) /\ P # <<>> BY <1>1
<1>3. /\ {"modes", "items", "labels", "negatives", "maximum", "tolerance"} \subseteq DOMAIN c
      /\ c.modes \in Seq(Range(c.modes)) /\ c.items \in Seq(Range(c.items))
      /\ \A p \in Range(P) :
           /\ Findings(c.labels[p[2]]) /\ \A n \in DOMAIN c.labels[p[2]] : c.labels[p[2]][n].tier \in Tiers
           /\ c.maximum[p[2]] \in Nat
           /\ \A doc \in Documents(p[2], ModeOf(c, p[1])) : \A d \in doc : Findings(d.findings)
  BY AnalyzerAssumption
<1>4. IsList(P)
  <2> DEFINE V == [n \in DOMAIN c.modes |-> c.modes[n].version] I == c.items
             Q == Product(V, I) W == {p \in ToSet(Q) : c.language[p[2]] = ModeOf(c, p[1]).language}
  <2>1. P = Kept(Q, W) BY DEF ApplicablePairs
  <2>2. IsList(V) /\ IsList(I) /\ Len(V) \in Nat /\ Len(I) \in Nat
    <3>1. c.modes \in Seq(Range(c.modes)) BY <1>3
    <3>2. DOMAIN c.modes = 1..Len(c.modes) /\ Len(c.modes) \in Nat BY <3>1
    <3>3. V \in Seq(Range(V)) BY <3>2 DEF Range
    <3> QED BY <1>3, <3>3 DEF IsList
  <2> HIDE DEF V, I, W
  <2>3. IsList(Q)
    <3>1. CASE V # <<>> /\ I # <<>> BY <2>2, <3>1, ProductFacts
    <3>2. CASE V = <<>> \/ I = <<>>
      <4>1. Len(V) * Len(I) = 0 BY <2>2, <3>2
      <4>2. Q \in Seq(Range(Q))
        <5>1. 1..(Len(V) * Len(I)) = {} BY <4>1
        <5>2. DOMAIN Q = {} BY <5>1 DEF Product
        <5>3. Q = <<>> BY <5>1 DEF Product
        <5> QED BY <5>3
      <4> QED BY <4>2 DEF IsList
    <3> QED BY <3>1, <3>2
  <2> HIDE DEF Q
  <2> HIDE DEF P
  <2> QED BY <2>1, <2>3, KeptMembers
<1> HIDE DEF P
<1>5. /\ conf.kind = "analyzer" /\ conf.pairs = P
      /\ \A f \in DOMAIN c \ {"kind", "pairs"} : conf[f] = c[f]
  BY <1>2, WithFacts
<1>6. Len(P) \in Nat \ {0} /\ DOMAIN P = 1..Len(P) BY <1>2, <1>4 DEF IsList
<1>7. conf.modes = c.modes /\ conf.labels = c.labels /\ conf.maximum = c.maximum BY <1>3, <1>5
<1>8. \A v : ModeOf(conf, v) = ModeOf(c, v) BY <1>7 DEF ModeOf
<1>9. ASSUME NEW n \in DOMAIN conf.pairs
      PROVE  LET i == conf.pairs[n][2] mode == ModeOf(conf, conf.pairs[n][1]) IN
             /\ Findings(conf.labels[i]) /\ \A k \in DOMAIN conf.labels[i] : conf.labels[i][k].tier \in Tiers
             /\ conf.maximum[i] \in Nat
             /\ \A doc \in Documents(i, mode) : \A d \in doc : Findings(d.findings)
  <2>1. conf.pairs[n] \in Range(P) BY <1>5 DEF Range
  <2> QED BY <1>3, <1>7, <1>8, <2>1
<1> QED BY <1>5, <1>6, <1>9

-----------------------------------------------------------------------------
(* The invariants. *)

(* Pipeline: the stages of pair p that have a file, and the one whose turn it
   would be next. *)
FiledOf(p) == {n \in DOMAIN conf.stages : <<conf.pairs[p][2], conf.pairs[p][1], conf.stages[n].name>> \in stages}
Lacks(p) ==
  {conf.stages[n].name :
     n \in {m \in DOMAIN conf.stages : \A k \in 1..m - 1 : k \in FiledOf(p)} \ FiledOf(p)}

Recorded(k) == {Identity(calls[n]) : n \in 1..k}
Asserted == {a.id : a \in asserts}

(* The records are those of the first pairs, in their order. *)
InOrder ==
  /\ at \in 1..Len(conf.pairs)
  /\ pc \in {"start", "stage", "call", "charge", "inputs", "asserts", "render"} \cup Ended
  /\ IsList(calls) /\ Len(calls) <= at
  /\ pc \in {"start", "stage", "call"} => Len(calls) = at - 1
  /\ pc = "charge" => Len(calls) = at
  /\ pc \in {"inputs", "asserts", "render", "done"} => Len(calls) = Len(conf.pairs)
  /\ \A n \in 1..Len(calls) : /\ calls[n].item = conf.pairs[n][1] /\ calls[n].version = conf.pairs[n][2]
                              /\ calls[n].sample = 0

(* The stage files of a pair are those of its first stages; the rows of the
   current pair say how many. *)
FiledInTurn ==
  /\ IsList(rows)
  /\ \A p \in 1..Len(conf.pairs) : \E k \in 0..Len(conf.stages) : FiledOf(p) = 1..k
  /\ pc \in {"start", "stage", "call", "charge"} => \A p \in at + 1..Len(conf.pairs) : FiledOf(p) = {}
  /\ pc = "start" => rows = <<>> /\ FiledOf(at) = {}
  /\ pc = "stage" => Len(rows) < Len(conf.stages) /\ FiledOf(at) = 1..Len(rows)
  /\ pc = "call" => /\ Len(rows) \in 1..Len(conf.stages)
                    /\ rows[Len(rows)].stage = conf.stages[Len(rows)].name
                    /\ FiledOf(at) = IF Failed THEN 1..Len(rows) - 1 ELSE 1..Len(conf.stages)
  /\ \A n \in 1..Len(calls) : calls[n].error = Lacks(n)

(* What was spent, and that it went over the cap with the last call at most. *)
Spent ==
  /\ Costs(calls) /\ total \in Int
  /\ \A e \in got.env : e.cost \in Int
  /\ pc \notin {"died", "killed"} => total <= conf.cap
  /\ pc = "charge" => total + calls[Len(calls)].cost = CostOf(calls)
  /\ pc \notin {"charge", "killed"} => total = CostOf(calls)
  /\ \A k \in 0..Len(calls) - 1 : CostOf(SubSeq(calls, 1, k)) <= conf.cap
  /\ inputs => CostOf(calls) <= conf.cap

(* The assert records follow the calls, the report follows both. *)
Reported ==
  /\ IsFiniteSet(asserts)
  /\ pc \in {"start", "stage", "call", "charge", "inputs"} => ~inputs /\ asserts = {}
  /\ pc \in {"asserts", "render", "done"} => inputs
  /\ pc = "asserts" => Cardinality(asserts) < Len(calls) /\ Asserted = Recorded(Cardinality(asserts))
  /\ pc \in {"render", "done"} => Asserted = Recorded(Len(calls))
  /\ metrics # {} => pc = "done"

PipelineInv == conf.kind = "pipeline" => InOrder /\ FiledInTurn /\ Spent /\ Reported

(* Analyzer: what a record says of the findings is what matching them gives. *)
Told(c) ==
  /\ c.sample = 0
  /\ Usable(c) => c.match # {}
  /\ \A m \in c.match :
       /\ Findings(conf.labels[c.item]) /\ Findings(c.found) /\ conf.maximum[c.item] \in Nat
       /\ \A n \in DOMAIN conf.labels[c.item] : conf.labels[c.item][n].tier \in Tiers
       /\ m = MatchFindings(conf.labels[c.item], c.found, conf.tolerance, conf.negatives[c.item],
                            conf.maximum[c.item])
       /\ c.strata = {Strata(conf.labels[c.item], c.found, m.matches)}

(* Every call has the stage file of its pair, and each its own. *)
OneEach ==
  /\ at \in 1..Len(conf.pairs)
  /\ pc \in {"start", "probe", "pair", "record", "judge", "events", "report", "verify"} \cup Ended
  /\ IsList(calls)
  /\ pc \in {"start", "probe", "pair", "record"} => Len(calls) = at - 1
  /\ pc \in {"judge", "events"} => Len(calls) = at
  /\ pc \in {"report", "verify"} => Len(calls) = Len(conf.pairs)
  /\ \A n \in 1..Len(calls) : /\ <<calls[n].version, calls[n].item, "analyzer">> \in stages
                              /\ Told(calls[n])
  /\ \A n, k \in 1..Len(calls) : Identity(calls[n]) = Identity(calls[k]) => n = k

(* What the current pair gave, before its record, and after it. *)
InHand ==
  /\ pc \in {"record", "judge", "events"} => got.env = {Current}
  /\ pc = "record" => /\ <<Current.version, Current.item, "analyzer">> \in stages
                      /\ Told(Current)
                      /\ \A n \in 1..Len(calls) : Identity(calls[n]) # Identity(Current)
  /\ pc \in {"judge", "events"} => calls[Len(calls)] = Current

Judged ==
  /\ pc \in {"start", "probe", "pair", "record", "events", "report"} => Asserted = Recorded(Len(calls))
  /\ pc = "judge" => Asserted = Recorded(Len(calls) - 1)
  /\ pc \notin {"start", "killed"} => inputs
  /\ metrics # {} => /\ inputs /\ Len(calls) = Len(conf.pairs) /\ Asserted = Recorded(Len(calls))
                     /\ pc \in {"verify"} \cup Ended

AnalyzerInv == conf.kind = "analyzer" => OneEach /\ InHand /\ Judged

Loaded == conf \in PipelineRuns \cup AnalyzerRuns
EvaluationsInv == Loaded /\ PipelineInv /\ AnalyzerInv
-----------------------------------------------------------------------------
(* Pipeline: the steps. *)
PipelineMoves == PipelineNext \/ Kill \/ UNCHANGED vars

(* Every step, as a case of its own. *)
LEMMA PipelineCases ==
  ASSUME PipelineMoves
  PROVE  \/ PipelineStart \/ StageRaises \/ PinnedStage \/ HarnessStage \/ PrismStage \/ LlmStage
         \/ WriteCall \/ Charge \/ WriteInputs \/ WriteAssert \/ Render \/ Kill \/ UNCHANGED vars
BY DEF PipelineMoves, PipelineNext

(* The fields of a call record that do not come from its envelope. *)
LEMMA CallFacts ==
  ASSUME NEW env
  PROVE  /\ Call(env).item = Item /\ Call(env).version = Version /\ Call(env).sample = 0
         /\ Call(env).cost = env.cost
         /\ Call(env).error = IF Failed THEN {rows[Len(rows)].stage} ELSE {}
<1> DEFINE r == [item |-> Item, version |-> Version, sample |-> 0, final |-> env.final, first |-> env.first,
                 cost |-> env.cost, hit |-> env.hit, duration |-> env.duration,
                 error |-> IF Failed THEN {rows[Len(rows)].stage} ELSE {}]
           m == Normalize(env)
<1>1. Call(env) = With(r, m) BY DEF Call
<1>2. DOMAIN m = {"response", "valid", "sentinel"} BY DEF Normalize
<1>3. /\ {"item", "version", "sample", "cost", "error"} \subseteq DOMAIN r
      /\ r.item = Item /\ r.version = Version /\ r.sample = 0 /\ r.cost = env.cost
      /\ r.error = IF Failed THEN {rows[Len(rows)].stage} ELSE {}
  OBVIOUS
<1> HIDE DEF r, m
<1>4. \A f \in DOMAIN r \cup DOMAIN m : With(r, m)[f] = IF f \in DOMAIN m THEN m[f] ELSE r[f] BY DEF With
<1>5. \A f \in {"item", "version", "sample", "cost", "error"} : With(r, m)[f] = r[f] BY <1>2, <1>3, <1>4
<1> QED BY <1>1, <1>3, <1>5

(* The sequence of records grows by one, for the pair whose turn it is. *)
LEMMA InOrderStep ==
  ASSUME conf \in PipelineRuns, InOrder, PipelineMoves
  PROVE  InOrder'
<1>1. Len(conf.pairs) \in Nat \ {0} BY PipelineConf
<1>2. at \in 1..Len(conf.pairs) /\ IsList(calls) /\ Len(calls) \in Nat
  <2>1. at \in 1..Len(conf.pairs) /\ IsList(calls) BY DEF InOrder
  <2> QED BY <2>1, ListFacts DEF IsList
<1>3. CASE PipelineStart \/ StageRaises BY <1>2, <1>3 DEF PipelineStart, StageRaises, Die, InOrder, Ended
<1>4. CASE PinnedStage \/ HarnessStage \/ PrismStage \/ LlmStage
  <2>1. UNCHANGED <<conf, at, calls>> /\ pc = "stage" /\ pc' \in {"stage", "call"}
    BY <1>4 DEF PinnedStage, HarnessStage, PrismStage, LlmStage, RecordStage, StageError, Executed
  <2> QED BY <1>2, <2>1 DEF InOrder
<1>5. CASE WriteCall
  <2>1. CASE UNCHANGED <<conf, at, calls>> /\ pc' = "died" BY <1>2, <2>1 DEF InOrder, Ended
  <2>2. CASE calls' = Append(calls, Call(Envelope)) /\ pc = "call" /\ pc' = "charge" /\ UNCHANGED <<conf, at>>
    <3> DEFINE e == Call(Envelope)
    <3>1. e.item = conf.pairs[at][1] /\ e.version = conf.pairs[at][2] /\ e.sample = 0
      <4>1. e.item = Item /\ e.version = Version /\ e.sample = 0 BY CallFacts
      <4> QED BY <4>1 DEF Item, Version
    <3> HIDE DEF e
    <3>2. calls' = Append(calls, e) BY <2>2 DEF e
    <3>3. /\ IsList(calls') /\ Len(calls') = Len(calls) + 1 /\ calls'[Len(calls) + 1] = e
          /\ \A n \in 1..Len(calls) : calls'[n] = calls[n]
      BY <1>2, <3>2, AppendFacts
    <3>4. Len(calls) = at - 1 BY <2>2 DEF InOrder
    <3>5. \A n \in 1..Len(calls') : /\ calls'[n].item = conf.pairs[n][1] /\ calls'[n].version = conf.pairs[n][2]
                                    /\ calls'[n].sample = 0
      BY <1>2, <3>1, <3>3, <3>4 DEF InOrder
    <3> QED BY <1>2, <2>2, <3>3, <3>4, <3>5 DEF InOrder
  <2> QED BY <1>5, <2>1, <2>2 DEF WriteCall, Die
<1>6. CASE Charge
  <2>1. pc = "charge" /\ UNCHANGED <<conf, calls>> /\ Len(calls) = at BY <1>6 DEF Charge, InOrder
  <2>2. \/ pc' = "died" /\ at' = at
        \/ at = Len(conf.pairs) /\ pc' = "inputs" /\ at' = at
        \/ at # Len(conf.pairs) /\ pc' = "stage" /\ at' = at + 1
    BY <1>6 DEF Charge
  <2>3. CASE pc' = "died" /\ at' = at BY <1>1, <1>2, <2>1, <2>3 DEF InOrder, Ended
  <2>4. CASE at = Len(conf.pairs) /\ pc' = "inputs" /\ at' = at BY <1>1, <1>2, <2>1, <2>4 DEF InOrder
  <2>5. CASE at # Len(conf.pairs) /\ pc' = "stage" /\ at' = at + 1 BY <1>1, <1>2, <2>1, <2>5 DEF InOrder
  <2> QED BY <2>2, <2>3, <2>4, <2>5
<1>7. CASE WriteInputs \/ WriteAssert
  <2>1. UNCHANGED <<conf, at, calls>> /\ pc \in {"inputs", "asserts"} /\ pc' \in {"asserts", "render"}
    BY <1>7 DEF WriteInputs, WriteAssert
  <2> QED BY <1>2, <2>1 DEF InOrder
<1>8. CASE Render
  <2>1. UNCHANGED <<conf, at, calls>> /\ pc = "render" /\ pc' \in {"died", "done"} BY <1>8 DEF Render, Die
  <2> QED BY <1>2, <2>1 DEF InOrder, Ended
<1>9. CASE Kill \/ UNCHANGED vars
  <2>1. UNCHANGED <<conf, at, calls>> /\ (pc' = "killed" \/ pc' = pc) BY <1>9 DEF Kill, vars
  <2> QED BY <1>2, <2>1 DEF InOrder, Ended
<1> QED BY <1>3, <1>4, <1>5, <1>6, <1>7, <1>8, <1>9, PipelineCases

(* The stage whose turn it is, after the first k have a file. *)
LEMMA NextStage ==
  ASSUME conf \in PipelineRuns, NEW p, NEW k \in 0..Len(conf.stages), FiledOf(p) = 1..k
  PROVE  Lacks(p) = IF k = Len(conf.stages) THEN {} ELSE {conf.stages[k + 1].name}
<1>1. Len(conf.stages) \in Nat /\ DOMAIN conf.stages = 1..Len(conf.stages) BY PipelineConf
<1> DEFINE N == Len(conf.stages)
           T == {m \in 1..N : \A j \in 1..m - 1 : j \in 1..k} \ (1..k)
<1>2. Lacks(p) = {conf.stages[n].name : n \in T} BY <1>1 DEF Lacks
<1>3. T = IF k = N THEN {} ELSE {k + 1}
  <2>1. N \in Nat BY <1>1
  <2> HIDE DEF N
  <2>2. k \in 0..N BY DEF N
  <2>3. ASSUME NEW m \in T PROVE m = k + 1
    <3>1. m \in 1..N /\ m \notin 1..k /\ \A j \in 1..m - 1 : j \in 1..k OBVIOUS
    <3>2. m >= k + 1 BY <2>1, <2>2, <3>1
    <3>3. CASE m > k + 1
      <4>1. k + 1 \in 1..m - 1 BY <2>1, <2>2, <3>1, <3>3
      <4> QED BY <2>2, <3>1, <4>1
    <3> QED BY <2>1, <2>2, <3>1, <3>2, <3>3
  <2>4. ASSUME k # N PROVE k + 1 \in T
    <3>1. k + 1 \in 1..N /\ k + 1 \notin 1..k /\ \A j \in 1..(k + 1) - 1 : j \in 1..k BY <2>1, <2>2, <2>4
    <3> QED BY <3>1
  <2>5. ASSUME k = N, NEW m \in T PROVE FALSE
    <3>1. m = k + 1 /\ m \in 1..N BY <2>3
    <3> QED BY <2>1, <2>5, <3>1
  <2> HIDE DEF T
  <2> QED BY <2>3, <2>4, <2>5
<1> HIDE DEF T
<1> QED BY <1>2, <1>3

(* A stage file of the current pair, and no other, changes what is filed. *)
LEMMA FileWritten ==
  ASSUME conf \in PipelineRuns, at \in 1..Len(conf.pairs), NEW j \in 1..Len(conf.stages),
         stages' = stages \cup {<<conf.pairs[at][2], conf.pairs[at][1], conf.stages[j].name>>}, conf' = conf
  PROVE  \A p \in 1..Len(conf.pairs) : FiledOf(p)' = IF p = at THEN FiledOf(p) \cup {j} ELSE FiledOf(p)
<1>1. /\ DOMAIN conf.stages = 1..Len(conf.stages) /\ DOMAIN conf.pairs = 1..Len(conf.pairs)
      /\ \A n, m \in DOMAIN conf.stages : conf.stages[n].name = conf.stages[m].name => n = m
      /\ \A n, m \in DOMAIN conf.pairs :
           (conf.pairs[n][1] = conf.pairs[m][1] /\ conf.pairs[n][2] = conf.pairs[m][2]) => n = m
  BY PipelineConf
<1>2. ASSUME NEW p \in 1..Len(conf.pairs)
      PROVE  {n \in DOMAIN conf.stages : <<conf.pairs[p][2], conf.pairs[p][1], conf.stages[n].name>> \in stages'}
               = IF p = at THEN FiledOf(p) \cup {j} ELSE FiledOf(p)
  <2>1. \A n \in DOMAIN conf.stages :
          <<conf.pairs[p][2], conf.pairs[p][1], conf.stages[n].name>> \in stages'
            <=> (n \in FiledOf(p) \/ (p = at /\ n = j))
    BY <1>1 DEF FiledOf
  <2>2. FiledOf(p) \subseteq DOMAIN conf.stages /\ j \in DOMAIN conf.stages BY <1>1 DEF FiledOf
  <2> QED BY <2>1, <2>2
<1>3. \A p \in 1..Len(conf.pairs) : FiledOf(p)' =
        {n \in DOMAIN conf.stages : <<conf.pairs[p][2], conf.pairs[p][1], conf.stages[n].name>> \in stages'}
  BY DEF FiledOf
<1> QED BY <1>2, <1>3

(* The file is written and the row appended, or the row says that the stage
   failed. *)
LEMMA StageStep ==
  ASSUME conf \in PipelineRuns, InOrder, FiledInTurn, pc = "stage", UNCHANGED <<conf, at, calls>>,
         \/ \E cache, source : RecordStage(cache, source)
         \/ StageError
  PROVE  FiledInTurn'
<1> DEFINE N == Len(conf.stages) L == Len(rows) M == Len(conf.pairs)
<1>1. N \in Nat /\ M \in Nat BY PipelineConf
<1>2. /\ at \in 1..M /\ Len(calls) = at - 1 /\ Len(calls)' = Len(calls) /\ conf' = conf /\ at' = at /\ calls' = calls
  BY DEF InOrder
<1>3. IsList(rows) /\ L \in Nat /\ L < N /\ FiledOf(at) = 1..L
  <2>1. IsList(rows) /\ L < N /\ FiledOf(at) = 1..L BY DEF FiledInTurn
  <2> QED BY <2>1, ListFacts DEF IsList
<1>4. /\ \A p \in 1..M : \E k \in 0..N : FiledOf(p) = 1..k
      /\ \A p \in at + 1..M : FiledOf(p) = {}
      /\ \A n \in 1..Len(calls) : calls[n].error = Lacks(n)
  BY DEF FiledInTurn
<1>5. PICK r : rows' = Append(rows, r) /\ r.stage = conf.stages[L + 1].name
               /\ \/ /\ r.status = "ok" /\ pc' = IF L + 1 = N THEN "call" ELSE "stage"
                     /\ stages' = stages \cup {<<conf.pairs[at][2], conf.pairs[at][1], conf.stages[L + 1].name>>}
                  \/ r.status = "error" /\ pc' = "call" /\ stages' = stages
  <2>1. ASSUME NEW cache, NEW source, RecordStage(cache, source)
        PROVE  /\ rows' = Append(rows, Row(cache, "ok", source)) /\ pc' = IF L + 1 = N THEN "call" ELSE "stage"
               /\ stages' = stages \cup {<<conf.pairs[at][2], conf.pairs[at][1], conf.stages[L + 1].name>>}
    BY <2>1 DEF RecordStage, Terminal, Position, Stage, Item, Version
  <2>2. ASSUME StageError
        PROVE  rows' = Append(rows, Row("miss", "error", "none")) /\ pc' = "call" /\ stages' = stages
    BY <2>2 DEF StageError
  <2>3. \A c, s, o : Row(c, s, o).stage = conf.stages[L + 1].name /\ Row(c, s, o).status = s
    BY DEF Row, Stage, Position
  <2> QED BY <2>1, <2>2, <2>3
<1>6. /\ IsList(rows') /\ Len(rows') = L + 1 /\ rows'[L + 1] = r
  BY <1>3, <1>5, AppendFacts
<1>7. L + 1 \in 1..N BY <1>1, <1>3
<1> HIDE DEF N, L, M
<1>8. /\ \A p \in 1..M : p # at => FiledOf(p)' = FiledOf(p)
      /\ FiledOf(at)' = IF r.status = "ok" THEN 1..L + 1 ELSE 1..L
  <2>1. CASE r.status = "ok"
    <3>1. stages' = stages \cup {<<conf.pairs[at][2], conf.pairs[at][1], conf.stages[L + 1].name>>}
      BY <1>5, <2>1
    <3>2. \A p \in 1..M : FiledOf(p)' = IF p = at THEN FiledOf(p) \cup {L + 1} ELSE FiledOf(p)
      BY <1>2, <1>7, <3>1, FileWritten DEF L, M, N
    <3>3. (1..L) \cup {L + 1} = 1..L + 1 BY <1>3
    <3> QED BY <1>2, <1>3, <2>1, <3>2, <3>3
  <2>2. CASE r.status # "ok"
    <3>1. stages' = stages BY <1>5, <2>2
    <3>2. \A p \in 1..M : FiledOf(p)' = FiledOf(p) BY <1>2, <3>1 DEF FiledOf
    <3> QED BY <1>2, <1>3, <2>2, <3>2
  <2> QED BY <2>1, <2>2
<1>9. (\E k \in 0..N : FiledOf(at)' = 1..k) /\ \A p \in 1..M : \E k \in 0..N : FiledOf(p)' = 1..k
  BY <1>2, <1>3, <1>4, <1>7, <1>8
<1>10. \A p \in at + 1..M : FiledOf(p)' = {} BY <1>1, <1>2, <1>4, <1>8
<1>11. ASSUME NEW n \in 1..Len(calls) PROVE calls'[n].error = Lacks(n)'
  <2>1. n \in 1..M /\ n # at BY <1>1, <1>2
  <2>2. FiledOf(n)' = FiledOf(n) BY <1>8, <2>1
  <2>3. Lacks(n)' = Lacks(n) BY <1>2, <2>2 DEF Lacks
  <2> QED BY <1>2, <1>4, <2>3
<1>12. CASE r.status = "ok" /\ L + 1 = N
  <2>1. pc' = "call" /\ FiledOf(at)' = 1..N /\ ~Failed' BY <1>5, <1>6, <1>8, <1>12 DEF Failed, L
  <2> QED BY <1>1, <1>2, <1>5, <1>6, <1>7, <1>9, <1>10, <1>11, <2>1 DEF FiledInTurn, N, M
<1>13. CASE r.status = "ok" /\ L + 1 # N
  <2>1. pc' = "stage" /\ FiledOf(at)' = 1..L + 1 /\ L + 1 < N BY <1>1, <1>3, <1>5, <1>8, <1>13
  <2> QED BY <1>1, <1>2, <1>5, <1>6, <1>7, <1>9, <1>10, <1>11, <2>1 DEF FiledInTurn, N, M
<1>14. CASE r.status # "ok"
  <2>1. pc' = "call" /\ FiledOf(at)' = 1..(L + 1) - 1 /\ Failed'
    <3>1. pc' = "call" /\ r.status = "error" /\ FiledOf(at)' = 1..L BY <1>5, <1>8, <1>14
    <3> QED BY <1>3, <1>6, <3>1 DEF Failed
  <2> QED BY <1>1, <1>2, <1>5, <1>6, <1>7, <1>9, <1>10, <1>11, <2>1 DEF FiledInTurn, N, M
<1> QED BY <1>12, <1>13, <1>14

(* No stage has a file before its inputs have, and the record of a call says
   which stage was the first without one. *)
LEMMA FiledInTurnStep ==
  ASSUME conf \in PipelineRuns, InOrder, FiledInTurn, PipelineMoves
  PROVE  FiledInTurn'
<1>1. Len(conf.pairs) \in Nat \ {0} /\ Len(conf.stages) \in Nat \ {0} BY PipelineConf
<1>2. at \in 1..Len(conf.pairs) /\ IsList(calls) /\ Len(calls) \in Nat /\ Len(calls) <= at
  <2>1. at \in 1..Len(conf.pairs) /\ IsList(calls) /\ Len(calls) <= at BY DEF InOrder
  <2> QED BY <2>1, ListFacts DEF IsList
<1>3. ASSUME UNCHANGED <<conf, at, rows, stages, calls>>,
             pc' = pc \/ pc' \in {"charge", "inputs", "asserts", "render"} \cup Ended,
             pc' = "charge" => pc = "call"
      PROVE  FiledInTurn'
  <2>1. \A p : FiledOf(p)' = FiledOf(p) /\ Lacks(p)' = Lacks(p) BY <1>3 DEF FiledOf, Lacks
  <2>2. Failed' = Failed BY <1>3 DEF Failed
  <2> QED BY <1>3, <2>1, <2>2 DEF FiledInTurn, Ended
<1>4. CASE PipelineStart
  <2>1. CASE pc' = "died" /\ UNCHANGED <<conf, at, rows, stages, calls>> BY <1>3, <2>1 DEF Ended
  <2>2. CASE pc = "start" /\ pc' = "stage" /\ UNCHANGED <<conf, at, rows, stages, calls>>
    <3>1. \A p : FiledOf(p)' = FiledOf(p) /\ Lacks(p)' = Lacks(p) BY <2>2 DEF FiledOf, Lacks
    <3>2. rows = <<>> /\ FiledOf(at) = {} BY <2>2 DEF FiledInTurn
    <3>3. Len(rows) = 0 /\ 1..Len(rows) = {} BY <3>2
    <3> QED BY <1>1, <2>2, <3>1, <3>2, <3>3 DEF FiledInTurn
  <2> QED BY <1>4, <2>1, <2>2 DEF PipelineStart, Die
<1>5. CASE StageRaises BY <1>3, <1>5 DEF StageRaises, Die, Ended
<1>6. CASE PinnedStage \/ HarnessStage \/ PrismStage \/ LlmStage
  <2>1. pc = "stage" /\ UNCHANGED <<conf, at, calls>> /\
        ((\E cache, source : RecordStage(cache, source)) \/ StageError)
    BY <1>6 DEF PinnedStage, HarnessStage, PrismStage, LlmStage, Executed
  <2> QED BY <2>1, StageStep
<1>7. CASE WriteCall
  <2>1. CASE pc' = "died" /\ UNCHANGED <<conf, at, rows, stages, calls>> BY <1>3, <2>1 DEF Ended
  <2>2. CASE /\ calls' = Append(calls, Call(Envelope)) /\ pc = "call" /\ pc' = "charge"
             /\ UNCHANGED <<conf, at, rows, stages>>
    <3> DEFINE e == Call(Envelope)
    <3>1. e.error = IF Failed THEN {rows[Len(rows)].stage} ELSE {} BY CallFacts
    <3> HIDE DEF e
    <3>2. calls' = Append(calls, e) BY <2>2 DEF e
    <3>3. /\ Len(calls') = Len(calls) + 1 /\ calls'[Len(calls) + 1] = e
          /\ \A n \in 1..Len(calls) : calls'[n] = calls[n]
      BY <1>2, <3>2, AppendFacts
    <3>4. Len(calls) = at - 1 BY <2>2 DEF InOrder
    <3>5. /\ Len(rows) \in 1..Len(conf.stages) /\ rows[Len(rows)].stage = conf.stages[Len(rows)].name
          /\ FiledOf(at) = IF Failed THEN 1..Len(rows) - 1 ELSE 1..Len(conf.stages)
      BY <2>2 DEF FiledInTurn
    <3>6. e.error = Lacks(at)
      <4>1. CASE Failed
        <5> DEFINE k == Len(rows) - 1
        <5>1. k \in 0..Len(conf.stages) /\ k # Len(conf.stages) /\ FiledOf(at) = 1..k /\ k + 1 = Len(rows)
          BY <1>1, <3>5, <4>1
        <5> HIDE DEF k
        <5>2. Lacks(at) = {conf.stages[k + 1].name} BY <5>1, NextStage
        <5> QED BY <3>1, <3>5, <4>1, <5>1, <5>2
      <4>2. CASE ~Failed
        <5>1. Len(conf.stages) \in 0..Len(conf.stages) /\ FiledOf(at) = 1..Len(conf.stages) BY <1>1, <3>5, <4>2
        <5>2. Lacks(at) = {} BY <5>1, NextStage
        <5> QED BY <3>1, <4>2, <5>2
      <4> QED BY <4>1, <4>2
    <3>7. \A p : FiledOf(p)' = FiledOf(p) /\ Lacks(p)' = Lacks(p) BY <2>2 DEF FiledOf, Lacks
    <3>8. \A n \in 1..Len(calls') : calls'[n].error = Lacks(n)
      BY <1>2, <3>3, <3>4, <3>6 DEF FiledInTurn
    <3> QED BY <2>2, <3>7, <3>8 DEF FiledInTurn
  <2> QED BY <1>7, <2>1, <2>2 DEF WriteCall, Die
<1>8. CASE Charge
  <2>1. pc = "charge" /\ UNCHANGED <<conf, stages, calls>> BY <1>8 DEF Charge
  <2>2. \A p : FiledOf(p)' = FiledOf(p) /\ Lacks(p)' = Lacks(p) BY <2>1 DEF FiledOf, Lacks
  <2>3. \/ pc' = "died" /\ at' = at /\ rows' = rows
        \/ at = Len(conf.pairs) /\ pc' = "inputs" /\ at' = at /\ rows' = <<>>
        \/ at # Len(conf.pairs) /\ pc' = "stage" /\ at' = at + 1 /\ rows' = <<>>
    BY <1>8 DEF Charge
  <2>4. IsList(<<>>) /\ Len(<<>>) = 0
    <3>1. <<>> \in Seq({}) /\ Len(<<>>) = 0 OBVIOUS
    <3> QED BY <3>1, ListFacts
  <2>5. CASE pc' = "died" /\ at' = at /\ rows' = rows BY <1>3, <2>1, <2>5 DEF Ended
  <2>6. CASE at = Len(conf.pairs) /\ pc' = "inputs" /\ at' = at /\ rows' = <<>>
    BY <2>1, <2>2, <2>4, <2>6 DEF FiledInTurn
  <2>7. CASE at # Len(conf.pairs) /\ pc' = "stage" /\ at' = at + 1 /\ rows' = <<>>
    <3>1. at + 1 \in at + 1..Len(conf.pairs) BY <1>1, <1>2, <2>7
    <3>2. FiledOf(at + 1) = {} BY <2>1, <3>1 DEF FiledInTurn
    <3>3. FiledOf(at)' = 1..Len(rows') /\ Len(rows') < Len(conf.stages)
      <4>1. FiledOf(at)' = {} BY <2>1, <2>7, <3>2 DEF FiledOf
      <4>2. 1..Len(rows') = {} /\ Len(rows') < Len(conf.stages) BY <1>1, <2>4, <2>7
      <4> QED BY <4>1, <4>2
    <3>4. \A p \in at' + 1..Len(conf.pairs) : p \in at + 1..Len(conf.pairs) BY <1>1, <1>2, <2>7
    <3> QED BY <2>1, <2>2, <2>4, <2>7, <3>3, <3>4 DEF FiledInTurn
  <2> QED BY <2>3, <2>5, <2>6, <2>7
<1>9. CASE WriteInputs \/ WriteAssert BY <1>3, <1>9 DEF WriteInputs, WriteAssert
<1>10. CASE Render
  <2>1. pc' \in Ended /\ UNCHANGED <<conf, at, rows, stages, calls>> BY <1>10 DEF Render, Die, Ended
  <2> QED BY <1>3, <2>1 DEF Ended
<1>11. CASE Kill \/ UNCHANGED vars
  <2>1. UNCHANGED <<conf, at, rows, stages, calls>> /\ (pc' \in Ended \/ pc' = pc) BY <1>11 DEF Kill, vars, Ended
  <2>2. pc' = "charge" => pc = "charge" BY <2>1 DEF Ended
  <2>3. CASE pc' \in Ended BY <1>3, <2>1, <2>3 DEF Ended
  <2>4. CASE pc' = pc
    <3>1. \A p : FiledOf(p)' = FiledOf(p) /\ Lacks(p)' = Lacks(p) BY <2>1 DEF FiledOf, Lacks
    <3>2. Failed' = Failed BY <2>1 DEF Failed
    <3> QED BY <2>1, <2>4, <3>1, <3>2 DEF FiledInTurn
  <2> QED BY <2>1, <2>3, <2>4
<1> QED BY <1>4, <1>5, <1>6, <1>7, <1>8, <1>9, <1>10, <1>11, PipelineCases

(* The sum is that of the records whenever it is compared with the cap, and
   the run goes on only below it. *)
LEMMA SpentStep ==
  ASSUME conf \in PipelineRuns, InOrder, Spent, Reported, PipelineMoves
  PROVE  Spent'
<1>1. /\ conf.cap \in Int /\ DOMAIN conf.pairs = 1..Len(conf.pairs)
      /\ \A n \in DOMAIN conf.pairs :
           \A a \in Answers(conf.pairs[n][1], conf.pairs[n][2]) : \A e \in a : e.cost \in Int
  BY PipelineConf
<1>2. /\ at \in 1..Len(conf.pairs) /\ IsList(calls) /\ Len(calls) \in Nat /\ Costs(calls) /\ total \in Int
      /\ CostOf(calls) \in Int
  <2>1. at \in 1..Len(conf.pairs) /\ IsList(calls) /\ Costs(calls) /\ total \in Int BY DEF InOrder, Spent
  <2>2. 0 \in Int /\ CostOf(calls) \in Int
    <3> DEFINE e == [cost |-> 0]
    <3>1. e.cost \in Int OBVIOUS
    <3> HIDE DEF e
    <3> QED BY <2>1, <3>1, CostAppends
  <2> QED BY <2>1, <2>2, ListFacts DEF IsList
<1>3. ASSUME UNCHANGED <<conf, calls, total>>, \A e \in got'.env : e.cost \in Int,
             pc' \in {"died", "killed"} \/ pc \notin {"died", "killed"},
             pc' = "killed" \/ (pc \in {"charge", "killed"} <=> pc' \in {"charge", "killed"}),
             pc' = "charge" => pc = "charge",
             inputs' => (inputs \/ pc = "inputs")
      PROVE  Spent'
  <2>1. CASE ~inputs' \/ inputs BY <1>3, <2>1 DEF Spent
  <2>2. CASE inputs' /\ ~inputs /\ pc = "inputs"
    <3>1. total = CostOf(calls) /\ total <= conf.cap BY <2>2 DEF Spent
    <3> QED BY <1>3, <2>2, <3>1 DEF Spent
  <2> QED BY <1>3, <2>1, <2>2
<1>4. CASE PipelineStart \/ StageRaises \/ PinnedStage \/ HarnessStage \/ PrismStage
  <2>1. /\ UNCHANGED <<conf, calls, total, got, inputs>> /\ pc \in {"start", "stage"}
        /\ pc' \in {"stage", "call", "died"}
    BY <1>4, SMTT(30) DEF PipelineStart, StageRaises, Die, PinnedStage, HarnessStage, PrismStage, RecordStage,
                StageError, Executed
  <2>2. \A e \in got'.env : e.cost \in Int BY <2>1 DEF Spent
  <2> QED BY <1>3, <2>1, <2>2
<1>5. CASE LlmStage
  <2>1. /\ UNCHANGED <<conf, calls, total, inputs>> /\ pc = "stage" /\ pc' \in {"stage", "call"}
        /\ \/ got'.env = got.env
           \/ \E a \in Answers(Item, Version) : got'.env = a
    BY <1>5 DEF LlmStage, RecordStage, StageError, Executed
  <2>2. \A e \in got'.env : e.cost \in Int
    <3>1. CASE got'.env = got.env BY <3>1 DEF Spent
    <3>2. ASSUME NEW a \in Answers(Item, Version), got'.env = a
          PROVE  \A e \in got'.env : e.cost \in Int
      <4>1. \A e \in a : e.cost \in Int BY <1>1, <1>2 DEF Item, Version
      <4> QED BY <3>2, <4>1
    <3> QED BY <2>1, <3>1, <3>2
  <2> QED BY <1>3, <2>1, <2>2
<1>6. CASE WriteCall
  <2>1. CASE pc' = "died" /\ UNCHANGED <<conf, calls, total, got, inputs>> /\ pc = "call"
    BY <1>3, <2>1 DEF Spent
  <2>2. CASE /\ calls' = Append(calls, Call(Envelope)) /\ pc = "call" /\ pc' = "charge"
             /\ UNCHANGED <<conf, total, got, inputs>>
    <3> DEFINE e == Call(Envelope)
    <3>1. e.cost \in Int
      <4>1. e.cost = Envelope.cost BY CallFacts
      <4>2. CASE got.env # {}
        <5>1. Envelope \in got.env BY <4>2 DEF Envelope
        <5> QED BY <4>1, <5>1 DEF Spent
      <4>3. CASE got.env = {}
        <5>1. Envelope.cost = 0 BY <4>3 DEF Envelope, ErrorEnvelope, PinnedEnvelope
        <5> QED BY <4>1, <5>1
      <4> QED BY <4>2, <4>3
    <3> HIDE DEF e
    <3>2. calls' = Append(calls, e) BY <2>2 DEF e
    <3>3. Len(calls') = Len(calls) + 1 /\ calls'[Len(calls) + 1] = e BY <1>2, <3>2, AppendFacts
    <3>4. Costs(calls') /\ CostOf(calls') = CostOf(calls) + e.cost BY <1>2, <3>1, <3>2, CostAppends
    <3>5. SubSeq(calls, 1, Len(calls)) = calls /\ \A k \in 0..Len(calls) : SubSeq(calls', 1, k) = SubSeq(calls, 1, k)
      BY <1>2, <3>2, PrefixFacts
    <3>6. total = CostOf(calls) /\ total <= conf.cap /\ ~inputs BY <2>2 DEF Spent, Reported
    <3>7. \A k \in 0..Len(calls') - 1 : CostOf(SubSeq(calls', 1, k)) <= conf.cap
      <4>1. ASSUME NEW k \in 0..Len(calls) PROVE CostOf(SubSeq(calls', 1, k)) <= conf.cap
        <5>1. SubSeq(calls', 1, k) = SubSeq(calls, 1, k) BY <3>5
        <5>2. CASE k = Len(calls) BY <3>5, <3>6, <5>1, <5>2
        <5>3. CASE k # Len(calls)
          <6>1. k \in 0..Len(calls) - 1 BY <1>2, <5>3
          <6>2. CostOf(SubSeq(calls, 1, k)) <= conf.cap BY <6>1 DEF Spent
          <6> QED BY <5>1, <6>2
        <5> QED BY <5>2, <5>3
      <4>2. 0..Len(calls') - 1 = 0..Len(calls) BY <1>2, <3>3
      <4> QED BY <4>1, <4>2
    <3>8. total + calls'[Len(calls')].cost = CostOf(calls') BY <3>3, <3>4, <3>6
    <3> QED BY <2>2, <3>4, <3>6, <3>7, <3>8 DEF Spent
  <2> QED BY <1>6, <2>1, <2>2 DEF WriteCall, Die
<1>7. CASE Charge
  <2>1. /\ pc = "charge" /\ UNCHANGED <<conf, calls, inputs>> /\ total' = total + calls[Len(calls)].cost
        /\ \/ pc' = "died" /\ got' = got
           \/ total' <= conf.cap /\ pc' \in {"inputs", "stage"} /\ got'.env = {}
    <3> DEFINE sum == total + calls[Len(calls)].cost
    <3>1. calls[Len(calls)].cost \in Int
      <4>1. Len(calls) \in 1..Len(calls) BY <1>2, <1>7 DEF Charge, InOrder
      <4> QED BY <1>2, <4>1 DEF Costs
    <3>2. sum \in Int BY <1>2, <3>1
    <3>3. /\ pc = "charge" /\ UNCHANGED <<conf, calls, inputs>> /\ total' = sum
          /\ \/ pc' = "died" /\ got' = got
             \/ ~(sum > conf.cap) /\ pc' \in {"inputs", "stage"} /\ got' = Nothing
      BY <1>7 DEF Charge, Crosses
    <3>4. Nothing.env = {} BY DEF Nothing
    <3> HIDE DEF sum
    <3>5. ~(sum > conf.cap) => sum <= conf.cap BY <1>1, <3>2
    <3> QED BY <3>3, <3>4, <3>5 DEF sum
  <2>2. total' = CostOf(calls) /\ ~inputs /\ \A k \in 0..Len(calls) - 1 : CostOf(SubSeq(calls, 1, k)) <= conf.cap
    BY <2>1 DEF Spent, Reported
  <2>3. \A e \in got'.env : e.cost \in Int BY <2>1 DEF Spent
  <2> QED BY <1>2, <2>1, <2>2, <2>3 DEF Spent
<1>8. CASE WriteInputs \/ WriteAssert \/ Render
  <2>1. /\ UNCHANGED <<conf, calls, total, got>> /\ pc \in {"inputs", "asserts", "render"}
        /\ pc' \in {"asserts", "render", "done", "died"}
        /\ inputs' => (inputs \/ pc = "inputs")
    BY <1>8 DEF WriteInputs, WriteAssert, Render, Die
  <2> QED BY <1>3, <2>1 DEF Spent
<1>9. CASE Kill \/ UNCHANGED vars
  <2>1. UNCHANGED <<conf, calls, total, got, inputs>> /\ (pc' = "killed" \/ pc' = pc) BY <1>9 DEF Kill, vars
  <2>2. CASE pc' = "killed" BY <1>3, <2>1, <2>2 DEF Spent
  <2>3. CASE pc' = pc BY <2>1, <2>3 DEF Spent
  <2> QED BY <2>1, <2>2, <2>3
<1> QED BY <1>4, <1>5, <1>6, <1>7, <1>8, <1>9, PipelineCases

(* The identities of a pipeline's records are those of its pairs. *)
LEMMA OneRecordEach ==
  ASSUME conf \in PipelineRuns, InOrder
  PROVE  \A n, k \in 1..Len(calls) : Identity(calls[n]) = Identity(calls[k]) => n = k
<1>1. /\ Len(conf.pairs) \in Nat /\ DOMAIN conf.pairs = 1..Len(conf.pairs)
      /\ \A n, m \in DOMAIN conf.pairs :
           (conf.pairs[n][1] = conf.pairs[m][1] /\ conf.pairs[n][2] = conf.pairs[m][2]) => n = m
  BY PipelineConf
<1>2. /\ at \in 1..Len(conf.pairs) /\ Len(calls) <= at /\ IsList(calls)
      /\ \A n \in 1..Len(calls) : calls[n].item = conf.pairs[n][1] /\ calls[n].version = conf.pairs[n][2]
  BY DEF InOrder
<1>3. Len(calls) \in Nat BY <1>2, ListFacts DEF IsList
<1>4. \A n \in 1..Len(calls) : n \in DOMAIN conf.pairs BY <1>1, <1>2, <1>3
<1>5. \A n, k \in 1..Len(calls) : Identity(calls[n]) = Identity(calls[k]) =>
        calls[n].item = calls[k].item /\ calls[n].version = calls[k].version
  BY DEF Identity
<1> QED BY <1>1, <1>2, <1>4, <1>5, SMTT(30)

(* The assert records are written in the order of the calls, one each. *)
LEMMA ReportedStep ==
  ASSUME conf \in PipelineRuns, InOrder, Reported, PipelineMoves
  PROVE  Reported'
<1>1. /\ Len(conf.pairs) \in Nat \ {0} /\ IsList(calls) /\ Len(calls) \in Nat
  <2>1. IsList(calls) BY DEF InOrder
  <2> QED BY <2>1, ListFacts, PipelineConf DEF IsList
<1>2. CASE PipelineStart \/ StageRaises \/ PinnedStage \/ HarnessStage \/ PrismStage \/ LlmStage \/ WriteCall
  <2>1. /\ UNCHANGED <<inputs, asserts, metrics>> /\ pc \in {"start", "stage", "call"}
        /\ pc' \in {"stage", "call", "charge", "died"}
    BY <1>2 DEF PipelineStart, StageRaises, Die, PinnedStage, HarnessStage, PrismStage, LlmStage, WriteCall,
                RecordStage, StageError, Executed
  <2> QED BY <2>1 DEF Reported
<1>3. CASE Charge
  <2>1. UNCHANGED <<inputs, asserts, metrics>> /\ pc = "charge" /\ pc' \in {"inputs", "stage", "died"}
    BY <1>3 DEF Charge
  <2> QED BY <2>1 DEF Reported
<1>4. CASE WriteInputs
  <2>1. /\ UNCHANGED <<calls, asserts, metrics>> /\ pc = "inputs" /\ pc' = "asserts" /\ inputs'
    BY <1>4 DEF WriteInputs
  <2>2. asserts = {} /\ Len(calls) = Len(conf.pairs) /\ (metrics = {}) BY <2>1 DEF Reported, InOrder
  <2>3. Cardinality(asserts) = 0 BY <2>2, FS_EmptySet
  <2>4. Asserted' = {} /\ Recorded(Cardinality(asserts))' = {}
    <3>1. Asserted' = {} BY <2>1, <2>2 DEF Asserted
    <3>2. Cardinality(asserts') = 0 /\ 1..0 = {} BY <2>1, <2>3
    <3>3. Recorded(Cardinality(asserts))' = {} BY <3>2 DEF Recorded
    <3> QED BY <3>1, <3>3
  <2> QED BY <1>1, <2>1, <2>2, <2>3, <2>4 DEF Reported
<1>5. CASE WriteAssert
  <2> DEFINE K == Cardinality(asserts)
             a == [id |-> Identity(calls[K + 1]), results |-> AssertResults(calls[K + 1])]
  <2>1. /\ UNCHANGED <<calls, inputs, metrics>> /\ pc = "asserts" /\ asserts' = asserts \cup {a}
        /\ pc' = IF K + 1 = Len(calls) THEN "render" ELSE "asserts"
    BY <1>5 DEF WriteAssert
  <2>2. a.id = Identity(calls[K + 1]) OBVIOUS
  <2> HIDE DEF a
  <2>3. IsFiniteSet(asserts) /\ K < Len(calls) /\ Asserted = Recorded(K) BY <2>1 DEF Reported
  <2>4. K \in Nat BY <2>3, FS_CardinalityType
  <2> HIDE DEF K
  <2>5. a \notin asserts
    <3>1. ASSUME a \in asserts PROVE FALSE
      <4>1. a.id \in Asserted BY <3>1 DEF Asserted
      <4>2. PICK n \in 1..K : a.id = Identity(calls[n]) BY <2>3, <4>1 DEF Recorded
      <4>3. n \in 1..Len(calls) /\ K + 1 \in 1..Len(calls) /\ n # K + 1 BY <1>1, <2>3, <2>4
      <4> QED BY <2>2, <4>2, <4>3, OneRecordEach
    <3> QED BY <3>1
  <2>6. IsFiniteSet(asserts') /\ Cardinality(asserts') = K + 1 BY <2>1, <2>3, <2>5, FS_AddElement DEF K
  <2>7. Asserted' = {Identity(calls[n]) : n \in 1..K + 1}
    <3>1. Asserted' = Asserted \cup {a.id} BY <2>1 DEF Asserted
    <3>2. 1..K + 1 = (1..K) \cup {K + 1} BY <2>4
    <3>3. {Identity(calls[n]) : n \in 1..K + 1} = Recorded(K) \cup {Identity(calls[K + 1])} BY <3>2 DEF Recorded
    <3> QED BY <2>2, <2>3, <3>1, <3>3
  <2>8. inputs /\ metrics = {} BY <2>1 DEF Reported
  <2>9. CASE K + 1 = Len(calls)
    <3>1. pc' = "render" /\ Asserted' = Recorded(Len(calls))' BY <2>1, <2>7, <2>9 DEF Recorded
    <3> QED BY <2>1, <2>6, <2>8, <3>1 DEF Reported
  <2>10. CASE K + 1 # Len(calls)
    <3>1. pc' = "asserts" /\ Cardinality(asserts') < Len(calls) BY <1>1, <2>1, <2>3, <2>4, <2>6, <2>10
    <3>2. Asserted' = Recorded(Cardinality(asserts))' BY <2>1, <2>6, <2>7 DEF Recorded
    <3> QED BY <2>1, <2>6, <2>8, <3>1, <3>2 DEF Reported
  <2> QED BY <2>9, <2>10
<1>6. CASE Render
  <2>1. UNCHANGED <<calls, inputs, asserts>> /\ pc = "render" /\ (pc' = "done" \/ (pc' = "died" /\ metrics' = metrics))
    BY <1>6 DEF Render, Die
  <2>2. Asserted' = Asserted /\ Recorded(Len(calls))' = Recorded(Len(calls)) BY <2>1 DEF Asserted, Recorded
  <2> QED BY <2>1, <2>2 DEF Reported
<1>7. CASE Kill \/ UNCHANGED vars
  <2>1. UNCHANGED <<calls, inputs, asserts, metrics>> /\ ((pc' = "killed" /\ pc # "done") \/ pc' = pc)
    BY <1>7 DEF Kill, vars, Ended
  <2>2. /\ Asserted' = Asserted /\ Recorded(Len(calls))' = Recorded(Len(calls))
        /\ Recorded(Cardinality(asserts))' = Recorded(Cardinality(asserts))
    BY <2>1 DEF Asserted, Recorded
  <2> QED BY <2>1, <2>2 DEF Reported
<1> QED BY <1>2, <1>3, <1>4, <1>5, <1>6, <1>7, PipelineCases

-----------------------------------------------------------------------------
(* Analyzer: the steps. *)
AnalyzerMoves == AnalyzerNext \/ Kill \/ UNCHANGED vars

(* Every step, as a case of its own. *)
LEMMA AnalyzerCases ==
  ASSUME AnalyzerMoves
  PROVE  \/ AnalyzerStart \/ Probe \/ AnalyzePair \/ RecordPair \/ JudgePair \/ EndPair
         \/ RenderAnalyzer \/ VerifyRecords \/ Kill \/ UNCHANGED vars
BY DEF AnalyzerMoves, AnalyzerNext

(* Whatever Prism prints, the record of the pair tells what matching gave. *)
LEMMA AnalyzedFacts ==
  ASSUME conf \in AnalyzerRuns, at \in 1..Len(conf.pairs), NEW c \in Analyzed
  PROVE  c.version = Mode.version /\ c.item = Fixture /\ c.sample = 0 /\ Told(c)
<1>1. /\ Findings(conf.labels[Fixture]) /\ conf.maximum[Fixture] \in Nat
      /\ \A k \in DOMAIN conf.labels[Fixture] : conf.labels[Fixture][k].tier \in Tiers
      /\ \A doc \in Documents(Fixture, Mode) : \A d \in doc : Findings(d.findings)
  BY AnalyzerConf DEF Fixture, Mode
<1>2. /\ Blank.version = Mode.version /\ Blank.item = Fixture /\ Blank.sample = 0 /\ Blank.match = {}
      /\ DOMAIN Blank = {"item", "version", "sample", "error", "skipped", "match", "strata", "found"}
  BY DEF Blank
<1>3. CASE c = [Blank EXCEPT !.skipped = TRUE] \/ c = [Blank EXCEPT !.error = {"analyzer"}]
  <2>1. c.version = Mode.version /\ c.item = Fixture /\ c.sample = 0 /\ c.match = {} BY <1>2, <1>3
  <2>2. c.skipped = TRUE \/ c.error = {"analyzer"} BY <1>2, <1>3
  <2> QED BY <2>1, <2>2 DEF Told, Usable
<1>4. ASSUME NEW doc \in Documents(Fixture, Mode), doc # {},
             c = LET emitted == FindingsFromDocument(CHOOSE d \in doc : TRUE)
                     match == MatchFindings(conf.labels[Fixture], emitted, conf.tolerance,
                                            conf.negatives[Fixture], conf.maximum[Fixture])
                 IN [Blank EXCEPT !.match = {match}, !.found = emitted,
                                  !.strata = {Strata(conf.labels[Fixture], emitted, match.matches)}]
      PROVE  c.version = Mode.version /\ c.item = Fixture /\ c.sample = 0 /\ Told(c)
  <2> DEFINE d == CHOOSE x \in doc : TRUE
             em == d.findings
             m == MatchFindings(conf.labels[Fixture], em, conf.tolerance, conf.negatives[Fixture],
                                conf.maximum[Fixture])
             st == Strata(conf.labels[Fixture], em, m.matches)
  <2>1. d \in doc BY <1>4
  <2>2. Findings(em) BY <1>1, <2>1
  <2>3. c = [Blank EXCEPT !.match = {m}, !.found = em, !.strata = {st}] BY <1>4 DEF FindingsFromDocument
  <2>4. m = MatchFindings(conf.labels[Fixture], em, conf.tolerance, conf.negatives[Fixture],
                          conf.maximum[Fixture])
        /\ st = Strata(conf.labels[Fixture], em, m.matches)
    OBVIOUS
  <2> HIDE DEF d, em, m, st
  <2>5. /\ c.version = Mode.version /\ c.item = Fixture /\ c.sample = 0
        /\ c.match = {m} /\ c.found = em /\ c.strata = {st}
    BY <1>2, <2>3
  <2> QED BY <1>1, <2>2, <2>4, <2>5 DEF Told
<1> QED BY <1>3, <1>4 DEF Analyzed

(* Each call keeps its stage file, which no other call has. *)
LEMMA OneEachStep ==
  ASSUME conf \in AnalyzerRuns, OneEach, InHand, AnalyzerMoves
  PROVE  OneEach'
<1>1. Len(conf.pairs) \in Nat \ {0} BY AnalyzerConf
<1>2. at \in 1..Len(conf.pairs) /\ IsList(calls) /\ Len(calls) \in Nat
  <2>1. at \in 1..Len(conf.pairs) /\ IsList(calls) BY DEF OneEach
  <2> QED BY <2>1, ListFacts DEF IsList
<1>3. ASSUME UNCHANGED <<conf, calls>>, stages \subseteq stages', at' \in 1..Len(conf.pairs),
             \/ pc' \in Ended
             \/ pc' \in {"start", "probe", "pair", "record"} /\ Len(calls) = at' - 1
             \/ pc' \in {"judge", "events"} /\ Len(calls) = at'
             \/ pc' \in {"report", "verify"} /\ Len(calls) = Len(conf.pairs)
      PROVE  OneEach'
  <2>1. \A n \in 1..Len(calls) : /\ <<calls[n].version, calls[n].item, "analyzer">> \in stages'
                                 /\ Told(calls[n])'
    <3> SUFFICES ASSUME NEW n \in 1..Len(calls)
                 PROVE  /\ <<calls[n].version, calls[n].item, "analyzer">> \in stages'
                        /\ Told(calls[n])'
      OBVIOUS
    <3>1. <<calls[n].version, calls[n].item, "analyzer">> \in stages /\ Told(calls[n]) BY DEF OneEach
    <3>2. Told(calls[n])' BY <1>3, <3>1 DEF Told
    <3> QED BY <1>3, <3>1, <3>2
  <2>2. \A n, k \in 1..Len(calls) : Identity(calls[n]) = Identity(calls[k]) => n = k BY DEF OneEach
  <2>3. calls' = calls /\ conf' = conf BY <1>3
  <2>4. \A n \in 1..Len(calls') : /\ <<calls'[n].version, calls'[n].item, "analyzer">> \in stages'
                                  /\ Told(calls[n])'
    BY <2>1, <2>3
  <2> QED BY <1>2, <1>3, <2>2, <2>3, <2>4 DEF OneEach, Ended
<1>4. CASE AnalyzerStart \/ Probe
  <2>1. /\ UNCHANGED <<conf, calls, stages, at>> /\ pc \in {"start", "probe"} /\ pc' \in {"probe", "pair"}
    BY <1>4 DEF AnalyzerStart, Probe
  <2> QED BY <1>2, <1>3, <2>1 DEF OneEach
<1>5. CASE AnalyzePair
  <2>1. /\ UNCHANGED <<conf, calls, at>> /\ stages \subseteq stages' /\ pc = "pair" /\ pc' \in {"died", "record"}
    BY <1>5 DEF AnalyzePair, Die
  <2> QED BY <1>2, <1>3, <2>1 DEF OneEach, Ended
<1>6. CASE RecordPair
  <2>1. calls' = Append(calls, Current) /\ pc = "record" /\ pc' = "judge" /\ UNCHANGED <<conf, at, stages>>
    BY <1>6 DEF RecordPair
  <2>2. /\ Len(calls) = at - 1 /\ <<Current.version, Current.item, "analyzer">> \in stages /\ Told(Current)
        /\ \A n \in 1..Len(calls) : Identity(calls[n]) # Identity(Current)
        /\ \A n \in 1..Len(calls) : /\ <<calls[n].version, calls[n].item, "analyzer">> \in stages
                                    /\ Told(calls[n])
        /\ \A n, k \in 1..Len(calls) : Identity(calls[n]) = Identity(calls[k]) => n = k
    BY <2>1 DEF OneEach, InHand
  <2> DEFINE c == Current
  <2>3. calls' = Append(calls, c) BY <2>1
  <2>4. /\ <<c.version, c.item, "analyzer">> \in stages /\ Told(c)
        /\ \A n \in 1..Len(calls) : Identity(calls[n]) # Identity(c)
    BY <2>2
  <2> HIDE DEF c
  <2>5. /\ IsList(calls') /\ Len(calls') = Len(calls) + 1 /\ calls'[Len(calls) + 1] = c
        /\ \A n \in 1..Len(calls) : calls'[n] = calls[n]
    BY <1>2, <2>3, AppendFacts
  <2>6. \A n \in 1..Len(calls') : n \in 1..Len(calls) \/ n = Len(calls) + 1 BY <1>2, <2>5
  <2>7. ASSUME NEW n \in 1..Len(calls')
        PROVE <<calls'[n].version, calls'[n].item, "analyzer">> \in stages' /\ Told(calls[n])'
    <3>1. Told(calls'[n]) BY <2>2, <2>4, <2>5, <2>6
    <3>2. Told(calls[n])' BY <2>1, <3>1 DEF Told
    <3> QED BY <2>1, <2>2, <2>4, <2>5, <2>6, <3>2
  <2>8. \A n, k \in 1..Len(calls') : Identity(calls'[n]) = Identity(calls'[k]) => n = k
    BY <2>2, <2>4, <2>5, <2>6
  <2> QED BY <1>1, <1>2, <2>1, <2>2, <2>5, <2>7, <2>8 DEF OneEach
<1>7. CASE JudgePair
  <2>1. UNCHANGED <<conf, calls, stages, at>> /\ pc = "judge" /\ pc' = "events" BY <1>7 DEF JudgePair
  <2> QED BY <1>2, <1>3, <2>1 DEF OneEach
<1>8. CASE EndPair
  <2>1. /\ UNCHANGED <<conf, calls, stages>> /\ pc = "events" /\ Len(calls) = at
        /\ \/ at = Len(conf.pairs) /\ pc' = "report" /\ at' = at
           \/ at # Len(conf.pairs) /\ pc' = "pair" /\ at' = at + 1
    BY <1>8 DEF EndPair, OneEach
  <2>2. at' \in 1..Len(conf.pairs) /\ (pc' = "pair" => Len(calls) = at' - 1) BY <1>1, <1>2, <2>1
  <2> QED BY <1>3, <2>1, <2>2
<1>9. CASE RenderAnalyzer \/ VerifyRecords
  <2>1. /\ UNCHANGED <<conf, calls, stages, at>> /\ pc \in {"report", "verify"}
        /\ pc' \in {"verify", "done", "died"}
    BY <1>9 DEF RenderAnalyzer, VerifyRecords
  <2> QED BY <1>2, <1>3, <2>1 DEF OneEach, Ended
<1>10. CASE Kill \/ UNCHANGED vars
  <2>1. UNCHANGED <<conf, calls, stages, at>> /\ (pc' = "killed" \/ pc' = pc) BY <1>10 DEF Kill, vars
  <2> QED BY <1>2, <1>3, <2>1 DEF OneEach, Ended
<1> QED BY <1>4, <1>5, <1>6, <1>7, <1>8, <1>9, <1>10, AnalyzerCases

(* A pair's record is in nobody else's place: its stage file was new. *)
LEMMA InHandStep ==
  ASSUME conf \in AnalyzerRuns, OneEach, InHand, AnalyzerMoves
  PROVE  InHand'
<1>1. at \in 1..Len(conf.pairs) /\ IsList(calls) /\ Len(calls) \in Nat
  <2>1. at \in 1..Len(conf.pairs) /\ IsList(calls) BY DEF OneEach
  <2> QED BY <2>1, ListFacts DEF IsList
<1>2. CASE pc' \notin {"record", "judge", "events"} BY <1>2 DEF InHand
<1>3. CASE AnalyzePair /\ pc' = "record"
  <2>1. PICK c \in Analyzed : got' = [request |-> TRUE, env |-> {c}] BY <1>3 DEF AnalyzePair, Die
  <2>2. StageFile \notin stages /\ stages' = stages \cup {StageFile} /\ calls' = calls /\ conf' = conf /\ pc' = "record"
    BY <1>3 DEF AnalyzePair, Die
  <2>3. c.version = Mode.version /\ c.item = Fixture /\ c.sample = 0 /\ Told(c) BY <1>1, AnalyzedFacts
  <2>4. Current' = c /\ got'.env = {c}
    <3>1. got'.env = {c} BY <2>1
    <3> QED BY <3>1 DEF Current
  <2>5. StageFile = <<c.version, c.item, "analyzer">> BY <2>3 DEF StageFile
  <2>6. ASSUME NEW n \in 1..Len(calls) PROVE Identity(calls[n]) # Identity(c)
    <3>1. <<calls[n].version, calls[n].item, "analyzer">> \in stages BY DEF OneEach
    <3>2. <<calls[n].version, calls[n].item, "analyzer">> # <<c.version, c.item, "analyzer">> BY <2>2, <2>5, <3>1
    <3> QED BY <3>2 DEF Identity
  <2>7. Told(Current)'
    <3>1. Told(c)' BY <2>2, <2>3 DEF Told, Usable
    <3> QED BY <2>4, <3>1 DEF Told, Usable
  <2>8. \A n \in 1..Len(calls') : Identity(calls'[n]) # Identity(Current') BY <2>2, <2>4, <2>6
  <2>9. <<Current'.version, Current'.item, "analyzer">> \in stages' BY <2>2, <2>4, <2>5
  <2> QED BY <2>2, <2>4, <2>7, <2>8, <2>9 DEF InHand
<1>4. CASE RecordPair
  <2>1. calls' = Append(calls, Current) /\ pc = "record" /\ pc' = "judge" /\ got' = got BY <1>4 DEF RecordPair
  <2>2. Current' = Current BY <2>1 DEF Current
  <2> DEFINE c == Current
  <2>3. calls' = Append(calls, c) BY <2>1
  <2> HIDE DEF c
  <2>4. Len(calls') = Len(calls) + 1 /\ calls'[Len(calls) + 1] = c BY <1>1, <2>3, AppendFacts
  <2>5. calls'[Len(calls')] = Current' BY <2>2, <2>4 DEF c
  <2> QED BY <2>1, <2>2, <2>5 DEF InHand
<1>5. CASE JudgePair
  <2>1. UNCHANGED <<calls, got>> /\ pc = "judge" /\ pc' = "events" BY <1>5 DEF JudgePair
  <2>2. Current' = Current BY <2>1 DEF Current
  <2> QED BY <2>1, <2>2 DEF InHand
<1>6. CASE UNCHANGED vars
  <2>1. UNCHANGED <<conf, pc, calls, got, stages>> BY <1>6 DEF vars
  <2>2. Current' = Current BY <2>1 DEF Current
  <2>3. Told(Current)' <=> Told(Current) BY <2>1, <2>2 DEF Told
  <2> QED BY <2>1, <2>2, <2>3 DEF InHand
<1>7. \/ pc' \notin {"record", "judge", "events"} \/ (AnalyzePair /\ pc' = "record") \/ RecordPair \/ JudgePair
      \/ UNCHANGED vars
  <2>1. AnalyzePair => pc' \in {"record", "died"} BY DEF AnalyzePair, Die
  <2>2. /\ AnalyzerStart => pc' = "probe"
        /\ Probe => pc' = "pair" 
        /\ EndPair => pc' \in {"report", "pair"}
        /\ RenderAnalyzer => pc' = "verify"
        /\ VerifyRecords => pc' \in {"done", "died"}
        /\ Kill => pc' = "killed"
    BY DEF AnalyzerStart, Probe, EndPair, RenderAnalyzer, VerifyRecords, Kill
  <2> QED BY <2>1, <2>2, AnalyzerCases
<1> QED BY <1>2, <1>3, <1>4, <1>5, <1>6, <1>7

(* The assert records are those of the calls, but for the one to come. *)
LEMMA JudgedStep ==
  ASSUME conf \in AnalyzerRuns, OneEach, InHand, Judged, AnalyzerMoves
  PROVE  Judged'
<1>1. IsList(calls) /\ Len(calls) \in Nat
  <2>1. IsList(calls) BY DEF OneEach
  <2> QED BY <2>1, ListFacts DEF IsList
<1>2. ASSUME UNCHANGED <<conf, calls, asserts>>, metrics' = metrics \/ pc = "report", inputs' \/ inputs' = inputs,
             pc # "judge", pc \notin Ended,
             \/ pc' \in {"start", "probe", "pair", "record", "events", "report"} /\ metrics' = metrics
             \/ pc' \in {"verify"} \cup Ended,
             pc' \in {"start", "probe", "pair", "record", "events", "report"} => pc # "verify",
             pc = "start" => inputs'
      PROVE  Judged'
  <2>1. Asserted' = Asserted /\ Recorded(Len(calls))' = Recorded(Len(calls)) BY <1>2 DEF Asserted, Recorded
  <2>2. pc \in {"start", "probe", "pair", "record", "events", "report", "verify"}
    BY <1>2 DEF OneEach
  <2>3. inputs' BY <1>2 DEF Judged, Ended
  <2>4. pc = "report" => Len(calls) = Len(conf.pairs) BY DEF OneEach
  <2> QED BY <1>2, <2>1, <2>2, <2>3, <2>4 DEF Judged, Ended
<1>3. CASE AnalyzerStart \/ Probe \/ AnalyzePair \/ EndPair
  <2>1. /\ UNCHANGED <<conf, calls, asserts, metrics>> /\ (inputs' \/ inputs' = inputs)
        /\ pc \in {"start", "probe", "pair", "events"} /\ (pc = "start" => inputs')
        /\ pc' \in {"probe", "pair", "record", "report", "died"}
    BY <1>3 DEF AnalyzerStart, Probe, AnalyzePair, EndPair, Die
  <2> QED BY <1>2, <2>1 DEF Ended
<1>4. CASE RecordPair
  <2>1. /\ calls' = Append(calls, Current) /\ pc = "record" /\ pc' = "judge"
        /\ UNCHANGED <<conf, asserts, inputs, metrics>>
    BY <1>4 DEF RecordPair
  <2> DEFINE c == Current
  <2>2. calls' = Append(calls, c) BY <2>1
  <2> HIDE DEF c
  <2>3. Len(calls') = Len(calls) + 1 /\ \A n \in 1..Len(calls) : calls'[n] = calls[n] BY <1>1, <2>2, AppendFacts
  <2>4. Asserted' = Recorded(Len(calls) - 1)'
    <3>1. Asserted' = Asserted /\ Asserted = Recorded(Len(calls)) BY <2>1 DEF Asserted, Judged
    <3>2. 1..Len(calls') - 1 = 1..Len(calls) BY <1>1, <2>3
    <3>3. {Identity(calls'[n]) : n \in 1..Len(calls)} = {Identity(calls[n]) : n \in 1..Len(calls)} BY <2>3
    <3> QED BY <3>1, <3>2, <3>3 DEF Recorded
  <2>5. inputs /\ metrics = {} BY <2>1 DEF Judged, Ended
  <2> QED BY <2>1, <2>4, <2>5 DEF Judged
<1>5. CASE JudgePair
  <2> DEFINE a == [id |-> Identity(Current), results |-> AnalyzerMatchAssert(Current)]
  <2>1. /\ UNCHANGED <<conf, calls, inputs, metrics>> /\ pc = "judge" /\ pc' = "events" /\ asserts' = asserts \cup {a}
    BY <1>5 DEF JudgePair
  <2>2. a.id = Identity(Current) OBVIOUS
  <2> HIDE DEF a
  <2>3. calls[Len(calls)] = Current /\ Asserted = Recorded(Len(calls) - 1) /\ Len(calls) = at
        /\ at \in 1..Len(conf.pairs) /\ inputs /\ metrics = {}
    BY <2>1 DEF InHand, Judged, OneEach, Ended
  <2>4. Asserted' = Recorded(Len(calls))
    <3>1. Asserted' = Asserted \cup {a.id} BY <2>1 DEF Asserted
    <3>2. Len(conf.pairs) \in Nat BY AnalyzerConf
    <3>3. 1..Len(calls) = (1..Len(calls) - 1) \cup {Len(calls)} BY <1>1, <2>3, <3>2
    <3>4. Recorded(Len(calls)) = Recorded(Len(calls) - 1) \cup {Identity(calls[Len(calls)])}
      BY <3>3 DEF Recorded
    <3> QED BY <2>2, <2>3, <3>1, <3>4
  <2>5. Recorded(Len(calls))' = Recorded(Len(calls)) BY <2>1 DEF Recorded
  <2> QED BY <2>1, <2>3, <2>4, <2>5 DEF Judged
<1>6. CASE RenderAnalyzer
  <2>1. UNCHANGED <<conf, calls, asserts, inputs>> /\ pc = "report" /\ pc' = "verify" BY <1>6 DEF RenderAnalyzer
  <2> QED BY <1>2, <2>1 DEF Ended
<1>7. CASE VerifyRecords
  <2>1. UNCHANGED <<conf, calls, asserts, inputs, metrics>> /\ pc = "verify" /\ pc' \in {"done", "died"}
    BY <1>7 DEF VerifyRecords
  <2> QED BY <1>2, <2>1 DEF Ended
<1>8. CASE Kill
  <2>1. UNCHANGED <<conf, calls, asserts, inputs, metrics>> /\ pc' = "killed" BY <1>8 DEF Kill
  <2>2. Asserted' = Asserted /\ Recorded(Len(calls))' = Recorded(Len(calls)) BY <2>1 DEF Asserted, Recorded
  <2> QED BY <2>1, <2>2 DEF Judged, Ended
<1>9. CASE UNCHANGED vars
  <2>1. UNCHANGED <<conf, pc, calls, asserts, inputs, metrics>> BY <1>9 DEF vars
  <2>2. /\ Asserted' = Asserted /\ Recorded(Len(calls))' = Recorded(Len(calls))
        /\ Recorded(Len(calls) - 1)' = Recorded(Len(calls) - 1)
    BY <2>1 DEF Asserted, Recorded
  <2> QED BY <2>1, <2>2 DEF Judged
<1> QED BY <1>3, <1>4, <1>5, <1>6, <1>7, <1>8, <1>9, AnalyzerCases

-----------------------------------------------------------------------------
(* Both kinds. *)
LEMMA Kinds ==
  ASSUME Loaded
  PROVE  /\ conf.kind = "pipeline" => conf \in PipelineRuns
         /\ conf.kind = "analyzer" => conf \in AnalyzerRuns
         /\ conf.kind \in {"pipeline", "analyzer"}
<1>1. CASE conf \in PipelineRuns BY <1>1, PipelineConf
<1>2. CASE conf \in AnalyzerRuns BY <1>2, AnalyzerConf
<1> QED BY <1>1, <1>2 DEF Loaded

(* As many identities as records. *)
LEMMA Counted ==
  ASSUME IsList(calls), \A n, k \in 1..Len(calls) : Identity(calls[n]) = Identity(calls[k]) => n = k
  PROVE  Cardinality(Recorded(Len(calls))) = Len(calls)
<1>1. Len(calls) \in Nat BY ListFacts DEF IsList
<1> DEFINE h == [n \in 1..Len(calls) |-> Identity(calls[n])]
           S == 1..Len(calls)
<1>2. DOMAIN h = S /\ (\A x, y \in S : h[x] = h[y] => x = y) /\ \A x \in S : h[x] = Identity(calls[x])
  OBVIOUS
<1>3. Recorded(Len(calls)) = {Identity(calls[n]) : n \in S} BY DEF Recorded
<1>4. IsFiniteSet(S) /\ Cardinality(S) = Len(calls) BY <1>1, Upto
<1> HIDE DEF h, S
<1>5. Cardinality({h[x] : x \in S}) = Cardinality(S) BY <1>2, <1>4, Numbered
<1>6. {h[x] : x \in S} = Recorded(Len(calls)) BY <1>2, <1>3
<1> QED BY <1>4, <1>5, <1>6

(* A run begins with no file at all. *)
LEMMA InitLemma == Init => EvaluationsInv
<1> SUFFICES ASSUME Init PROVE EvaluationsInv OBVIOUS
<1>1. Loaded /\ EvaluationInit BY DEF Init, PipelineInit, AnalyzerInit, Loaded
<1>2. /\ pc = "start" /\ at = 1 /\ rows = <<>> /\ got = Nothing /\ stages = {} /\ calls = <<>> /\ asserts = {}
      /\ ~inputs /\ total = 0 /\ metrics = {}
  BY <1>1 DEF EvaluationInit
<1>3. IsList(<<>>) /\ Len(<<>>) = 0 /\ 1..0 = {} /\ Costs(<<>>) /\ CostOf(<<>>) = 0
  <2>1. <<>> \in Seq({}) /\ Len(<<>>) = 0 /\ 1..0 = {} OBVIOUS
  <2>2. IsList(<<>>) BY <2>1, ListFacts
  <2>3. Costs(<<>>) BY <2>1, <2>2 DEF Costs, IsList
  <2> QED BY <2>1, <2>2, <2>3, NoCost
<1>4. Asserted = {} /\ Recorded(Len(calls)) = {} BY <1>2, <1>3 DEF Asserted, Recorded
<1>5. ASSUME conf.kind = "pipeline" PROVE InOrder /\ FiledInTurn /\ Spent /\ Reported
  <2>1. conf \in PipelineRuns BY <1>1, <1>5, Kinds
  <2>2. /\ Len(conf.pairs) \in Nat \ {0} /\ Len(conf.stages) \in Nat \ {0} /\ conf.cap \in Int /\ conf.cap >= 0
    BY <2>1, PipelineConf
  <2>3. InOrder BY <1>2, <1>3, <2>2 DEF InOrder
  <2>4. FiledInTurn
    <3>1. \A p : FiledOf(p) = {} BY <1>2 DEF FiledOf
    <3>2. 0 \in 0..Len(conf.stages) /\ 1..0 = {} BY <2>2
    <3> QED BY <1>2, <1>3, <3>1, <3>2 DEF FiledInTurn
  <2>5. Spent
    <3>1. got.env = {} BY <1>2 DEF Nothing
    <3>2. 0..Len(calls) - 1 = {} BY <1>2, <1>3
    <3> QED BY <1>2, <1>3, <2>2, <3>1, <3>2 DEF Spent
  <2>6. Reported
    <3>1. IsFiniteSet(asserts) BY <1>2, FS_EmptySet
    <3> QED BY <1>2, <3>1 DEF Reported
  <2> QED BY <2>3, <2>4, <2>5, <2>6
<1>6. ASSUME conf.kind = "analyzer" PROVE OneEach /\ InHand /\ Judged
  <2>1. conf \in AnalyzerRuns BY <1>1, <1>6, Kinds
  <2>2. Len(conf.pairs) \in Nat \ {0} BY <2>1, AnalyzerConf
  <2>3. OneEach BY <1>2, <1>3, <2>2 DEF OneEach
  <2>4. InHand BY <1>2 DEF InHand
  <2>5. Judged BY <1>2, <1>4 DEF Judged
  <2> QED BY <2>3, <2>4, <2>5
<1> QED BY <1>1, <1>5, <1>6 DEF EvaluationsInv, PipelineInv, AnalyzerInv

(* Every step of either kind keeps the invariant. *)
LEMMA StepLemma == EvaluationsInv /\ [Next]_vars => EvaluationsInv'
<1> SUFFICES ASSUME EvaluationsInv, [Next]_vars PROVE EvaluationsInv' OBVIOUS
<1>1. Loaded /\ PipelineInv /\ AnalyzerInv BY DEF EvaluationsInv
<1>2. conf' = conf
  BY DEF Next, PipelineNext, AnalyzerNext, vars, Kill, PipelineStart, StageRaises, Die, PinnedStage, HarnessStage,
         PrismStage, LlmStage, WriteCall, Charge, WriteInputs, WriteAssert, Render, AnalyzerStart, Probe,
         AnalyzePair, RecordPair, JudgePair, EndPair, RenderAnalyzer, VerifyRecords
<1>3. Loaded' BY <1>1, <1>2 DEF Loaded
<1>4. PipelineInv'
  <2> SUFFICES ASSUME conf.kind = "pipeline" PROVE (InOrder /\ FiledInTurn /\ Spent /\ Reported)'
    BY <1>2 DEF PipelineInv
  <2>1. conf \in PipelineRuns /\ InOrder /\ FiledInTurn /\ Spent /\ Reported BY <1>1, Kinds DEF PipelineInv
  <2>2. PipelineMoves BY DEF PipelineMoves, Next, AnalyzerNext
  <2>3. InOrder' BY <2>1, <2>2, InOrderStep
  <2>4. FiledInTurn' BY <2>1, <2>2, FiledInTurnStep
  <2>5. Spent' BY <2>1, <2>2, SpentStep
  <2>6. Reported' BY <2>1, <2>2, ReportedStep
  <2> QED BY <2>3, <2>4, <2>5, <2>6
<1>5. AnalyzerInv'
  <2> SUFFICES ASSUME conf.kind = "analyzer" PROVE (OneEach /\ InHand /\ Judged)'
    BY <1>2 DEF AnalyzerInv
  <2>1. conf \in AnalyzerRuns /\ OneEach /\ InHand /\ Judged BY <1>1, Kinds DEF AnalyzerInv
  <2>2. AnalyzerMoves BY DEF AnalyzerMoves, Next, PipelineNext
  <2>3. OneEach' BY <2>1, <2>2, OneEachStep
  <2>4. InHand' BY <2>1, <2>2, InHandStep
  <2>5. Judged' BY <2>1, <2>2, JudgedStep
  <2> QED BY <2>3, <2>4, <2>5
<1> QED BY <1>3, <1>4, <1>5 DEF EvaluationsInv

(* The inductive invariant: where the records stand while a run of either
   kind goes through its pairs. *)
THEOREM EvaluationsInvariance == Spec => []EvaluationsInv
<1>1. Init => EvaluationsInv BY InitLemma
<1>2. EvaluationsInv /\ [Next]_vars => EvaluationsInv' BY StepLemma
<1> QED BY <1>1, <1>2, PTL DEF Spec

-----------------------------------------------------------------------------
(* Whatever the stages, their pins and the executors' answers are, a stage of
   run_pipeline_item has a file only after every earlier one of the pair has,
   and a call's stage error names the first that has none. *)
THEOREM StagesTheorem == Spec => []StagesFollowTheirInputs
<1>1. EvaluationsInv => StagesFollowTheirInputs
  <2> SUFFICES ASSUME EvaluationsInv, conf.kind = "pipeline" PROVE StagesFollowTheirInputs
    BY DEF StagesFollowTheirInputs
  <2>1. conf \in PipelineRuns /\ InOrder /\ FiledInTurn BY Kinds DEF EvaluationsInv, PipelineInv
  <2>2. /\ Len(conf.pairs) \in Nat /\ DOMAIN conf.pairs = 1..Len(conf.pairs)
        /\ DOMAIN conf.stages = 1..Len(conf.stages) /\ Len(conf.stages) \in Nat
    BY <2>1, PipelineConf
  <2>3. DOMAIN calls = 1..Len(calls)
    <3>1. IsList(calls) BY <2>1 DEF InOrder
    <3> QED BY <3>1, ListFacts DEF IsList
  <2> DEFINE Filed(v, i) == {n \in DOMAIN conf.stages : <<v, i, conf.stages[n].name>> \in stages}
             Missing(v, i) == {conf.stages[n].name :
                n \in {m \in DOMAIN conf.stages : \A k \in 1..m - 1 : k \in Filed(v, i)} \ Filed(v, i)}
  <2>4. \A p \in 1..Len(conf.pairs) : FiledOf(p) = Filed(conf.pairs[p][2], conf.pairs[p][1]) BY DEF FiledOf
  <2>5. ASSUME NEW p \in ToSet(conf.pairs), NEW n \in Filed(p[2], p[1]) PROVE 1..n \subseteq Filed(p[2], p[1])
    <3>1. PICK k \in 1..Len(conf.pairs) : p = conf.pairs[k] BY <2>2 DEF ToSet
    <3>2. PICK j \in 0..Len(conf.stages) : FiledOf(k) = 1..j BY <2>1 DEF FiledInTurn
    <3>3. Filed(p[2], p[1]) = 1..j BY <2>4, <3>1, <3>2
    <3> HIDE DEF Filed
    <3>4. n \in 1..j BY <2>5, <3>3
    <3> QED BY <3>3, <3>4
  <2>6. ASSUME NEW n \in DOMAIN calls PROVE calls[n].error = Missing(calls[n].version, calls[n].item)
    <3>1. n \in 1..Len(calls) BY <2>3
    <3>2. calls[n].error = Lacks(n) /\ calls[n].version = conf.pairs[n][2] /\ calls[n].item = conf.pairs[n][1]
      BY <2>1, <3>1 DEF FiledInTurn, InOrder
    <3>3. Lacks(n) = Missing(conf.pairs[n][2], conf.pairs[n][1]) BY DEF Lacks, FiledOf
    <3> QED BY <3>2, <3>3
  <2> QED BY <2>5, <2>6 DEF StagesFollowTheirInputs
<1> QED BY <1>1, EvaluationsInvariance, PTL

(* However a run of either kind ends or is killed, metrics.json stands for
   inputs, one call and one assert record for each pair; and the pipeline's
   cost cap is exceeded by one call at most. *)
THEOREM WholeRunTheorem == Spec => []MetricsMeanAWholeRun
<1>1. EvaluationsInv => MetricsMeanAWholeRun
  <2> SUFFICES ASSUME EvaluationsInv PROVE MetricsMeanAWholeRun OBVIOUS
  <2> DEFINE Ids == {Identity(calls[n]) : n \in DOMAIN calls}
             Whole == inputs /\ Len(calls) = Len(conf.pairs) /\ Cardinality(Ids) = Len(calls)
                      /\ {a.id : a \in asserts} = Ids
  <2>1. Loaded /\ PipelineInv /\ AnalyzerInv BY DEF EvaluationsInv
  <2>2. CASE conf.kind = "pipeline"
    <3>1. conf \in PipelineRuns /\ InOrder /\ Spent /\ Reported BY <2>1, <2>2, Kinds DEF PipelineInv
    <3>2. IsList(calls) /\ DOMAIN calls = 1..Len(calls)
      <4>1. IsList(calls) BY <3>1 DEF InOrder
      <4> QED BY <4>1, ListFacts DEF IsList
    <3>3. Ids = Recorded(Len(calls)) BY <3>2 DEF Recorded
    <3>4. Cardinality(Recorded(Len(calls))) = Len(calls)
      <4>1. \A n, k \in 1..Len(calls) : Identity(calls[n]) = Identity(calls[k]) => n = k BY <3>1, OneRecordEach
      <4> QED BY <3>2, <4>1, Counted
    <3>5. ASSUME metrics # {} PROVE Whole
      <4>1. inputs /\ Len(calls) = Len(conf.pairs) /\ Asserted = Recorded(Len(calls))
        BY <3>1, <3>5 DEF Reported, InOrder
      <4> QED BY <3>3, <3>4, <4>1 DEF Asserted
    <3>6. SubSeq(calls, 1, Len(calls)) = calls BY <3>2, PrefixFacts
    <3> HIDE DEF Ids
    <3>7. /\ \A k \in 0..Len(calls) - 1 : CostOf(SubSeq(calls, 1, k)) <= conf.cap
          /\ inputs => CostOf(SubSeq(calls, 1, Len(calls))) <= conf.cap
          /\ pc \notin {"charge", "killed"} => total = CostOf(SubSeq(calls, 1, Len(calls)))
      BY <3>1, <3>6 DEF Spent
    <3> QED BY <3>5, <3>7 DEF MetricsMeanAWholeRun, Ids
  <2>3. CASE conf.kind = "analyzer"
    <3>1. OneEach /\ Judged BY <2>1, <2>3 DEF AnalyzerInv
    <3>2. IsList(calls) /\ DOMAIN calls = 1..Len(calls)
      <4>1. IsList(calls) BY <3>1 DEF OneEach
      <4> QED BY <4>1, ListFacts DEF IsList
    <3>3. Ids = Recorded(Len(calls)) BY <3>2 DEF Recorded
    <3>4. Cardinality(Recorded(Len(calls))) = Len(calls) BY <3>1, <3>2, Counted DEF OneEach
    <3>5. ASSUME metrics # {} PROVE Whole
      <4>1. inputs /\ Len(calls) = Len(conf.pairs) /\ Asserted = Recorded(Len(calls)) BY <3>1, <3>5 DEF Judged
      <4> QED BY <3>3, <3>4, <4>1 DEF Asserted
    <3>6. conf.kind # "pipeline" BY <2>3
    <3> QED BY <3>5, <3>6 DEF MetricsMeanAWholeRun
  <2> QED BY <2>1, <2>2, <2>3, Kinds
<1> QED BY <1>1, EvaluationsInvariance, PTL

(* For every list of labels and of findings, and whatever Prism prints: no
   label and no finding is matched twice, a compatible pair is passed over
   only for one at least as close, and the counts of the whole and of the
   tiers add up. *)
THEOREM MatchedOnceTheorem == Spec => []FindingsMatchedOnce
<1>1. EvaluationsInv => FindingsMatchedOnce
  <2> SUFFICES ASSUME EvaluationsInv, conf.kind = "analyzer", NEW n \in DOMAIN calls, NEW m \in calls[n].match
               PROVE LET labels == conf.labels[calls[n].item]
                         found == calls[n].found
                         d(e) == Distance(labels[e[1]], found[e[2]])
                         Tiered(field) == Tier(calls[n], "asserted")[field] + Tier(calls[n], "candidate")[field]
                     IN /\ \A a, b \in m.matches : (a[1] = b[1] \/ a[2] = b[2]) => a = b
                        /\ \A e \in Edges(labels, found, conf.tolerance) :
                             \E a \in m.matches : (a[1] = e[1] \/ a[2] = e[2]) /\ d(a) <= d(e)
                        /\ m.tp + m.fn = Len(labels)
                        /\ m.tp + m.fp = Len(found) + m.surplus
                        /\ Tiered("tp") <= m.tp
                        /\ Tiered("tp") + Tiered("fp") = Cardinality({k \in DOMAIN found : found[k].tier \in Tiers})
                        /\ Tiered("tp") + Tiered("fn") = Len(labels)
    BY DEF FindingsMatchedOnce
  <2>1. OneEach BY DEF EvaluationsInv, AnalyzerInv
  <2>2. DOMAIN calls = 1..Len(calls)
    <3>1. IsList(calls) BY <2>1 DEF OneEach
    <3> QED BY <3>1, ListFacts DEF IsList
  <2> DEFINE ex == conf.labels[calls[n].item]
             em == calls[n].found
             st == Strata(ex, em, m.matches)
             tol == conf.tolerance
             neg == conf.negatives[calls[n].item]
             max == conf.maximum[calls[n].item]
  <2>3. /\ Findings(ex) /\ Findings(em) /\ max \in Nat
        /\ \A k \in DOMAIN ex : ex[k].tier \in Tiers
        /\ m = MatchFindings(ex, em, tol, neg, max)
        /\ calls[n].strata = {st}
    BY <2>1, <2>2 DEF OneEach, Told
  <2>4. \A t : Tier(calls[n], t) = st[t] BY <2>3 DEF Tier
  <2>5. st = Strata(ex, em, m.matches) OBVIOUS
  <2> HIDE DEF ex, em, st, tol, neg, max
  <2>6. /\ m.matches = Greedy(ex, em, tol) /\ m.tp = Cardinality(m.matches)
        /\ \A a, b \in m.matches : (a[1] = b[1] \/ a[2] = b[2]) => a = b
        /\ \A e \in Edges(ex, em, tol) :
             \E a \in m.matches : (a[1] = e[1] \/ a[2] = e[2]) /\ Gap(ex, em, a) <= Gap(ex, em, e)
        /\ m.tp + m.fn = Len(ex) /\ m.tp + m.fp = Len(em) + m.surplus
    BY <2>3, MatchFacts
  <2> DEFINE M == m.matches
  <2>7. M \subseteq (DOMAIN ex) \X (DOMAIN em)
    <3>1. Greedy(ex, em, tol) \subseteq Edges(ex, em, tol) BY <2>3, GreedyFacts
    <3> QED BY <2>6, <3>1 DEF Edges
  <2>8. st = Strata(ex, em, M) BY <2>5
  <2> HIDE DEF M
  <2>9. /\ Sums(st, "tp") <= Cardinality(M)
        /\ Sums(st, "tp") + Sums(st, "fp") = Cardinality({k \in DOMAIN em : em[k].tier \in Tiers})
        /\ Sums(st, "tp") + Sums(st, "fn") = Len(ex)
    BY <2>3, <2>7, <2>8, StrataFacts
  <2>10. \A f : Tier(calls[n], "asserted")[f] + Tier(calls[n], "candidate")[f] = Sums(st, f) BY <2>4 DEF Sums
  <2> QED BY <2>6, <2>9, <2>10 DEF ex, em, tol, M, Gap
<1> QED BY <1>1, EvaluationsInvariance, PTL

-----------------------------------------------------------------------------
(* The population of a pipeline run that has all its records. *)

(* A record with further fields. *)
LEMMA WithField ==
  ASSUME NEW r, NEW more, NEW f, NEW w, w = With(r, more)
  PROVE  /\ f \in DOMAIN more => w[f] = more[f]
         /\ f \in DOMAIN r \ DOMAIN more => w[f] = r[f]
BY DEF With

(* The lists of a pipeline's configuration. *)
LEMMA PipelineLists ==
  ASSUME conf \in PipelineRuns
  PROVE  /\ IsList(conf.versions) /\ IsInjective(conf.versions) /\ conf.versions # <<>>
         /\ IsList(conf.items) /\ IsInjective(conf.items) /\ conf.items # <<>>
         /\ conf.baseline \in ToSet(conf.versions) /\ conf.samples = 1
         /\ IsFiniteSet(conf.classes)
         /\ conf.pairs = Product(conf.items, conf.versions)
         /\ {"versions", "baseline", "items", "samples", "classes", "truth"} \subseteq DOMAIN conf
<1>1. PICK c \in PipelineConfs : LoadsPipeline(c) /\
        conf = With(c, [kind |-> "pipeline", pairs |-> Product(c.items, c.versions)])
  BY DEF PipelineRuns
<1> DEFINE P == Product(c.items, c.versions) F == {"versions", "baseline", "items", "samples", "classes", "truth"}
           m == [kind |-> "pipeline", pairs |-> P]
<1>2. /\ F \subseteq DOMAIN c /\ IsFiniteSet(c.classes)
      /\ c.versions \in Seq(Range(c.versions)) /\ c.items \in Seq(Range(c.items))
  BY PipelineAssumption
<1>3. conf.pairs = P /\ \A f \in DOMAIN c \ {"kind", "pairs"} : conf[f] = c[f]
  <2>1. conf = With(c, [kind |-> "pipeline", pairs |-> P]) BY <1>1
  <2> HIDE DEF P
  <2> QED BY <2>1, WithFacts
<1>4. /\ conf.versions = c.versions /\ conf.baseline = c.baseline /\ conf.items = c.items
      /\ conf.samples = c.samples /\ conf.classes = c.classes
  BY <1>2, <1>3
<1>5. F \subseteq DOMAIN conf
  <2>1. conf = With(c, m) BY <1>1
  <2> HIDE DEF m
  <2>2. DOMAIN c \subseteq DOMAIN conf BY <2>1 DEF With
  <2> QED BY <1>2, <2>2
<1>6. /\ c.versions # <<>> /\ c.items # <<>> /\ IsInjective(c.versions) /\ IsInjective(c.items)
      /\ c.baseline \in ToSet(c.versions) /\ c.samples = 1
  BY <1>1 DEF LoadsPipeline
<1>7. IsList(c.versions) /\ IsList(c.items) BY <1>2 DEF IsList
<1>8. conf.pairs = Product(conf.items, conf.versions) BY <1>3, <1>4
<1> QED BY <1>2, <1>4, <1>5, <1>6, <1>7, <1>8

(* The run that is reduced is the configuration with its calls. *)
LEMMA RunFacts ==
  ASSUME conf \in PipelineRuns
  PROVE  /\ Run.calls = calls /\ Run.versions = conf.versions /\ Run.baseline = conf.baseline
         /\ Run.items = conf.items /\ Run.samples = 1 /\ Run.classes = conf.classes /\ Run.truth = conf.truth
<1> DEFINE m == [calls |-> calls]
<1>1. DOMAIN m = {"calls"} /\ m["calls"] = calls OBVIOUS
<1>2. Run = With(conf, m) BY DEF Run
<1> HIDE DEF m
<1>3. conf.samples = 1 /\ {"versions", "baseline", "items", "samples", "classes", "truth"} \subseteq DOMAIN conf
  BY PipelineLists
<1>4. \A f \in DOMAIN conf \cup DOMAIN m : Run[f] = IF f \in DOMAIN m THEN m[f] ELSE conf[f] BY <1>2 DEF With
<1>5. Run["calls"] = calls BY <1>1, <1>4
<1>6. \A f \in {"versions", "baseline", "items", "samples", "classes", "truth"} : Run[f] = conf[f]
  BY <1>1, <1>3, <1>4
<1> QED BY <1>3, <1>5, <1>6

(* All records are there: what Render and the report know. *)
Whole ==
  conf \in PipelineRuns /\ InOrder /\ Len(calls) = Len(conf.pairs) /\ PopulationIsExact(Run) /\ Reducible(Run)

(* The record of item i in version v. *)
RunCall(v, i) == CHOOSE c \in Range(calls) : Identity(c) = <<v, i, 0>>

(* There is one, and one only. *)
LEMMA OneCall ==
  ASSUME Whole, NEW v \in ToSet(conf.versions), NEW i \in ToSet(conf.items)
  PROVE  /\ RunCall(v, i) \in Range(calls)
         /\ RunCall(v, i).version = v /\ RunCall(v, i).item = i
         /\ \A c \in Range(calls) : c.version = v /\ c.item = i => c = RunCall(v, i)
         /\ RecordsOf(v, i) = <<RunCall(v, i)>>
<1>1. conf \in PipelineRuns /\ InOrder /\ IsList(calls) BY DEF Whole, InOrder
<1>2. DOMAIN calls = 1..Len(calls) /\ Len(calls) \in Nat BY <1>1, ListFacts DEF IsList
<1>3. \A n \in 1..Len(calls) : calls[n].sample = 0 BY <1>1 DEF InOrder
<1>4. \E n \in 1..Len(calls) : Identity(calls[n]) = <<v, i, 0>>
  <2>1. {Identity(calls[n]) : n \in DOMAIN calls} = ToSet(conf.versions) \X ToSet(conf.items) \X (0..0)
    <3>1. PopulationIsExact(Run) BY DEF Whole
    <3>2. Run.calls = calls /\ Run.versions = conf.versions /\ Run.items = conf.items /\ Run.samples - 1 = 0
      BY <1>1, RunFacts
    <3> QED BY <3>1, <3>2 DEF PopulationIsExact, VersionNames
  <2>2. <<v, i, 0>> \in ToSet(conf.versions) \X ToSet(conf.items) \X (0..0) OBVIOUS
  <2>3. <<v, i, 0>> \in {Identity(calls[n]) : n \in DOMAIN calls} BY <2>1, <2>2
  <2> QED BY <1>2, <2>3
<1>5. PICK n \in 1..Len(calls) : Identity(calls[n]) = <<v, i, 0>> BY <1>4
<1>6. \A c \in Range(calls) : \E k \in 1..Len(calls) : c = calls[k] BY <1>2 DEF Range
<1>7. calls[n] \in Range(calls) BY <1>2 DEF Range
<1> DEFINE c0 == RunCall(v, i)
<1>8. c0 \in Range(calls) /\ Identity(c0) = <<v, i, 0>> BY <1>5, <1>7 DEF RunCall
<1> HIDE DEF c0
<1>9. c0.version = v /\ c0.item = i BY <1>8 DEF Identity
<1>10. \A m, k \in 1..Len(calls) : Identity(calls[m]) = Identity(calls[k]) => m = k BY <1>1, OneRecordEach
<1>11. ASSUME NEW k \in 1..Len(calls), calls[k].version = v, calls[k].item = i PROVE k = n
  <2>1. Identity(calls[k]) = <<v, i, 0>> BY <1>3, <1>11 DEF Identity
  <2> QED BY <1>5, <1>10, <2>1
<1>12. c0 = calls[n]
  <2>1. PICK k \in 1..Len(calls) : c0 = calls[k] BY <1>6, <1>8
  <2>2. k = n BY <1>9, <1>11, <2>1
  <2> QED BY <2>1, <2>2
<1>13. \A c \in Range(calls) : c.version = v /\ c.item = i => c = c0 BY <1>6, <1>11, <1>12
<1>14. RecordsOf(v, i) = <<c0>>
  <2> DEFINE A == {c \in Range(calls) : c.version = v}
             q == OfVersion(calls, v)
             B == {c \in Range(q) : c.item = i}
  <2>1. q = Kept(calls, A) /\ RecordsOf(v, i) = Kept(q, B) BY DEF OfVersion, OfItem, RecordsOf
  <2>2. Range(q) = Range(calls) \cap A BY <1>1, <2>1, KeptMembers
  <2>3. A \cap B = {c \in Range(calls) : c.version = v /\ c.item = i} BY <2>2
  <2> HIDE DEF q, A, B
  <2>4. RecordsOf(v, i) = Kept(calls, A \cap B) BY <1>1, <2>1, KeptTwice
  <2>5. calls[n] \in A \cap B BY <1>7, <1>9, <1>12, <2>3
  <2>6. \A k \in 1..Len(calls) : calls[k] \in A \cap B => k = n BY <1>11, <2>3
  <2> DEFINE W == A \cap B
  <2> HIDE DEF W
  <2>7. calls[n] \in W /\ \A k \in 1..Len(calls) : calls[k] \in W => k = n BY <2>5, <2>6 DEF W
  <2>8. Kept(calls, W) = <<calls[n]>> BY <1>1, <2>7, KeptOne
  <2> QED BY <1>12, <2>4, <2>8 DEF W
<1> QED BY <1>8, <1>9, <1>13, <1>14 DEF c0

(* An item is clean when its record has no error. *)
LEMMA CleanFacts ==
  ASSUME Whole, NEW v \in ToSet(conf.versions), NEW i \in ToSet(conf.items)
  PROVE  Clean(v, i) <=> RunCall(v, i).error = {}
<1> DEFINE c == RunCall(v, i)
<1>1. RecordsOf(v, i) = <<c>> BY OneCall
<1>2. conf.kind # "analyzer" BY PipelineConf DEF Whole
<1> HIDE DEF c
<1>3. <<c>> # <<>> /\ DOMAIN <<c>> = {1} /\ <<c>>[1] = c OBVIOUS
<1>4. Clean(v, i) <=> c.error = {} BY <1>1, <1>2, <1>3 DEF Clean
<1> QED BY <1>4 DEF c

(* The row it is scored as. *)
RowOf(v, i) == ScoredSample(RunCall(v, i), conf.truth[i])

LEMMA RowFacts ==
  ASSUME Whole, NEW v \in ToSet(conf.versions), NEW i \in ToSet(conf.items)
  PROVE  /\ RowOf(v, i).item = i /\ RowOf(v, i).truth = conf.truth[i]
         /\ Prediction(RowOf(v, i)) = Said(RecordsOf(v, i)[1])
         /\ RowOf(v, i).valid \in BOOLEAN
         /\ RowOf(v, i).valid <=> Accepted(RecordsOf(v, i)[1])
<1> DEFINE c == RunCall(v, i) r == RowOf(v, i)
<1>1. c.item = i /\ RecordsOf(v, i) = <<c>> BY OneCall
<1>2. r = ScoredSample(c, conf.truth[i]) BY DEF RowOf
<1> HIDE DEF c, r
<1>3. RecordsOf(v, i)[1] = c BY <1>1
<1>4. r.item = i /\ r.truth = conf.truth[i] BY <1>1, <1>2 DEF ScoredSample
<1>5. r.valid = Accepted(c) BY <1>2 DEF ScoredSample, Accepted
<1>6. Accepted(c) \in BOOLEAN BY DEF Accepted
<1>7. r.prediction = IF Accepted(c) THEN c.response.class ELSE Invalid
  <2>1. CASE Accepted(c) BY <1>2, <2>1 DEF ScoredSample, Accepted
  <2>2. CASE ~Accepted(c) BY <1>2, <2>2 DEF ScoredSample, Accepted
  <2> QED BY <2>1, <2>2
<1>8. Prediction(r) = Said(c) BY <1>5, <1>7 DEF Prediction, Said
<1> QED BY <1>3, <1>4, <1>5, <1>6, <1>8 DEF r

(* The calls and the rows of a list of items are theirs, in its order. *)
LEMMA RowsFacts ==
  ASSUME Whole, NEW v \in ToSet(conf.versions), NEW q, IsList(q), Range(q) \subseteq ToSet(conf.items)
  PROVE  /\ Calls(Run, v, q) = [n \in 1..Len(q) |-> RunCall(v, q[n])]
         /\ Rows(Run, v, q) = [n \in 1..Len(q) |-> RowOf(v, q[n])]
<1>1. Run.calls = calls /\ Run.samples = 1 /\ Run.truth = conf.truth BY RunFacts DEF Whole
<1>2. Len(q) \in Nat /\ DOMAIN q = 1..Len(q) BY ListFacts DEF IsList
<1>3. \A n \in Nat : n \div 1 = n /\ n % 1 = 0 OBVIOUS
<1>4. \A n \in 1..Len(q) : (n - 1) \div 1 + 1 = n /\ (n - 1) % 1 = 0 BY <1>2, <1>3
<1>5. Len(q) * 1 = Len(q)
  <2>1. \A k \in Nat : k * 1 = k OBVIOUS
  <2> QED BY <1>2, <2>1
<1> DEFINE p == [n \in 1..Len(q) |-> RunCall(v, q[n])]
<1>6. Calls(Run, v, q) = p
  <2> DEFINE At(n) == CHOOSE c \in Range(calls) : Identity(c) = <<v, q[(n - 1) \div 1 + 1], (n - 1) % 1>>
  <2>1. Calls(Run, v, q) = [n \in 1..Len(q) * 1 |-> At(n)] BY <1>1 DEF Calls
  <2>2. ASSUME NEW n \in 1..Len(q) PROVE At(n) = RunCall(v, q[n])
    <3>1. (n - 1) \div 1 + 1 = n /\ (n - 1) % 1 = 0 BY <1>4
    <3> QED BY <3>1 DEF RunCall
  <2> HIDE DEF At
  <2>3. [n \in 1..Len(q) |-> At(n)] = [n \in 1..Len(q) |-> RunCall(v, q[n])] BY <2>2
  <2> QED BY <1>5, <2>1, <2>3
<1>7. \A n \in 1..Len(q) : p[n] = RunCall(v, q[n]) /\ q[n] \in ToSet(conf.items) BY <1>2 DEF Range
<1>8. DOMAIN p = 1..Len(q) OBVIOUS
<1> HIDE DEF p
<1>9. Rows(Run, v, q) = [n \in DOMAIN p |-> NormalizedCall(Run, p[n])] BY <1>6 DEF Rows
<1>10. ASSUME NEW n \in 1..Len(q) PROVE NormalizedCall(Run, p[n]) = RowOf(v, q[n])
  <2>1. p[n] = RunCall(v, q[n]) /\ q[n] \in ToSet(conf.items) BY <1>7
  <2>2. RunCall(v, q[n]).item = q[n] BY <2>1, OneCall
  <2> QED BY <1>1, <2>1, <2>2 DEF NormalizedCall, RowOf
<1>11. Rows(Run, v, q) = [n \in 1..Len(q) |-> RowOf(v, q[n])] BY <1>8, <1>9, <1>10
<1> QED BY <1>6, <1>11 DEF p

(* Of a list of items the scores take the clean ones, *)
LEMMA CompleteFacts ==
  ASSUME Whole, NEW v \in ToSet(conf.versions), NEW q, IsList(q), Range(q) \subseteq ToSet(conf.items)
  PROVE  /\ IsList(Complete(Run, v, q))
         /\ Range(Complete(Run, v, q)) = {i \in Range(q) : Clean(v, i)}
         /\ IsInjective(q) => IsInjective(Complete(Run, v, q))
<1>1. Run.calls = calls BY RunFacts DEF Whole
<1>2. IsList(calls) BY DEF Whole, InOrder
<1> DEFINE A == {c \in Range(calls) : c.version = v} g == OfVersion(calls, v)
<1>3. g = Kept(calls, A) BY DEF OfVersion
<1>4. Range(g) = A
  <2>1. Range(calls) \cap A = A OBVIOUS
  <2> HIDE DEF A, g
  <2>2. Range(g) = Range(calls) \cap A BY <1>2, <1>3, KeptMembers
  <2> QED BY <2>1, <2>2
<1>5. StageErrorItemIds(Run, v) = {c.item : c \in {d \in A : d.error # {}}}
  <2>1. StageErrorItemIds(Run, v) = {g[n].item : n \in {k \in DOMAIN g : g[k].error # {}}}
    BY <1>1 DEF StageErrorItemIds, StageErrorItems, Numbers
  <2>2. A = {g[n] : n \in DOMAIN g} BY <1>4 DEF Range
  <2> HIDE DEF A, g
  <2> QED BY <2>1, <2>2
<1>6. ASSUME NEW i \in Range(q) PROVE i \in StageErrorItemIds(Run, v) <=> ~Clean(v, i)
  <2>1. i \in ToSet(conf.items) OBVIOUS
  <2> DEFINE c == RunCall(v, i)
  <2>2. /\ c \in Range(calls) /\ c.version = v /\ c.item = i
        /\ \A d \in Range(calls) : d.version = v /\ d.item = i => d = c
    BY <2>1, OneCall
  <2>3. Clean(v, i) <=> c.error = {} BY <2>1, CleanFacts
  <2> HIDE DEF c
  <2>4. ASSUME i \in StageErrorItemIds(Run, v) PROVE c.error # {}
    <3>1. PICK d \in A : d.error # {} /\ d.item = i BY <1>5, <2>4
    <3>2. d = c BY <2>2, <3>1
    <3> QED BY <3>1, <3>2
  <2>5. ASSUME c.error # {} PROVE i \in StageErrorItemIds(Run, v) BY <1>5, <2>2, <2>5
  <2> QED BY <2>3, <2>4, <2>5
<1> DEFINE W == Range(q) \ StageErrorItemIds(Run, v) k == Complete(Run, v, q)
<1>7. k = Kept(q, W) BY DEF Complete
<1>8. Range(q) \cap W = {i \in Range(q) : Clean(v, i)} BY <1>6
<1> HIDE DEF W, k
<1>9. IsList(k) /\ Range(k) = Range(q) \cap W /\ (IsInjective(q) => IsInjective(k)) BY <1>7, KeptMembers
<1> QED BY <1>8, <1>9 DEF k

(* each once. *)
LEMMA CleanList ==
  ASSUME Whole, NEW v \in ToSet(conf.versions), NEW q, q = Complete(Run, v, Run.items)
  PROVE  /\ IsList(q) /\ Range(q) = CleanItems(v) /\ IsInjective(q)
         /\ Len(q) = Cardinality(CleanItems(v)) /\ IsFiniteSet(CleanItems(v))
<1>1. IsList(conf.items) /\ IsInjective(conf.items) /\ Run.items = conf.items BY PipelineLists, RunFacts DEF Whole
<1>2. Range(conf.items) = ToSet(conf.items) BY DEF Range, ToSet
<1>3. /\ IsList(q) /\ IsInjective(q)
      /\ Range(q) = {i \in Range(conf.items) : Clean(v, i)}
  BY <1>1, <1>2, CompleteFacts
<1>4. Range(q) = CleanItems(v) BY <1>2, <1>3 DEF CleanItems
<1>5. Len(q) \in Nat /\ DOMAIN q = 1..Len(q) BY <1>3, ListFacts DEF IsList
<1>6. IsFiniteSet(1..Len(q)) /\ Cardinality(1..Len(q)) = Len(q) BY <1>5, Upto
<1> DEFINE D == 1..Len(q) R == {q[n] : n \in D}
<1>7. Range(q) = R BY <1>5 DEF Range
<1>8. DOMAIN q = D /\ IsFiniteSet(D) /\ \A n, m \in D : q[n] = q[m] => n = m BY <1>3, <1>5, <1>6 DEF IsInjective
<1> HIDE DEF D
<1>9. IsFiniteSet(R) /\ Cardinality(R) = Cardinality(D) BY <1>8, Numbered
<1> QED BY <1>3, <1>4, <1>6, <1>7, <1>9 DEF D

(* A row of L and a place in it give their number back. *)
LEMMA RowAndPlace ==
  ASSUME NEW L \in Nat \ {0}, NEW a \in Nat, NEW b \in 0..L - 1
  PROVE  /\ L * a + b \in Nat
         /\ (L * a + b) \div L = a /\ (L * a + b) % L = b
<1> DEFINE x == L * a + b d == x \div L m == x % L
<1>1. L \in Nat /\ L > 0 /\ b \in Nat /\ b < L OBVIOUS
<1>2. L * a \in Nat BY <1>1
<1>3. x \in Nat BY <1>1, <1>2
<1>4. \A y \in Nat : y \div L \in Nat /\ y % L \in 0..L - 1 /\ y = L * (y \div L) + (y % L) BY <1>1
<1>5. x = L * a + b OBVIOUS
<1> HIDE DEF x
<1>6. d \in Nat /\ m \in 0..L - 1 /\ x = L * d + m BY <1>3, <1>4
<1> HIDE DEF d, m
<1>7. ASSUME NEW p \in Nat, NEW q \in Nat, p < q PROVE L * p + L <= L * q
  <2>1. p + 1 <= q BY <1>7
  <2>2. (p + 1) * L <= q * L BY <1>1, <2>1, Products
  <2>3. (p + 1) * L = L * p + L /\ q * L = L * q BY <1>1
  <2> QED BY <2>2, <2>3
<1>8. L * d \in Nat BY <1>1, <1>6
<1>9. ~(d < a)
  <2> SUFFICES ASSUME d < a PROVE FALSE OBVIOUS
  <2>1. L * d + L <= L * a BY <1>6, <1>7
  <2> QED BY <1>1, <1>2, <1>5, <1>6, <1>8, <2>1
<1>10. ~(a < d)
  <2> SUFFICES ASSUME a < d PROVE FALSE OBVIOUS
  <2>1. L * a + L <= L * d BY <1>6, <1>7
  <2> QED BY <1>1, <1>2, <1>5, <1>6, <1>8, <2>1
<1>11. d = a BY <1>6, <1>9, <1>10
<1>12. m = b BY <1>1, <1>2, <1>5, <1>6, <1>11
<1> QED BY <1>3, <1>11, <1>12 DEF x, d, m

(* The records of a version, as they were written, are those of its items in
   their order. *)
LEMMA VersionCalls ==
  ASSUME Whole, NEW v \in ToSet(conf.versions)
  PROVE  Calls(Run, v, Run.items) = OfVersion(calls, v)
<1> DEFINE I == conf.items V == conf.versions K == Len(I) L == Len(V)
           A == {c \in Range(calls) : c.version = v}
           S == {n \in 1..Len(calls) : calls[n] \in A}
<1>1. conf \in PipelineRuns /\ InOrder /\ IsList(calls) /\ Len(calls) = Len(conf.pairs) BY DEF Whole, InOrder
<1>2. /\ IsList(I) /\ I # <<>> /\ IsList(V) /\ V # <<>> /\ IsInjective(V)
      /\ conf.pairs = Product(I, V) /\ Run.items = I
  BY <1>1, PipelineLists, RunFacts
<1>3. DOMAIN calls = 1..Len(calls) BY <1>1, ListFacts DEF IsList
<1>4. /\ \A n \in 1..Len(calls) : calls[n].item = conf.pairs[n][1] /\ calls[n].version = conf.pairs[n][2]
  BY <1>1 DEF InOrder
<1> HIDE DEF I, V
<1>5. K \in Nat /\ L \in Nat \ {0} /\ DOMAIN I = 1..K /\ DOMAIN V = 1..L BY <1>2 DEF IsList
<1> HIDE DEF K, L
<1> DEFINE First(n) == ((n - 1) \div L) + 1  Second(n) == ((n - 1) % L) + 1
<1>6. conf.pairs = [n \in 1..K * L |-> <<I[First(n)], V[Second(n)]>>] BY <1>2 DEF Product, K, L
<1>7. Len(calls) = K * L /\ K * L \in Nat
  <2>1. \A x \in Nat, y \in Nat : x * y \in Nat OBVIOUS
  <2>2. K * L \in Nat BY <1>5, <2>1
  <2>3. DOMAIN conf.pairs = 1..K * L BY <1>6
  <2>4. DOMAIN conf.pairs = 1..Len(conf.pairs) /\ Len(conf.pairs) \in Nat BY <1>1, PipelineConf
  <2>5. Len(conf.pairs) = K * L BY <2>2, <2>3, <2>4
  <2> QED BY <1>1, <2>2, <2>5
<1>8. \A n \in 1..K * L : First(n) \in 1..K /\ Second(n) \in 1..L BY <1>5, Places
<1>9. \A n \in 1..K * L : calls[n].item = I[First(n)] /\ calls[n].version = V[Second(n)] BY <1>4, <1>6, <1>7
<1>10. PICK J \in 1..L : V[J] = v BY <1>5 DEF ToSet, V
<1> DEFINE r == [k \in 1..K |-> L * (k - 1) + J]
<1>11. ASSUME NEW k \in 1..K
       PROVE  /\ L * (k - 1) + J \in 1..K * L
              /\ First(L * (k - 1) + J) = k /\ Second(L * (k - 1) + J) = J
  <2> DEFINE a == k - 1 b == J - 1 n == L * a + J
  <2>1. a \in Nat /\ a + 1 <= K /\ b \in 0..L - 1 BY <1>5
  <2>2. L * a + b \in Nat /\ (L * a + b) \div L = a /\ (L * a + b) % L = b
    <3> HIDE DEF a, b
    <3> QED BY <1>5, <2>1, RowAndPlace
  <2>3. L * a \in Nat
    <3> HIDE DEF a
    <3> QED BY <1>5, <2>1
  <2>4. n - 1 = L * a + b BY <1>5, <2>3
  <2>5. n <= K * L
    <3> HIDE DEF a
    <3>1. (a + 1) * L <= K * L BY <1>5, <2>1, Products
    <3>2. (a + 1) * L = L * a + L BY <1>5, <2>1
    <3>3. J <= L BY <1>5
    <3> QED BY <1>5, <1>7, <2>3, <3>1, <3>2, <3>3
  <2>6. n \in 1..K * L BY <1>5, <1>7, <2>3, <2>5
  <2> QED BY <2>2, <2>4, <2>6
<1>12. \A n \in 1..K * L : n \in S <=> Second(n) = J
  <2> SUFFICES ASSUME NEW n \in 1..K * L PROVE n \in S <=> Second(n) = J OBVIOUS
  <2>1. calls[n] \in Range(calls) BY <1>3, <1>7 DEF Range
  <2>2. n \in S <=> V[Second(n)] = v BY <1>7, <1>9, <2>1
  <2>3. Second(n) \in 1..L BY <1>8
  <2> HIDE DEF Second, S
  <2>4. V[Second(n)] = v <=> Second(n) = J BY <1>2, <1>5, <1>10, <2>3 DEF IsInjective
  <2> QED BY <2>2, <2>4
<1>13. \A n \in S : n \in 1..K * L BY <1>7
<1> HIDE DEF S
<1>14. Lists(r, K, S)
  <2>1. ASSUME NEW k \in 1..K PROVE r[k] \in S BY <1>11, <1>12
  <2>2. ASSUME NEW n \in S PROVE \E k \in 1..K : r[k] = n
    <3> DEFINE k == First(n) a == (n - 1) \div L
    <3>1. n \in 1..K * L /\ Second(n) = J /\ k \in 1..K BY <1>8, <1>12, <1>13
    <3>2. n - 1 \in Nat /\ n - 1 = L * a + ((n - 1) % L) BY <1>5, <1>7, <3>1
    <3>3. L * a \in Int BY <1>5, <3>1
    <3>4. (n - 1) % L = J - 1 BY <1>5, <3>1
    <3> HIDE DEF a
    <3>5. n = L * a + J
      <4>1. n \in Int /\ J \in Int BY <1>7, <3>1
      <4>2. n - 1 = L * a + (J - 1) BY <3>2, <3>4
      <4> DEFINE z == L * a
      <4> HIDE DEF z
      <4>3. n = z + J BY <3>3, <4>1, <4>2 DEF z
      <4> QED BY <4>3 DEF z
    <3>6. k - 1 = a
      <4>1. a \in Int BY <1>5, <3>1 DEF a
      <4> QED BY <4>1 DEF a
    <3>7. r[k] = n BY <3>1, <3>5, <3>6
    <3> QED BY <3>1, <3>7
  <2>3. ASSUME NEW k \in 1..K, NEW l \in 1..K, k < l PROVE r[k] < r[l]
    <3> DEFINE a == k - 1 b == l - 1
    <3>1. a \in Nat /\ b \in Nat /\ a < b BY <1>5, <2>3
    <3>2. r[k] = L * a + J /\ r[l] = L * b + J OBVIOUS
    <3> HIDE DEF a, b, r
    <3>3. a * L < b * L BY <1>5, <3>1, Products
    <3>4. a * L = L * a /\ b * L = L * b /\ L * a \in Int /\ L * b \in Int BY <1>5, <3>1
    <3> QED BY <1>5, <3>2, <3>3, <3>4
  <2> QED BY <1>5, <2>1, <2>2, <2>3 DEF Lists
<1>15. OfVersion(calls, v) = [k \in 1..K |-> calls[r[k]]]
  <2>1. OfVersion(calls, v) = Kept(calls, A) BY DEF OfVersion
  <2> DEFINE T == {n \in 1..Len(calls) : calls[n] \in A} g == Kept(calls, A)
  <2>2. Chosen(calls, T, g)
    <3> HIDE DEF A
    <3> QED BY <1>1, KeptPlaces
  <2>3. T = S BY DEF S
  <2> HIDE DEF T, g, A
  <2>4. PICK M, t : Lists(t, M, S) /\ g = [k \in 1..M |-> calls[t[k]]] BY <2>2, <2>3 DEF Chosen
  <2>5. S \subseteq Nat BY <1>7, <1>13
  <2> HIDE DEF r
  <2>6. K = M /\ r = t BY <1>14, <2>4, <2>5, OneOrder
  <2> QED BY <2>1, <2>4, <2>6 DEF g
<1>16. Calls(Run, v, I) = [k \in 1..K |-> RunCall(v, I[k])]
  <2>1. Range(I) \subseteq ToSet(conf.items) BY DEF I, Range, ToSet
  <2> QED BY <1>2, <2>1, RowsFacts DEF K
<1>17. ASSUME NEW k \in 1..K PROVE calls[r[k]] = RunCall(v, I[k])
  <2> DEFINE n == L * (k - 1) + J
  <2>1. r[k] = n /\ n \in 1..K * L /\ First(n) = k /\ Second(n) = J BY <1>11
  <2> HIDE DEF n, r, First, Second
  <2>2. calls[n].item = I[k] /\ calls[n].version = v BY <1>9, <1>10, <2>1
  <2>3. calls[n] \in Range(calls) BY <1>3, <1>7, <2>1 DEF Range
  <2>4. I[k] \in ToSet(conf.items) BY <1>5 DEF ToSet, I
  <2>5. calls[n] = RunCall(v, I[k]) BY <2>2, <2>3, <2>4, OneCall
  <2> QED BY <2>1, <2>5
<1> QED BY <1>2, <1>15, <1>16, <1>17

-----------------------------------------------------------------------------
(* The comparison of a pipeline candidate with the baseline. *)

(* The evidence about macro-F1. *)
MacroEvidence(run, name, paired, draws) ==
  LET base == Bundles(run, run.baseline, paired)
      cand == Bundles(run, name, paired)
  IN MetricEvidence(base, cand, paired, [b \in Samples(base, cand) |-> Statistic(run, "macro_f1", b)], draws)

(* What a promotion rests on. *)
LEMMA ComparisonFacts ==
  ASSUME NEW run, NEW name, NEW draws, NEW c, c = Comparison(run, name, draws)
  PROVE  /\ c.paired = PairedItems(run, name)
         /\ c.promotable =>
              /\ PairedItems(run, name) # <<>>
              /\ ~Less(MacroEvidence(run, name, PairedItems(run, name), draws).lo, <<0, 1>>)
              /\ ~Less(SchemaValidity(Rows(run, name, Complete(run, name, run.items))), <<99, 100>>)
<1> DEFINE paired == PairedItems(run, name)
           base == Bundles(run, run.baseline, paired)
           cand == Bundles(run, name, paired)
           complete == Complete(run, name, run.items)
           validity == SchemaValidity(Rows(run, name, complete))
           sides == Samples(base, cand)
           Evidence(m) == MetricEvidence(base, cand, paired, [b \in sides |-> Statistic(run, m, b)], draws)
           OfClass(l, rate) ==
             MetricEvidence(base, cand, paired, [b \in sides |-> PerClass(FlattenScored(b), l)[rate]], draws)
           population == [paired |-> paired, complete |-> complete, validity |-> validity,
                          excluded |-> Range(run.items) \ Range(paired)]
           none == [promotable |-> FALSE, reason |-> "no pairs", metrics |-> <<>>]
           ev == [m \in MetricNames |-> Evidence(m)]
           recalls == [l \in run.classes |-> OfClass(l, "recall")]
           scored == UNION {ToSet(b.scored) : b \in Range(base) \cup Range(cand)}
           verdict == PromotionVerdict(ev["macro_f1"], validity, recalls)
           f1 == [l \in run.classes |-> OfClass(l, "f1")]
           flips == [validity |-> PairedBinary(base, cand, [r \in scored |-> {r.valid}]),
                     recall |-> [l \in run.classes |-> PairedBinary(base, cand,
                        [r \in scored |-> IF r.truth = l THEN {r.prediction = l} ELSE {}])]]
           all == [promotable |-> verdict = "promotable", reason |-> verdict, metrics |-> ev,
                   f1 |-> f1, recalls |-> recalls, flips |-> flips]
<1>1. c = IF paired = <<>> THEN With(population, none) ELSE With(population, all) BY DEF Comparison
<1>2. population.paired = paired /\ DOMAIN population = {"paired", "complete", "validity", "excluded"}
  <2> HIDE DEF complete, validity
  <2> QED OBVIOUS
<1>3. none.promotable = FALSE /\ DOMAIN none = {"promotable", "reason", "metrics"} OBVIOUS
<1>4. /\ all.promotable = (verdict = "promotable")
      /\ DOMAIN all = {"promotable", "reason", "metrics", "f1", "recalls", "flips"}
  OBVIOUS
<1>5. verdict = "promotable" => ~Less(ev["macro_f1"].lo, <<0, 1>>) /\ ~Less(validity, <<99, 100>>)
  BY DEF PromotionVerdict
<1>6. ev["macro_f1"] = Evidence("macro_f1") BY DEF MetricNames
<1> HIDE DEF population, none, all
<1>7. c.paired = paired
  <2>1. CASE paired = <<>> BY <1>1, <1>2, <1>3, <2>1, WithField
  <2>2. CASE paired # <<>> BY <1>1, <1>2, <1>4, <2>2, WithField
  <2> QED BY <2>1, <2>2
<1>8. paired = <<>> => c.promotable = FALSE BY <1>1, <1>3, WithField
<1>9. paired # <<>> => c.promotable = (verdict = "promotable") BY <1>1, <1>4, WithField
<1>10. Evidence("macro_f1") = MacroEvidence(run, name, paired, draws) BY DEF MacroEvidence
<1> HIDE DEF verdict, ev, validity, Evidence, paired
<1>11. c.promotable => paired # <<>> BY <1>8
<1>12. c.promotable => verdict = "promotable" BY <1>9, <1>11
<1>13. c.promotable => ~Less(Evidence("macro_f1").lo, <<0, 1>>) /\ ~Less(validity, <<99, 100>>)
  BY <1>5, <1>6, <1>12
<1> QED BY <1>7, <1>10, <1>11, <1>13 DEF validity, paired

(* The rows of the items p, one after the other. *)
RowsOf(v, K, T, q) == \E p \in [1..K -> T] : q = [n \in 1..K |-> RowOf(v, p[n])]

(* What is drawn are the rows of some of the paired items. *)
LEMMA SampledRows ==
  ASSUME Whole, NEW v \in ToSet(conf.versions), NEW paired, IsList(paired), Range(paired) \subseteq ToSet(conf.items),
         NEW s \in [1..Len(paired) -> Range(Bundles(Run, v, paired))]
  PROVE  RowsOf(v, Len(paired), ToSet(paired), FlattenScored(s))
<1> DEFINE K == Len(paired) B == Bundles(Run, v, paired) T == ToSet(paired)
           p == [n \in 1..K |-> s[n].item]
<1>1. K \in Nat /\ T = Range(paired) BY ListFacts DEF IsList, ToSet, Range
<1>2. ASSUME NEW i \in T PROVE B[i].item = i /\ B[i].scored = <<RowOf(v, i)>>
  <2>1. B[i].item = i /\ B[i].scored = Rows(Run, v, <<i>>) BY DEF Bundles
  <2> DEFINE q == <<i>>
  <2>2. Len(q) = 1 /\ q[1] = i /\ q \in Seq({i}) /\ Range(q) = {i} BY DEF Range
  <2> HIDE DEF q
  <2>3. IsList(q) /\ Range(q) \subseteq ToSet(conf.items) BY <1>1, <2>2, ListFacts
  <2>4. Rows(Run, v, q) = [n \in 1..1 |-> RowOf(v, q[n])] BY <2>2, <2>3, RowsFacts
  <2>5. [n \in 1..1 |-> RowOf(v, q[n])] = <<RowOf(v, i)>>
    <3>1. \A n \in 1..1 : q[n] = i BY <2>2
    <3>2. [n \in 1..1 |-> RowOf(v, q[n])] = [n \in 1..1 |-> RowOf(v, i)] BY <3>1
    <3> DEFINE x == RowOf(v, i)
    <3> HIDE DEF x
    <3>3. [n \in 1..1 |-> x] = <<x>> OBVIOUS
    <3> QED BY <3>2, <3>3 DEF x
  <2> QED BY <2>1, <2>4, <2>5 DEF q
<1>3. DOMAIN B = T BY DEF Bundles
<1> HIDE DEF B
<1>4. ASSUME NEW n \in 1..K PROVE s[n].item \in T /\ s[n].scored = <<RowOf(v, s[n].item)>>
  <2>1. s[n] \in Range(B) BY DEF B
  <2>2. PICK i \in T : s[n] = B[i] BY <1>3, <2>1 DEF Range
  <2> QED BY <1>2, <2>2
<1>5. p \in [1..K -> T] BY <1>4
<1> DEFINE x == [n \in 1..K |-> RowOf(v, p[n])] t == [n \in DOMAIN s |-> s[n].scored]
<1>6. DOMAIN s = 1..K OBVIOUS
<1>7. t = [n \in 1..K |-> <<x[n]>>] BY <1>4, <1>6
<1>8. FlattenScored(s) = FlattenSeq(t) BY DEF FlattenScored
<1>9. x = [n \in 1..K |-> x[n]] OBVIOUS
<1> HIDE DEF K, x, t
<1>10. FlattenSeq(t) = [n \in 1..K |-> x[n]] BY <1>1, <1>7, FlattenOnes
<1>11. FlattenScored(s) = x BY <1>8, <1>9, <1>10
<1> HIDE DEF p
<1>12. x = [n \in 1..K |-> RowOf(v, p[n])] BY DEF x
<1> QED BY <1>5, <1>11, <1>12 DEF RowsOf, K

(* The compared items are clean in both versions. *)
LEMMA PairedFacts ==
  ASSUME Whole, NEW v \in ToSet(conf.versions), NEW paired, paired = PairedItems(Run, v)
  PROVE  /\ IsList(paired) /\ DOMAIN paired = 1..Len(paired) /\ Len(paired) \in Nat
         /\ Range(paired) \subseteq ToSet(conf.items)
         /\ \A i \in Range(paired) : Clean(conf.baseline, i) /\ Clean(v, i)
<1>1. /\ Run.items = conf.items /\ Run.baseline = conf.baseline /\ conf.baseline \in ToSet(conf.versions)
      /\ IsList(conf.items) /\ Range(conf.items) = ToSet(conf.items)
  BY PipelineLists, RunFacts DEF Whole, Range, ToSet
<1> DEFINE q == Complete(Run, conf.baseline, conf.items)
<1>2. IsList(q) /\ Range(q) = {i \in Range(conf.items) : Clean(conf.baseline, i)} BY <1>1, CompleteFacts
<1>3. paired = Complete(Run, v, q) BY <1>1 DEF PairedItems
<1>4. Range(q) \subseteq ToSet(conf.items) BY <1>1, <1>2
<1> HIDE DEF q
<1>5. IsList(paired) /\ Range(paired) = {i \in Range(q) : Clean(v, i)} BY <1>2, <1>3, <1>4, CompleteFacts
<1> QED BY <1>2, <1>4, <1>5, ListFacts DEF IsList

(* Where the baseline is right and the candidate wrong about every compared item
   the interval is below zero. *)
LEMMA LosingPipeline ==
  ASSUME Whole, NEW v \in ToSet(conf.versions), NEW paired, paired = PairedItems(Run, v), paired # <<>>,
         NEW draws \in Draws(paired, Resamples),
         \A n \in DOMAIN paired : Right(conf.baseline, paired[n]) /\ Hopeless(v, paired[n])
  PROVE  Less(MacroEvidence(Run, v, paired, draws).lo, <<0, 1>>)
<1> DEFINE base == Bundles(Run, Run.baseline, paired) cand == Bundles(Run, v, paired)
           stat == [b \in Samples(base, cand) |-> Statistic(Run, "macro_f1", b)]
           T == ToSet(paired) K == Len(paired) b0 == conf.baseline
<1>1. /\ IsList(paired) /\ DOMAIN paired = 1..K /\ K \in Nat
      /\ Range(paired) \subseteq ToSet(conf.items)
      /\ \A i \in Range(paired) : Clean(b0, i) /\ Clean(v, i)
  BY PairedFacts
<1>2. T = Range(paired) BY DEF ToSet, Range
<1>3. /\ Run.baseline = b0 /\ b0 \in ToSet(conf.versions) /\ Run.classes = conf.classes /\ IsFiniteSet(conf.classes)
      /\ conf.kind # "analyzer"
  BY RunFacts, PipelineLists, PipelineConf DEF Whole
<1>4. DOMAIN base = T /\ DOMAIN cand = T BY DEF Bundles
<1>5. K # 0 BY <1>1 DEF IsList
<1>6. ASSUME NEW i \in T
      PROVE /\ Prediction(RowOf(b0, i)) = RowOf(b0, i).truth /\ RowOf(b0, i).truth \in conf.classes
            /\ Prediction(RowOf(v, i)) # RowOf(v, i).truth
  <2>1. PICK k \in DOMAIN paired : i = paired[k] BY <1>2 DEF Range
  <2>2. i \in ToSet(conf.items) BY <1>1, <1>2
  <2>3. Said(RecordsOf(b0, i)[1]) = conf.truth[i] /\ Said(RecordsOf(v, i)[1]) # conf.truth[i]
    BY <1>3, <2>1 DEF Right, Hopeless
  <2>4. /\ RowOf(b0, i).truth = conf.truth[i] /\ Prediction(RowOf(b0, i)) = Said(RecordsOf(b0, i)[1])
        /\ RowOf(v, i).truth = conf.truth[i] /\ Prediction(RowOf(v, i)) = Said(RecordsOf(v, i)[1])
    BY <1>3, <2>2, RowFacts
  <2> DEFINE q == Complete(Run, b0, Run.items)
  <2>5. IsList(q) /\ Range(q) = CleanItems(b0) BY <1>3, CleanList
  <2>6. \A n \in DOMAIN Rows(Run, b0, q) : Rows(Run, b0, q)[n].truth \in conf.classes
    <3>1. Reducible(Run) /\ Run.versions = conf.versions BY RunFacts DEF Whole
    <3> QED BY <1>3, <3>1 DEF Reducible, VersionNames
  <2> HIDE DEF q
  <2>7. Range(q) \subseteq ToSet(conf.items) BY <2>5 DEF CleanItems
  <2>8. Rows(Run, b0, q) = [n \in 1..Len(q) |-> RowOf(b0, q[n])] BY <1>3, <2>5, <2>7, RowsFacts
  <2>9. i \in Range(q) BY <1>1, <1>2, <2>2, <2>5 DEF CleanItems
  <2>10. PICK n \in 1..Len(q) : q[n] = i
    <3>1. DOMAIN q = 1..Len(q) BY <2>5, ListFacts DEF IsList
    <3> QED BY <2>9, <3>1 DEF Range
  <2>11. RowOf(b0, i).truth \in conf.classes BY <2>6, <2>8, <2>10
  <2> QED BY <2>3, <2>4, <2>11
<1> HIDE DEF T, b0
<1>7. \A s : s \in Samples(base, cand) => stat[s] = MacroF1(FlattenScored(s), conf.classes) BY <1>3 DEF Statistic
<1>8. ASSUME NEW b, NEW s \in [1..K -> Range(b)], b \in {base, cand}
      PROVE  s \in Samples(base, cand)
  <2> DEFINE U == Range(base) \cup Range(cand)
  <2>1. \A n \in 1..K : s[n] \in U BY <1>8
  <2>2. s \in [1..K -> U] BY <2>1
  <2> HIDE DEF U
  <2>3. s \in Seq(U) BY <1>1, <2>2
  <2> QED BY <2>3 DEF Samples, U
<1> HIDE DEF stat
<1>9. ASSUME NEW s \in [1..K -> Range(base)] PROVE stat[s] \in Positive
  <2> DEFINE q == FlattenScored(s)
  <2>1. stat[s] = MacroF1(q, conf.classes) BY <1>7, <1>8
  <2>2. RowsOf(b0, K, T, q) BY <1>1, <1>3, SampledRows DEF T
  <2> HIDE DEF q
  <2>3. PICK p \in [1..K -> T] : q = [n \in 1..K |-> RowOf(b0, p[n])] BY <2>2 DEF RowsOf
  <2>4. IsList(q) /\ DOMAIN q = 1..K
    <3>1. \A n \in DOMAIN q : q[n] \in Range(q) BY DEF Range
    <3>2. q \in [1..K -> Range(q)] BY <2>3, <3>1
    <3>3. q \in Seq(Range(q)) BY <1>1, <3>2
    <3> QED BY <2>3, <3>3 DEF IsList
  <2>5. \A n \in 1..K : Prediction(q[n]) = q[n].truth /\ q[n].truth \in conf.classes BY <1>6, <2>3
  <2>6. \E n \in DOMAIN q : Prediction(q[n]) = q[n].truth /\ q[n].truth \in conf.classes
    <3>1. 1 \in 1..K BY <1>1, <1>5
    <3> QED BY <2>4, <2>5, <3>1
  <2>7. MacroF1(q, conf.classes) \in Positive BY <1>3, <2>4, <2>6, MacroFacts
  <2> QED BY <2>1, <2>7
<1>10. ASSUME NEW s \in [1..K -> Range(cand)] PROVE stat[s] \in Naught
  <2> DEFINE q == FlattenScored(s)
  <2>1. stat[s] = MacroF1(q, conf.classes) BY <1>7, <1>8
  <2>2. RowsOf(v, K, T, q) BY <1>1, SampledRows DEF T
  <2> HIDE DEF q
  <2>3. PICK p \in [1..K -> T] : q = [n \in 1..K |-> RowOf(v, p[n])] BY <2>2 DEF RowsOf
  <2>4. IsList(q) /\ DOMAIN q = 1..K
    <3>1. \A n \in DOMAIN q : q[n] \in Range(q) BY DEF Range
    <3>2. q \in [1..K -> Range(q)] BY <2>3, <3>1
    <3>3. q \in Seq(Range(q)) BY <1>1, <3>2
    <3> QED BY <2>3, <3>3 DEF IsList
  <2>5. \A n \in DOMAIN q : Prediction(q[n]) # q[n].truth BY <1>6, <2>3
  <2>6. MacroF1(q, conf.classes) \in Naught BY <1>3, <2>4, <2>5, MacroFacts
  <2> QED BY <2>1, <2>6
<1> DEFINE i == PairedDeltaCI(base, cand, paired, stat, draws)
<1>11. Less(i.lo, <<0, 1>>)
  <2> HIDE DEF base, cand
  <2>1. Resamples \in Nat \ {0} BY PipelineAssumption
  <2> QED BY <1>1, <1>4, <1>9, <1>10, <2>1, LosingInterval DEF T
<1>12. MacroEvidence(Run, v, paired, draws).lo = i.lo
  <2> DEFINE more == [baseline |-> stat[[n \in DOMAIN paired |-> base[paired[n]]]],
                      candidate |-> stat[[n \in DOMAIN paired |-> cand[paired[n]]]], items |-> Len(paired)]
  <2>1. MacroEvidence(Run, v, paired, draws) = With(i, more) BY DEF MacroEvidence, MetricEvidence, stat
  <2>2. DOMAIN more = {"baseline", "candidate", "items"} OBVIOUS
  <2>3. "lo" \in DOMAIN i BY DEF PairedDeltaCI
  <2> HIDE DEF more, i
  <2> QED BY <2>1, <2>2, <2>3, WithField
<1> QED BY <1>11, <1>12

(* No pipeline candidate is promoted without evidence. *)
LEMMA PipelineSound ==
  ASSUME Whole, NEW draws \in Generated(Run, Resamples), NEW v \in Candidates(Run)
  PROVE  Sound(v, Comparison(Run, v, draws[v]))
<1> DEFINE paired == PairedItems(Run, v) c == Comparison(Run, v, draws[v]) complete == Complete(Run, v, Run.items)
           q == Rows(Run, v, complete)
<1>1. conf.kind = "pipeline" /\ v \in ToSet(conf.versions) /\ Run.baseline = conf.baseline
  BY PipelineConf, RunFacts DEF Whole, Candidates, VersionNames
<1>2. draws[v] \in Draws(paired, Resamples) BY DEF Generated
<1>3. /\ c.paired = paired
      /\ c.promotable => /\ paired # <<>>
                         /\ ~Less(MacroEvidence(Run, v, paired, draws[v]).lo, <<0, 1>>)
                         /\ ~Less(SchemaValidity(q), <<99, 100>>)
  BY ComparisonFacts
<1>4. DOMAIN paired = 1..Len(paired) /\ \A i \in Range(paired) : Clean(conf.baseline, i) /\ Clean(v, i)
  BY <1>1, PairedFacts
<1>5. \A n \in DOMAIN paired : Clean(conf.baseline, paired[n]) /\ Clean(v, paired[n]) BY <1>4 DEF Range
<1>6. ASSUME c.promotable
      PROVE  \E n \in DOMAIN paired : ~(Right(conf.baseline, paired[n]) /\ Hopeless(v, paired[n]))
  <2> SUFFICES ASSUME \A n \in DOMAIN paired : Right(conf.baseline, paired[n]) /\ Hopeless(v, paired[n])
               PROVE  FALSE
    OBVIOUS
  <2> HIDE DEF c, paired
  <2>1. paired = PairedItems(Run, v) /\ paired # <<>> BY <1>3, <1>6 DEF paired
  <2>2. Less(MacroEvidence(Run, v, paired, draws[v]).lo, <<0, 1>>) BY <1>1, <1>2, <2>1, LosingPipeline
  <2> QED BY <1>3, <1>6, <2>2
<1>7. ASSUME c.promotable
      PROVE  100 * Cardinality({i \in CleanItems(v) : ~Accepted(RecordsOf(v, i)[1])}) <= Cardinality(CleanItems(v))
  <2>1. ~Less(SchemaValidity(q), <<99, 100>>) BY <1>3, <1>7
  <2>2. /\ IsList(complete) /\ Range(complete) = CleanItems(v) /\ IsInjective(complete)
        /\ Len(complete) = Cardinality(CleanItems(v))
    BY <1>1, CleanList
  <2>3. Len(complete) \in Nat /\ DOMAIN complete = 1..Len(complete) BY <2>2, ListFacts DEF IsList
  <2>4. q = [n \in 1..Len(complete) |-> RowOf(v, complete[n])]
    <3>1. Range(complete) \subseteq ToSet(conf.items) BY <2>2 DEF CleanItems
    <3> HIDE DEF complete
    <3> QED BY <1>1, <2>2, <3>1, RowsFacts
  <2> HIDE DEF q, complete
  <2>5. IsList(q) /\ Len(q) = Len(complete) /\ DOMAIN q = 1..Len(complete)
    <3>1. \A n \in DOMAIN q : q[n] \in Range(q) BY DEF Range
    <3>2. q \in [1..Len(complete) -> Range(q)] BY <2>4, <3>1
    <3>3. q \in Seq(Range(q)) /\ Len(q) = Len(complete) BY <2>3, <3>2
    <3> QED BY <2>4, <3>3 DEF IsList
  <2>6. ASSUME NEW n \in 1..Len(complete)
        PROVE  /\ complete[n] \in CleanItems(v) /\ q[n].valid \in BOOLEAN
               /\ q[n].valid <=> Accepted(RecordsOf(v, complete[n])[1])
    <3>1. complete[n] \in Range(complete) BY <2>3 DEF Range
    <3>2. complete[n] \in CleanItems(v) /\ complete[n] \in ToSet(conf.items) BY <2>2, <3>1 DEF CleanItems
    <3> QED BY <1>1, <2>4, <3>2, RowFacts
  <2> DEFINE N == {n \in DOMAIN q : ~q[n].valid}
             refused == {i \in CleanItems(v) : ~Accepted(RecordsOf(v, i)[1])}
  <2>7. 100 * Cardinality(N) <= Len(q)
    <3>1. \A n \in DOMAIN q : q[n].valid \in BOOLEAN BY <2>5, <2>6
    <3> QED BY <2>1, <2>5, <3>1, ValidityFacts
  <2>8. Cardinality(refused) = Cardinality(N)
    <3> DEFINE h == [n \in N |-> complete[n]]
    <3>1. \A n \in N : n \in 1..Len(complete) BY <2>5
    <3>2. \A n, m \in N : h[n] = h[m] => n = m BY <2>2, <2>3, <3>1 DEF IsInjective
    <3>3. {h[n] : n \in N} = refused
      <4>1. ASSUME NEW n \in N PROVE h[n] \in refused BY <2>6, <3>1
      <4>2. ASSUME NEW i \in refused PROVE \E n \in N : h[n] = i
        <5>1. i \in Range(complete) BY <2>2
        <5>2. PICK n \in 1..Len(complete) : complete[n] = i BY <2>3, <5>1 DEF Range
        <5>3. n \in N BY <2>5, <2>6, <5>2
        <5> QED BY <5>2, <5>3
      <4> HIDE DEF h, N, refused
      <4> QED BY <4>1, <4>2
    <3>4. IsFiniteSet(N) BY <2>5, TallyFacts
    <3>5. DOMAIN h = N OBVIOUS
    <3> HIDE DEF h, N, refused
    <3>6. Cardinality({h[n] : n \in N}) = Cardinality(N) BY <3>2, <3>4, <3>5, Numbered
    <3> QED BY <3>3, <3>6
  <2> QED BY <2>2, <2>5, <2>7, <2>8
<1>8. c.paired = paired /\ (c.promotable => paired # <<>>) BY <1>3
<1> HIDE DEF c, paired
<1>9. \A n \in DOMAIN c.paired : Clean(conf.baseline, c.paired[n]) /\ Clean(v, c.paired[n]) BY <1>5, <1>8
<1>10. c.promotable => /\ c.paired # <<>>
                       /\ \E n \in DOMAIN c.paired : ~(Right(conf.baseline, c.paired[n]) /\ Hopeless(v, c.paired[n]))
  BY <1>6, <1>8
<1>11. Sound(v, c)
  <2> QED BY <1>7, <1>9, <1>10 DEF Sound
<1> QED BY <1>11 DEF c

(* Every clean item is scored once, every call counts for the cost. *)
LEMMA PipelineScored ==
  ASSUME Whole, NEW v \in ToSet(conf.versions)
  PROVE  ScoredOnce(v, VersionSummary(Run, v))
<1> DEFINE s == VersionSummary(Run, v) complete == Complete(Run, v, Run.items) q == Rows(Run, v, complete)
           calls0 == Calls(Run, v, Run.items) classes == conf.classes
           scores == Scores(Run, v, Run.items)
           more == [kappa |-> CohenKappa(q, Run.classes), bands |-> RiskBandSummaries(Run, v),
                    cost |-> CostPopulation("version", calls0),
                    cacheHits |-> Over(Tally(calls0, LAMBDA c : c.hit), Len(calls0))]
<1>1. s = With(scores, more) BY DEF VersionSummary
<1>2. DOMAIN more = {"kappa", "bands", "cost", "cacheHits"} /\ more.cost = CostPopulation("version", calls0) OBVIOUS
<1>3. Run.classes = classes /\ IsFiniteSet(classes) /\ Run.versions = conf.versions
  BY RunFacts, PipelineLists DEF Whole
<1>4. /\ {"classification", "calibration"} \subseteq DOMAIN scores
      /\ scores.classification = Classification(q, classes) /\ scores.calibration = Brier(q)
  BY <1>3 DEF Scores
<1> HIDE DEF scores, more
<1>5. s.classification = Classification(q, classes) /\ s.calibration = Brier(q) /\ s.cost = CostPopulation("version", calls0)
  BY <1>1, <1>2, <1>4, WithField
<1>6. s.cost.calls = Len(calls0) /\ s.cost.cost = CostOf(calls0)
  <2> DEFINE c == CostLatency(calls0) p == [population |-> Population("version", calls0)]
  <2>1. CostPopulation("version", calls0) = With(c, p) BY DEF CostPopulation
  <2>2. DOMAIN p = {"population"} OBVIOUS
  <2>3. /\ c.calls = Len(calls0) /\ c.cost = CostOf(calls0) /\ {"calls", "cost"} \subseteq DOMAIN c
    BY DEF CostLatency
  <2> HIDE DEF c, p
  <2>4. With(c, p).calls = c.calls /\ With(c, p).cost = c.cost BY <2>2, <2>3, WithField
  <2> QED BY <1>5, <2>1, <2>3, <2>4
<1>7. calls0 = OfVersion(calls, v) BY VersionCalls
<1>8. /\ IsList(complete) /\ Range(complete) = CleanItems(v) /\ Len(complete) = Cardinality(CleanItems(v))
  BY CleanList
<1>9. Len(complete) \in Nat /\ DOMAIN complete = 1..Len(complete) BY <1>8, ListFacts DEF IsList
<1>10. Range(complete) \subseteq ToSet(conf.items) BY <1>8 DEF CleanItems
<1> HIDE DEF s, calls0, complete
<1>11. q = [n \in 1..Len(complete) |-> RowOf(v, complete[n])] BY <1>8, <1>10, RowsFacts
<1>12. \A n \in DOMAIN q : q[n].truth \in classes /\ q[n].conf \in 0..10
  <2>1. Reducible(Run) /\ v \in VersionNames(Run) BY <1>3 DEF Whole, VersionNames
  <2> QED BY <1>3, <2>1 DEF Reducible, complete
<1> HIDE DEF q
<1>13. IsList(q) /\ Len(q) = Len(complete) /\ DOMAIN q = 1..Len(complete)
  <2>1. \A n \in DOMAIN q : q[n] \in Range(q) BY DEF Range
  <2>2. q \in [1..Len(complete) -> Range(q)] BY <1>11, <2>1
  <2>3. q \in Seq(Range(q)) /\ Len(q) = Len(complete) BY <1>9, <2>2
  <2> QED BY <1>11, <2>3 DEF IsList
<1>14. ASSUME NEW n \in 1..Len(complete) PROVE q[n].item = complete[n]
  <2>1. complete[n] \in ToSet(conf.items) BY <1>9, <1>10 DEF Range
  <2> QED BY <1>11, <2>1, RowFacts
<1>15. {q[n].item : n \in DOMAIN q} = CleanItems(v)
  <2>1. {q[n].item : n \in DOMAIN q} = {complete[n] : n \in 1..Len(complete)} BY <1>13, <1>14
  <2>2. {complete[n] : n \in 1..Len(complete)} = Range(complete) BY <1>9 DEF Range
  <2> QED BY <1>8, <2>1, <2>2
<1> DEFINE table == s.classification.confusion bins == s.calibration.bins
<1>16. /\ s.classification.n = Len(q)
       /\ SumOf([t \in classes |-> SumOf(table[t])]) = Len(q)
  <2> DEFINE c == s.classification
  <2>1. c = Classification(q, classes) BY <1>5
  <2>2. IsFiniteSet(classes) /\ \A n \in DOMAIN q : q[n].truth \in classes BY <1>3, <1>12
  <2> HIDE DEF c, classes
  <2>3. c.n = Len(q) /\ SumOf([t \in classes |-> SumOf(c.confusion[t])]) = Len(q)
    BY <1>13, <2>1, <2>2, TableFacts
  <2> QED BY <2>3 DEF c, classes
<1>17. /\ UNION {bins[b].items : b \in 0..9} = CleanItems(v)
       /\ SumOf([b \in 0..9 |-> bins[b].n]) = Len(q)
  <2> DEFINE bb == bins
  <2>1. bb = Brier(q).bins BY <1>5
  <2> HIDE DEF bb
  <2>2. \A n \in DOMAIN q : q[n].conf \in 0..10 BY <1>12
  <2>3. Binned(q, bb) BY <1>13, <2>1, <2>2, BinFacts
  <2> QED BY <1>15, <2>3 DEF bb, Binned
<1>18. Len(q) = Cardinality(CleanItems(v)) BY <1>8, <1>13
<1>19. ScoredOnce(v, s) BY <1>6, <1>7, <1>16, <1>17, <1>18 DEF ScoredOnce
<1> QED BY <1>19 DEF s

(* What Render writes. *)
Evidenced(m) ==
  /\ \A v \in DOMAIN m.promotions : Sound(v, m.promotions[v])
  /\ conf.kind = "pipeline" => \A v \in DOMAIN m.versions : ScoredOnce(v, m.versions[v])

LEMMA PipelineEvidence ==
  ASSUME Whole, NEW draws \in Generated(Run, Resamples), NEW m, m = Summarize(Run, draws)
  PROVE  Evidenced(m)
<1>1. Run.versions = conf.versions BY RunFacts DEF Whole
<1>2. /\ m.versions = [v \in VersionNames(Run) |-> VersionSummary(Run, v)]
      /\ m.promotions = [c \in Candidates(Run) |-> Comparison(Run, c, draws[c])]
  BY DEF Summarize
<1>3. ASSUME NEW v \in DOMAIN m.promotions PROVE Sound(v, m.promotions[v])
  <2>1. v \in Candidates(Run) /\ m.promotions[v] = Comparison(Run, v, draws[v]) BY <1>2
  <2>2. Sound(v, Comparison(Run, v, draws[v])) BY <2>1, PipelineSound
  <2> QED BY <2>1, <2>2
<1>4. ASSUME NEW v \in DOMAIN m.versions PROVE ScoredOnce(v, m.versions[v])
  <2>1. v \in ToSet(conf.versions) /\ m.versions[v] = VersionSummary(Run, v) BY <1>1, <1>2 DEF VersionNames
  <2>2. ScoredOnce(v, VersionSummary(Run, v)) BY <2>1, PipelineScored
  <2> QED BY <2>1, <2>2
<1> QED BY <1>3, <1>4 DEF Evidenced

-----------------------------------------------------------------------------
(* The comparison of an analyzer mode with the baseline. *)

(* The record of a usable item is its only one. *)
OnlyRecord(v, i, c) ==
  /\ c \in Range(calls) /\ Usable(c)
  /\ RecordsOf(v, i) = <<c>>
  /\ OfItem(UsableCalls(v), i) = <<c>>

LEMMA UsableFacts ==
  ASSUME conf \in AnalyzerRuns, OneEach, NEW v, NEW i \in UsableItems(v)
  PROVE  /\ OnlyRecord(v, i, RecordsOf(v, i)[1])
         /\ Clean(v, i)
<1> DEFINE A == {c \in Range(calls) : c.version = v}
           mine == OfVersion(calls, v)
           U == {c \in Range(mine) : Usable(c)}
           q == UsableCalls(v)
           B == {c \in Range(mine) : c.item = i}
           C == {c \in Range(q) : c.item = i}
<1>1. conf.kind = "analyzer" /\ IsList(calls) BY AnalyzerConf DEF OneEach
<1>2. DOMAIN calls = 1..Len(calls) /\ Len(calls) \in Nat BY <1>1, ListFacts DEF IsList
<1>3. /\ \A n \in 1..Len(calls) : calls[n].sample = 0
      /\ \A n, k \in 1..Len(calls) : Identity(calls[n]) = Identity(calls[k]) => n = k
  BY DEF OneEach, Told
<1>4. /\ mine = Kept(calls, A) /\ q = Kept(mine, U)
      /\ RecordsOf(v, i) = Kept(mine, B) /\ OfItem(q, i) = Kept(q, C)
  BY DEF OfVersion, OfItem, RecordsOf, UsableCalls
<1>5. \E n \in DOMAIN q : i = q[n].item BY DEF UsableItems
<1>6. U = {c \in Range(mine) : Usable(c)} /\ B = {c \in Range(mine) : c.item = i} /\ C = {c \in Range(q) : c.item = i}
      /\ A = {c \in Range(calls) : c.version = v}
  OBVIOUS
<1> HIDE DEF A, mine, U, q, B, C
<1>7. IsList(mine) /\ Range(mine) = Range(calls) \cap A BY <1>1, <1>4, KeptMembers
<1>8. IsList(q) /\ Range(q) = Range(mine) \cap U BY <1>4, <1>7, KeptMembers
<1>9. PICK c \in Range(q) : c.item = i BY <1>5 DEF Range
<1>10. c \in Range(calls) /\ c.version = v /\ Usable(c) /\ c \in Range(mine) BY <1>6, <1>7, <1>8
<1>11. PICK n \in 1..Len(calls) : c = calls[n] BY <1>2, <1>10 DEF Range
<1>12. ASSUME NEW k \in 1..Len(calls), calls[k].version = v, calls[k].item = i PROVE k = n
  <2>1. Identity(calls[k]) = Identity(calls[n]) BY <1>3, <1>9, <1>10, <1>11, <1>12 DEF Identity
  <2> QED BY <1>3, <2>1
<1>13. RecordsOf(v, i) = <<c>>
  <2> DEFINE W == A \cap B
  <2>1. Kept(mine, B) = Kept(calls, W) BY <1>1, <1>4, KeptTwice
  <2>2. calls[n] \in W BY <1>6, <1>9, <1>10, <1>11
  <2>3. \A k \in 1..Len(calls) : calls[k] \in W => k = n BY <1>6, <1>12
  <2> HIDE DEF W
  <2>4. Kept(calls, W) = <<calls[n]>> BY <1>1, <2>2, <2>3, KeptOne
  <2> QED BY <1>4, <1>11, <2>1, <2>4
<1>14. OfItem(q, i) = <<c>>
  <2> DEFINE W == A \cap (U \cap C)
  <2>1. Kept(q, C) = Kept(mine, U \cap C) BY <1>4, <1>7, KeptTwice
  <2>2. Kept(mine, U \cap C) = Kept(calls, W) BY <1>1, <1>4, KeptTwice
  <2>3. calls[n] \in W BY <1>6, <1>9, <1>10, <1>11
  <2>4. \A k \in 1..Len(calls) : calls[k] \in W => k = n BY <1>6, <1>12
  <2> HIDE DEF W
  <2>5. Kept(calls, W) = <<calls[n]>> BY <1>1, <2>3, <2>4, KeptOne
  <2> QED BY <1>4, <1>11, <2>1, <2>2, <2>5
<1>15. RecordsOf(v, i)[1] = c /\ DOMAIN <<c>> = {1} /\ <<c>> # <<>> BY <1>13
<1>16. OnlyRecord(v, i, c) BY <1>10, <1>13, <1>14 DEF OnlyRecord, q
<1>17. \A k \in DOMAIN RecordsOf(v, i) : RecordsOf(v, i)[k] = c
  <2>1. \A k \in DOMAIN <<c>> : <<c>>[k] = c BY <1>15
  <2> QED BY <1>13, <2>1
<1>18. Clean(v, i) BY <1>10, <1>13, <1>15, <1>17 DEF Clean, Usable
<1> QED BY <1>15, <1>16, <1>18

(* The F1 of a record is naught when it met no label and positive when it met
   one. *)
LEMMA RateFacts ==
  ASSUME conf \in AnalyzerRuns, OneEach, NEW c \in Range(calls), Usable(c)
  PROVE  /\ (\A m \in c.match : m.tp = 0) => RatesOf(Matched(c))["f1"] \in Naught
         /\ (\A m \in c.match : m.tp > 0 /\ m.fp + m.fn = 0) => RatesOf(Matched(c))["f1"] \in Positive
<1> DEFINE m == Matched(c)
<1>1. DOMAIN calls = 1..Len(calls)
  <2>1. IsList(calls) BY DEF OneEach
  <2> QED BY <2>1, ListFacts DEF IsList
<1>2. Told(c) BY <1>1 DEF OneEach, Range
<1>3. m \in c.match BY <1>2 DEF Told, Matched
<1> HIDE DEF m
<1> DEFINE ex == conf.labels[c.item]
           em == c.found
           tol == conf.tolerance
           neg == conf.negatives[c.item]
           most == conf.maximum[c.item]
<1>4. Findings(ex) /\ Findings(em) /\ most \in Nat /\ m = MatchFindings(ex, em, tol, neg, most)
  BY <1>2, <1>3 DEF Told
<1> HIDE DEF ex, em, tol, neg, most
<1>5. /\ m.tp \in Nat /\ m.fp \in Nat /\ m.fn \in Int /\ Len(ex) \in Nat /\ m.tp + m.fn = Len(ex)
  BY <1>4, MatchFacts
<1> DEFINE k == 2 * m.tp n == 2 * m.tp + m.fp + m.fn x == Over(k, n)
<1>6. RatesOf(m)["f1"] = x BY DEF RatesOf, Rates
<1>7. k \in Int /\ n \in Nat /\ (m.tp = 0 => k = 0) /\ (m.tp > 0 => k > 0 /\ n > 0) BY <1>5
<1> HIDE DEF k, n, x
<1>8. (k > 0 /\ n > 0 => x \in Positive) /\ (k = 0 => x \in Naught) BY <1>7, OverFacts DEF x
<1> QED BY <1>3, <1>6, <1>7, <1>8 DEF m

(* The mean of rates that are all naught, or all positive. *)
LEMMA MacroOfFacts ==
  ASSUME NEW s, IsList(s), NEW macro, macro = MacroOf(s, "f1")
  PROVE  /\ (\A n \in DOMAIN s : RatesOf(Matched(s[n]))["f1"] \in Naught) => macro \in Naught
         /\ (s # <<>> /\ \A n \in DOMAIN s : RatesOf(Matched(s[n]))["f1"] \in Positive) => macro \in Positive
<1> DEFINE D == DOMAIN s f == [n \in D |-> RatesOf(Matched(s[n]))["f1"]] sum == FoldFunction(Plus, <<0, 1>>, f)
           m == sum[2] * Len(s) k == sum[1]
<1>1. Len(s) \in Nat /\ D = 1..Len(s) /\ IsFiniteSet(D) BY ListFacts, TallyFacts DEF IsList
<1>2. macro = Over(k, m) BY DEF MacroOf
<1>3. ASSUME \A n \in D : f[n] \in NotNegative
      PROVE  /\ k \in Int /\ k >= 0 /\ m \in Nat /\ (Len(s) > 0 => m > 0)
             /\ k > 0 /\ m > 0 => macro \in Positive
             /\ k = 0 => macro \in Naught
             /\ (\A n \in D : f[n] \in Naught) => k = 0
             /\ (\E n \in D : f[n] \in Positive) => k > 0
  <2>1. f \in [D -> NotNegative] BY <1>3
  <2>2. /\ sum \in NotNegative
        /\ (\A n \in D : f[n] \in Naught) => sum \in Naught
        /\ (\E n \in D : f[n] \in Positive) => sum \in Positive
    <3> HIDE DEF f, D
    <3> QED BY <1>1, <2>1, PlusSigns
  <2> HIDE DEF sum, f
  <2>3. sum[1] \in Int /\ sum[1] >= 0 /\ sum[2] \in Nat /\ sum[2] > 0 BY <2>2 DEF NotNegative, Ratios
  <2>4. k \in Int /\ k >= 0 /\ m \in Nat /\ (Len(s) > 0 => m > 0) BY <1>1, <2>3, Products
  <2>5. /\ (\A n \in D : f[n] \in Naught) => k = 0
        /\ (\E n \in D : f[n] \in Positive) => k > 0
    BY <2>2 DEF Naught, Positive
  <2> HIDE DEF k, m
  <2>6. /\ k > 0 /\ m > 0 => macro \in Positive
        /\ k = 0 => macro \in Naught
    BY <1>2, <2>4, OverFacts
  <2> QED BY <2>4, <2>5, <2>6
<1>4. ASSUME \A n \in D : f[n] \in Naught PROVE macro \in Naught
  <2>1. \A n \in D : f[n] \in NotNegative BY <1>4 DEF Naught, NotNegative
  <2> HIDE DEF f, D, k, m
  <2> QED BY <1>3, <1>4, <2>1
<1>5. ASSUME s # <<>>, \A n \in D : f[n] \in Positive PROVE macro \in Positive
  <2>1. \A n \in D : f[n] \in NotNegative 
    <3>1. \A x \in Positive : x \in NotNegative BY DEF Positive, NotNegative, Ratios
    <3> HIDE DEF f, D
    <3> QED BY <1>5, <3>1
  <2>2. Len(s) > 0 /\ \E n \in D : f[n] \in Positive
    <3>1. Len(s) # 0
      <4>1. s \in Seq(Range(s)) BY DEF IsList
      <4>2. s # <<>> BY <1>5
      <4> HIDE DEF f, D, sum, k, m
      <4> QED BY <4>1, <4>2
    <3>2. Len(s) > 0 /\ 1 \in D BY <1>1, <3>1
    <3> HIDE DEF f, D
    <3> QED BY <1>5, <3>2
  <2> HIDE DEF f, D, k, m
  <2> QED BY <1>3, <2>1, <2>2
<1> QED BY <1>4, <1>5

(* The items of an analyzer run are listed. *)
LEMMA AnalyzerItems == ASSUME conf \in AnalyzerRuns PROVE IsList(conf.items)
<1>1. PICK c \in AnalyzerConfs : ApplicablePairs(c) # <<>> /\
        conf = With(c, [kind |-> "analyzer", pairs |-> ApplicablePairs(c)])
  BY DEF AnalyzerRuns
<1> DEFINE P == ApplicablePairs(c)
<1>2. conf = With(c, [kind |-> "analyzer", pairs |-> P]) BY <1>1
<1>3. "items" \in DOMAIN c /\ c.items \in Seq(Range(c.items)) BY AnalyzerAssumption
<1> HIDE DEF P
<1>4. conf["items"] = c["items"] BY <1>2, <1>3, WithFacts
<1> QED BY <1>3, <1>4 DEF IsList

(* No analyzer mode is promoted without evidence. *)
LEMMA AnalyzerSound ==
  ASSUME conf \in AnalyzerRuns, OneEach, NEW v, NEW draws \in Draws(AnalyzerPairs(v), AnalyzerResamples)
  PROVE  Sound(v, AnalyzerComparison(v, draws))
<1> DEFINE b0 == conf.baseline
           paired == AnalyzerPairs(v) c == AnalyzerComparison(v, draws) T == ToSet(paired) K == Len(paired)
           Side(w) == [i \in T |-> OfItem(UsableCalls(w), i)[1]]
           base == Side(b0) cand == Side(v)
           Evidence(m) == PairedDeltaCI(base, cand, paired, [b \in Samples(base, cand) |-> AnalyzerStatistic(m, b)], draws)
           evidence == [m \in AnalyzerMetrics |-> Evidence(m)]
           stat == [b \in Samples(base, cand) |-> AnalyzerStatistic("macro_f1", b)]
           interval == PairedDeltaCI(base, cand, paired, stat, draws)
<1>1. conf.kind = "analyzer" BY AnalyzerConf
<1>2. c = IF paired = <<>> THEN [paired |-> paired, promotable |-> FALSE, metrics |-> <<>>]
          ELSE [paired |-> paired, promotable |-> ~Less(evidence["macro_f1"].lo, <<0, 1>>), metrics |-> evidence]
  BY DEF AnalyzerComparison
<1>3. evidence["macro_f1"] = interval BY DEF AnalyzerMetrics
<1> HIDE DEF evidence
<1>4. c.paired = paired /\ (c.promotable => paired # <<>> /\ ~Less(interval.lo, <<0, 1>>))
  <2>1. CASE paired = <<>> BY <1>2, <2>1
  <2>2. CASE paired # <<>>
    <3> DEFINE p == ~Less(evidence["macro_f1"].lo, <<0, 1>>)
    <3>1. p <=> ~Less(interval.lo, <<0, 1>>) BY <1>3
    <3>2. c = [paired |-> paired, promotable |-> p, metrics |-> evidence] BY <1>2, <2>2
    <3> HIDE DEF p, c, paired, interval
    <3>3. c.paired = paired /\ c.promotable = p BY <3>2
    <3> QED BY <2>2, <3>1, <3>3
  <2> QED BY <2>1, <2>2
<1>5. /\ IsList(paired) /\ DOMAIN paired = 1..K /\ K \in Nat
      /\ T \subseteq UsableItems(b0) \cap UsableItems(v)
  <2> DEFINE W == UsableItems(b0) \cap UsableItems(v)
  <2>1. IsList(conf.items) BY AnalyzerItems
  <2>2. paired = Kept(conf.items, W) BY DEF AnalyzerPairs
  <2> HIDE DEF W, paired
  <2>3. IsList(paired) /\ Range(paired) = Range(conf.items) \cap W BY <2>1, <2>2, KeptMembers
  <2> QED BY <2>3, ListFacts DEF IsList, ToSet, Range, W
<1>6. ASSUME NEW w \in {b0, v}, NEW i \in T
      PROVE  /\ Clean(w, i)
             /\ Side(w)[i] = RecordsOf(w, i)[1] /\ Side(w)[i] \in Range(calls) /\ Usable(Side(w)[i])
  <2>1. i \in UsableItems(w)
    <3> HIDE DEF T
    <3> QED BY <1>5
  <2> DEFINE x == RecordsOf(w, i)[1]
  <2>2. OnlyRecord(w, i, x) /\ Clean(w, i) BY <2>1, UsableFacts
  <2> HIDE DEF x
  <2>3. x \in Range(calls) /\ Usable(x) /\ OfItem(UsableCalls(w), i)[1] = x BY <2>2 DEF OnlyRecord
  <2> QED BY <2>2, <2>3 DEF x
<1>7. \A n \in DOMAIN paired : paired[n] \in T BY DEF ToSet
<1>8. \A n \in DOMAIN paired : Clean(b0, paired[n]) /\ Clean(v, paired[n]) BY <1>6, <1>7
<1>9. ASSUME paired # <<>>, \A n \in DOMAIN paired : Right(b0, paired[n]) /\ Hopeless(v, paired[n])
      PROVE  Less(interval.lo, <<0, 1>>)
  <2>1. \A i \in T : Right(b0, i) /\ Hopeless(v, i) BY <1>9 DEF ToSet
  <2>2. ASSUME NEW i \in T
        PROVE  /\ RatesOf(Matched(base[i]))["f1"] \in Positive
               /\ RatesOf(Matched(cand[i]))["f1"] \in Naught
    <3> DEFINE x == base[i] y == cand[i]
    <3>1. x = RecordsOf(b0, i)[1] /\ x \in Range(calls) /\ Usable(x) BY <1>6
    <3>2. y = RecordsOf(v, i)[1] /\ y \in Range(calls) /\ Usable(y) BY <1>6
    <3> HIDE DEF x, y
    <3>3. \A m \in x.match : m.tp > 0 /\ m.fp + m.fn = 0 BY <1>1, <2>1, <3>1 DEF Right
    <3>4. \A m \in y.match : m.tp = 0 BY <1>1, <2>1, <3>2 DEF Hopeless
    <3>5. RatesOf(Matched(x))["f1"] \in Positive BY <3>1, <3>3, RateFacts
    <3>6. RatesOf(Matched(y))["f1"] \in Naught BY <3>2, <3>4, RateFacts
    <3> QED BY <3>5, <3>6 DEF x, y
  <2>3. DOMAIN base = T /\ DOMAIN cand = T OBVIOUS
  <2>4. \A s : s \in Samples(base, cand) => stat[s] = MacroOf(s, "f1")
    <3>1. \A s : AnalyzerStatistic("macro_f1", s) = MacroOf(s, "f1") BY DEF AnalyzerStatistic, Tiers
    <3> HIDE DEF base, cand
    <3> QED BY <3>1
  <2>5. K # 0
    <3>1. paired \in Seq(Range(paired)) /\ paired # <<>> BY <1>5, <1>9 DEF IsList
    <3> HIDE DEF paired
    <3> QED BY <3>1
  <2> HIDE DEF base, cand, stat, T, K, paired
  <2>6. ASSUME NEW b, NEW s \in [1..K -> Range(b)], b \in {base, cand}
        PROVE  s \in Samples(base, cand) /\ IsList(s) /\ DOMAIN s = 1..K /\ s # <<>>
    <3> DEFINE R == Range(base) \cup Range(cand)
    <3>1. \A n \in 1..K : s[n] \in R BY <2>6
    <3>2. s \in [1..K -> R] BY <3>1
    <3> HIDE DEF R
    <3>3. s \in Seq(R) /\ Len(s) = K BY <1>5, <3>2
    <3>4. s \in Samples(base, cand) BY <3>3 DEF Samples, R
    <3>5. IsList(s) BY <3>3, ListFacts
    <3>6. s # <<>> BY <2>5, <3>3
    <3> QED BY <3>4, <3>5, <3>6
  <2>7. ASSUME NEW s \in [1..K -> Range(base)] PROVE stat[s] \in Positive
    <3>1. ASSUME NEW n \in DOMAIN s PROVE RatesOf(Matched(s[n]))["f1"] \in Positive
      <4>1. s[n] \in Range(base) BY <2>6, <3>1
      <4>2. PICK i \in T : s[n] = base[i] BY <2>3, <4>1 DEF Range
      <4> QED BY <2>2, <4>2
    <3>2. IsList(s) /\ s # <<>> /\ stat[s] = MacroOf(s, "f1") BY <2>4, <2>6
    <3> QED BY <3>1, <3>2, MacroOfFacts
  <2>8. ASSUME NEW s \in [1..K -> Range(cand)] PROVE stat[s] \in Naught
    <3>1. ASSUME NEW n \in DOMAIN s PROVE RatesOf(Matched(s[n]))["f1"] \in Naught
      <4>1. s[n] \in Range(cand) BY <2>6, <3>1
      <4>2. PICK i \in T : s[n] = cand[i] BY <2>3, <4>1 DEF Range
      <4> QED BY <2>2, <4>2
    <3>2. IsList(s) /\ stat[s] = MacroOf(s, "f1") BY <2>4, <2>6
    <3> QED BY <3>1, <3>2, MacroOfFacts
  <2>9. AnalyzerResamples \in Nat \ {0} BY AnalyzerAssumption
  <2>10. draws \in Draws(paired, AnalyzerResamples) BY DEF paired
  <2>11. DOMAIN base = ToSet(paired) /\ DOMAIN cand = ToSet(paired) BY <2>3 DEF T
  <2> QED BY <1>5, <1>9, <2>7, <2>8, <2>9, <2>10, <2>11, LosingInterval DEF K
<1> HIDE DEF c, paired, interval
<1>10. \A n \in DOMAIN c.paired : Clean(conf.baseline, c.paired[n]) /\ Clean(v, c.paired[n]) BY <1>4, <1>8
<1>11. c.promotable => /\ c.paired # <<>>
                       /\ \E n \in DOMAIN c.paired : ~(Right(conf.baseline, c.paired[n]) /\ Hopeless(v, c.paired[n]))
  BY <1>4, <1>9
<1>12. conf.kind # "pipeline" BY <1>1
<1>13. Sound(v, c) BY <1>10, <1>11, <1>12 DEF Sound
<1> QED BY <1>13 DEF c

(* What RenderAnalyzer writes. *)
LEMMA AnalyzerEvidence ==
  ASSUME conf \in AnalyzerRuns, OneEach, NEW draws \in AnalyzerDraws, NEW m, m = SummarizeAnalyzer(draws)
  PROVE  Evidenced(m)
<1> DEFINE cands == {x.version : x \in ToSet(conf.modes)} \ {conf.baseline}
<1>1. conf.kind # "pipeline" BY AnalyzerConf
<1>2. m.promotions = [v \in cands |-> AnalyzerComparison(v, draws[v])] BY DEF SummarizeAnalyzer
<1>3. \A v \in cands : draws[v] \in Draws(AnalyzerPairs(v), AnalyzerResamples) BY DEF AnalyzerDraws
<1> HIDE DEF cands
<1>4. ASSUME NEW v \in DOMAIN m.promotions PROVE Sound(v, m.promotions[v])
  <2>1. v \in cands /\ m.promotions[v] = AnalyzerComparison(v, draws[v]) BY <1>2
  <2>2. draws[v] \in Draws(AnalyzerPairs(v), AnalyzerResamples) BY <1>3, <2>1
  <2>3. Sound(v, AnalyzerComparison(v, draws[v])) BY <2>2, AnalyzerSound
  <2> QED BY <2>1, <2>3
<1> QED BY <1>1, <1>4 DEF Evidenced

-----------------------------------------------------------------------------
(* The report of a run says the same of its records for good. *)
LEMMA EvidenceKept == ASSUME conf' = conf, calls' = calls, NEW m, Evidenced(m) PROVE Evidenced(m)'
<1>1. \A v, i : RecordsOf(v, i)' = RecordsOf(v, i) BY DEF RecordsOf
<1>2. \A v, i : Clean(v, i)' <=> Clean(v, i) BY <1>1 DEF Clean
<1>3. \A v, i : (Right(v, i)' <=> Right(v, i)) /\ (Hopeless(v, i)' <=> Hopeless(v, i)) BY <1>1 DEF Right, Hopeless
<1>4. \A v : CleanItems(v)' = CleanItems(v) BY <1>2 DEF CleanItems
<1>5. \A v, p : Sound(v, p)' <=> Sound(v, p) BY <1>1, <1>2, <1>3, <1>4, ZenonT(40) DEF Sound
<1>6. \A v, s : ScoredOnce(v, s)' <=> ScoredOnce(v, s) BY <1>4 DEF ScoredOnce
<1> QED BY <1>5, <1>6 DEF Evidenced

(* A report is written once all records are, and says what they say. *)
LEMMA EvidenceStep ==
  ASSUME EvaluationsInv, [Next]_vars, \A m \in metrics : Evidenced(m)
  PROVE  \A m \in metrics' : Evidenced(m)'
<1>1. Loaded /\ PipelineInv /\ AnalyzerInv BY DEF EvaluationsInv
<1>2. CASE UNCHANGED <<conf, calls, metrics>>
  <2> QED BY <1>2, EvidenceKept
<1>3. CASE conf.kind = "pipeline" /\ Render /\ PopulationIsExact(Run) /\ Reducible(Run)
  <2>1. /\ conf \in PipelineRuns /\ InOrder /\ pc = "render" /\ conf' = conf /\ calls' = calls
    BY <1>1, <1>3, Kinds DEF PipelineInv, Render
  <2>2. Len(calls) = Len(conf.pairs) BY <2>1 DEF InOrder
  <2>3. Whole BY <1>3, <2>1, <2>2 DEF Whole
  <2>4. PICK draws \in Generated(Run, Resamples) : metrics' = {Summarize(Run, draws)} BY <1>3 DEF Render
  <2> DEFINE s == Summarize(Run, draws)
  <2>5. Evidenced(s) BY <2>3, PipelineEvidence
  <2> HIDE DEF s
  <2>6. metrics' = {s} BY <2>4 DEF s
  <2> QED BY <2>1, <2>5, <2>6, EvidenceKept
<1>4. CASE conf.kind = "analyzer" /\ RenderAnalyzer
  <2>1. conf \in AnalyzerRuns /\ OneEach /\ conf' = conf /\ calls' = calls
    BY <1>1, <1>4, Kinds DEF AnalyzerInv, RenderAnalyzer
  <2>2. PICK draws \in AnalyzerDraws : metrics' = {SummarizeAnalyzer(draws)} BY <1>4 DEF RenderAnalyzer
  <2> DEFINE s == SummarizeAnalyzer(draws)
  <2>3. Evidenced(s) BY <2>1, AnalyzerEvidence
  <2> HIDE DEF s
  <2>4. metrics' = {s} BY <2>2 DEF s
  <2> QED BY <2>1, <2>3, <2>4, EvidenceKept
<1>5. CASE metrics' = {}
  BY <1>5
<1>6. \/ UNCHANGED <<conf, calls, metrics>>
      \/ conf.kind = "pipeline" /\ Render /\ PopulationIsExact(Run) /\ Reducible(Run)
      \/ conf.kind = "analyzer" /\ RenderAnalyzer
      \/ metrics' = {}
  <2>1. CASE conf.kind = "pipeline" /\ PipelineNext
    <3>1. metrics # {} => pc = "done" BY <1>1, <2>1 DEF PipelineInv, Reported
    <3>2. pc # "done" /\ (Render \/ UNCHANGED <<conf, metrics>>)
      BY <2>1 DEF PipelineNext, PipelineStart, StageRaises, Die, PinnedStage, HarnessStage, PrismStage, LlmStage, Executed,
                  WriteCall, Charge, WriteInputs, WriteAssert, Render
    <3>3. CASE Render
      <4>1. CASE PopulationIsExact(Run) /\ Reducible(Run) BY <2>1, <3>3, <4>1
      <4>2. CASE ~(PopulationIsExact(Run) /\ Reducible(Run)) BY <3>3, <4>2 DEF Render, Die
      <4> QED BY <4>1, <4>2
    <3> QED BY <3>1, <3>2, <3>3
  <2>2. CASE conf.kind = "analyzer" /\ AnalyzerNext
    <3>1. metrics # {} => pc \in {"verify"} \cup Ended BY <1>1, <2>2 DEF AnalyzerInv, Judged
    <3>2. \/ RenderAnalyzer
          \/ UNCHANGED <<conf, calls, metrics>>
          \/ pc \notin {"verify"} \cup Ended /\ UNCHANGED metrics
      BY <2>2 DEF AnalyzerNext, AnalyzerStart, Probe, AnalyzePair, Die, RecordPair, JudgePair, EndPair, RenderAnalyzer,
                  VerifyRecords, Ended
    <3> QED BY <2>2, <3>1, <3>2
  <2>3. CASE Kill \/ UNCHANGED vars BY <2>3 DEF Kill, vars
  <2> QED BY <2>1, <2>2, <2>3 DEF Next, PipelineNext, AnalyzerNext
<1> QED BY <1>2, <1>3, <1>4, <1>5, <1>6

(* Whatever the stages, the answers, the findings and the draws are: no
   candidate is promoted without items both versions are clean on, when it loses
   all of them, or with more than one in a hundred of its clean calls invalid,
   and a report scores every clean item once and counts every call's cost. *)
THEOREM PromotionTheorem == Spec => []PromotionHasEvidence
<1> DEFINE I == EvaluationsInv /\ PromotionHasEvidence
<1>1. PromotionHasEvidence <=> \A m \in metrics : Evidenced(m) BY DEF PromotionHasEvidence, Evidenced
<1>2. Init => I
  <2>1. Init => metrics = {} BY DEF Init, PipelineInit, AnalyzerInit, EvaluationInit
  <2> QED BY <1>1, <2>1, InitLemma
<1>3. I /\ [Next]_vars => I'
  <2> SUFFICES ASSUME EvaluationsInv, PromotionHasEvidence, [Next]_vars PROVE I' OBVIOUS
  <2>1. EvaluationsInv' BY StepLemma
  <2>2. \A m \in metrics' : Evidenced(m)' BY <1>1, EvidenceStep
  <2>3. PromotionHasEvidence' BY <2>2 DEF PromotionHasEvidence, Evidenced
  <2> QED BY <2>1, <2>3
<1> QED BY <1>2, <1>3, PTL DEF Spec
=============================================================================
