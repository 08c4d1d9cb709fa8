------------------------- MODULE TrendLedgerProofs -------------------------
(***************************************************************************)
(* Proofs about the trend ledger, for any set of calls and any assignment  *)
(* of identities to them.                                                  *)
(***************************************************************************)
EXTENDS TrendLedger, TLAPS

(* What an append leaves is typed. *)
LEMMA ExtendedTyped ==
  ASSUME TypeOK, NEW p \in Appenders, NEW i \in 1..3, NEW j \in 1..3, i <= j
  PROVE  /\ Extended(p, i, j) \in Tails
         /\ LineOf(Extended(p, i, j)) \in Appenders \union {Garbled}
         /\ LineOf(Extended(p, i, j)) \in {p, LineOf(tail), Garbled}
BY LedgerAssumption DEF TypeOK, Extended, Tails, Empty, Junk, LineOf

(* Before a full write the row lands whole, or on a line that is no row. *)
LEMMA FullWrite ==
  ASSUME TypeOK, NEW p \in Appenders
  PROVE  LineOf(Extended(p, 1, 3)) \in {p, Garbled}
BY LedgerAssumption DEF TypeOK, Extended, Tails, Empty, Junk, LineOf

LEMMA TailLine ==
  ASSUME TypeOK
  PROVE  LineOf(tail) \in Appenders \union {Garbled}
BY DEF TypeOK, Tails, Empty, Junk, LineOf

LEMMA AtTyped ==
  ASSUME TypeOK, NEW n \in Positions
  PROVE  At(n) \in Appenders \union {Garbled}
BY TailLine DEF TypeOK, At, Positions

(* One write(2): the closed lines stay, and a position shows what it showed
   before, p's row, or no row. *)
LEMMA AppendEffect ==
  ASSUME TypeOK, NEW p \in Appenders, NEW i \in 1..4, NEW j \in 0..3, AppendParts(p, i, j)
  PROVE  /\ lines' \in Seq(Appenders \union {Garbled})
         /\ tail' \in Tails
         /\ Len(lines') >= Len(lines)
         /\ \A n \in 1..Len(lines) : lines'[n] = lines[n]
         /\ \A n \in Positions' :
              \/ At(n)' = Garbled
              \/ n \in Positions /\ At(n)' = At(n)
              \/ n = Len(lines) + 1 /\ At(n)' = p
<1> USE LedgerAssumption
<1>1. CASE i > j
  <2>1. UNCHANGED <<lines, tail>> BY <1>1 DEF AppendParts
  <2> QED BY <2>1 DEF TypeOK, Positions, At, LineOf
<1>2. CASE i <= j
  <2> DEFINE e == Extended(p, i, j)
  <2>1. i \in 1..3 /\ j \in 1..3 BY <1>2
  <2>2. /\ e \in Tails
        /\ LineOf(e) \in Appenders \union {Garbled}
        /\ LineOf(e) \in {p, LineOf(tail), Garbled}
    BY <1>2, <2>1, ExtendedTyped
  <2> HIDE DEF e
  <2>3. CASE j = 3
    <3>1. lines' = Append(lines, LineOf(e)) /\ tail' = Empty
      BY <1>2, <2>3 DEF AppendParts, e
    <3>2. LineOf(Empty) = Garbled BY DEF LineOf, Empty
    <3>3. lines \in Seq(Appenders \union {Garbled}) BY DEF TypeOK
    <3>4. /\ lines' \in Seq(Appenders \union {Garbled})
          /\ Len(lines') = Len(lines) + 1
          /\ \A n \in 1..Len(lines) : lines'[n] = lines[n]
          /\ lines'[Len(lines) + 1] = LineOf(e)
      BY <2>2, <3>1, <3>3
    <3>5. ASSUME NEW n \in Positions'
          PROVE  \/ At(n)' = Garbled
                 \/ n \in Positions /\ At(n)' = At(n)
                 \/ n = Len(lines) + 1 /\ At(n)' = p
      <4>1. n \in 1..(Len(lines) + 2) BY <3>4 DEF Positions
      <4>2. CASE n \in 1..Len(lines)
        BY <3>3, <3>4, <4>2 DEF At, Positions
      <4>3. CASE n = Len(lines) + 1
        <5>1. At(n)' = LineOf(e) BY <3>3, <3>4, <4>3 DEF At
        <5>2. n \in Positions /\ At(n) = LineOf(tail) BY <3>3, <4>3 DEF At, Positions
        <5> QED BY <5>1, <5>2, <2>2, <4>3
      <4>4. CASE n = Len(lines) + 2
        <5>1. At(n)' = LineOf(tail)' BY <3>3, <3>4, <4>4 DEF At
        <5> QED BY <5>1, <3>1, <3>2 DEF LineOf
      <4> QED BY <3>3, <4>1, <4>2, <4>3, <4>4
    <3>6. tail' \in Tails BY <3>1 DEF Tails
    <3> QED BY <3>3, <3>4, <3>5, <3>6
  <2>4. CASE j < 3
    <3>1. lines' = lines /\ tail' = e
      BY <1>2, <2>4 DEF AppendParts, e
    <3>2. lines \in Seq(Appenders \union {Garbled}) BY DEF TypeOK
    <3>3. LineOf(tail)' = LineOf(e) BY <3>1 DEF LineOf
    <3>4. ASSUME NEW n \in Positions'
          PROVE  \/ At(n)' = Garbled
                 \/ n \in Positions /\ At(n)' = At(n)
                 \/ n = Len(lines) + 1 /\ At(n)' = p
      <4>1. n \in 1..(Len(lines) + 1) /\ n \in Positions BY <3>1 DEF Positions
      <4>2. CASE n \in 1..Len(lines) BY <3>1, <3>2, <4>1, <4>2 DEF At
      <4>3. CASE n = Len(lines) + 1
        <5>1. At(n)' = LineOf(e) BY <3>1, <3>2, <3>3, <4>3 DEF At
        <5>2. At(n) = LineOf(tail) BY <3>2, <4>3 DEF At
        <5> QED BY <5>1, <5>2, <2>2, <4>1, <4>3
      <4> QED BY <3>2, <4>1, <4>2, <4>3
    <3> QED BY <2>2, <3>1, <3>2, <3>4
  <2> QED BY <2>1, <2>3, <2>4
<1> QED BY <1>1, <1>2

-----------------------------------------------------------------------------
(* Type correctness and the discipline of the lock. *)
LEMMA InitInv == ASSUME Init PROVE LedgerInv
<1> USE LedgerAssumption DEF Init
<1>1. TypeOK BY DEF TypeOK, Tails, PCs, NothingLeft
<1>2. LockHeld BY DEF LockHeld
<1>3. ScanStillGood BY DEF ScanStillGood
<1>4. RepeatsInText
  <2>1. \A n \in Positions : At(n) = Garbled
    BY DEF Positions, At, LineOf, Empty
  <2> QED BY <2>1 DEF RepeatsInText
<1>5. WrittenIsALine BY DEF WrittenIsALine
<1> QED BY <1>1, <1>2, <1>3, <1>4, <1>5 DEF LedgerInv

LEMMA TypeStep ==
  ASSUME TypeOK, [Next]_vars
  PROVE  TypeOK'
<1> USE LedgerAssumption
<1> USE DEF NothingLeft, PCs, Ended
<1>1. ASSUME NEW p \in Appenders, Lock(p) \/ ScanFound(p) \/ ScanRaises(p) \/ ScanClean(p)
                                   \/ Sync(p) \/ SyncFails(p)
      PROVE  TypeOK'
  BY <1>1 DEF TypeOK, Lock, ScanFound, ScanRaises, ScanClean, Sync, SyncFails, AfterError
<1>2. ASSUME NEW p \in Appenders, Write(p)
      PROVE  TypeOK'
  <2>1. AppendParts(p, 1, 3) BY <1>2 DEF Write
  <2>2. lines' \in Seq(Appenders \union {Garbled}) /\ tail' \in Tails
    BY <2>1, AppendEffect
  <2> QED BY <1>2, <2>2 DEF TypeOK, Write
<1>3. ASSUME NEW p \in Appenders, WriteFails(p)
      PROVE  TypeOK'
  <2>1. PICK k \in 0..2 : AppendParts(p, 1, k) /\ left' = [left EXCEPT ![p] = Remaining(k)]
    BY <1>3 DEF WriteFails
  <2>2. lines' \in Seq(Appenders \union {Garbled}) /\ tail' \in Tails
    BY <2>1, AppendEffect
  <2>3. Remaining(k) \in 1..4 BY DEF Remaining
  <2> QED BY <1>3, <2>1, <2>2, <2>3 DEF TypeOK, WriteFails, AfterError
<1>4. ASSUME NEW p \in Appenders, Close(p)
      PROVE  TypeOK'
  <2>1. PICK k \in 0..3 : AppendParts(p, left[p], k)
    BY <1>4 DEF Close
  <2>2. left[p] \in 1..4 BY DEF TypeOK
  <2>3. lines' \in Seq(Appenders \union {Garbled}) /\ tail' \in Tails
    BY <2>1, <2>2, AppendEffect
  <2> QED BY <1>4, <2>3 DEF TypeOK, Close
<1>5. ASSUME NEW p \in Appenders, Crash(p)
      PROVE  TypeOK'
  <2>1. lines' \in Seq(Appenders \union {Garbled}) /\ tail' \in Tails
    <3>1. CASE pc[p] = "write"
      <4>1. PICK k \in 0..2 : AppendParts(p, 1, k) BY <1>5, <3>1 DEF Crash
      <4> QED BY <4>1, AppendEffect
    <3>2. CASE pc[p] # "write" BY <1>5, <3>2 DEF Crash, TypeOK
    <3> QED BY <3>1, <3>2
  <2> QED BY <1>5, <2>1 DEF TypeOK, Crash
<1>6. CASE UNCHANGED vars BY <1>6 DEF TypeOK, vars
<1> QED BY <1>1, <1>2, <1>3, <1>4, <1>5, <1>6 DEF Next, Step, Terminated

LEMMA LockStep ==
  ASSUME TypeOK, LockHeld, [Next]_vars
  PROVE  LockHeld'
<1> USE LedgerAssumption DEF TypeOK, LockHeld
<1>1. ASSUME NEW p \in Appenders, Lock(p) PROVE LockHeld'
  BY <1>1 DEF Lock, LockFree
<1>2. ASSUME NEW p \in Appenders, ScanFound(p) \/ ScanRaises(p) \/ ScanClean(p)
      PROVE  LockHeld'
  BY <1>2 DEF ScanFound, ScanRaises, ScanClean, AfterError
<1>3. ASSUME NEW p \in Appenders, Write(p) \/ WriteFails(p) \/ Sync(p) \/ SyncFails(p)
      PROVE  LockHeld'
  BY <1>3 DEF Write, WriteFails, Sync, SyncFails, AfterError
<1>4. ASSUME NEW p \in Appenders, Close(p) \/ Crash(p)
      PROVE  LockHeld'
  BY <1>4 DEF Close, Crash
<1>5. CASE UNCHANGED vars BY <1>5 DEF vars
<1> QED BY <1>1, <1>2, <1>3, <1>4, <1>5 DEF Next, Step, Terminated

-----------------------------------------------------------------------------
(* After a clean scan no position shows the scanner's identity. *)
LEMMA CleanScan ==
  ASSUME TypeOK, NEW p \in Appenders, ~Found(p), Clean
  PROVE  \A n \in Positions : At(n) # Garbled => Identity[At(n)] # Identity[p]
<1> SUFFICES ASSUME NEW n \in Positions, At(n) # Garbled, Identity[At(n)] = Identity[p]
             PROVE  FALSE
  OBVIOUS
<1>1. lines \in Seq(Appenders \union {Garbled}) BY DEF TypeOK
<1>2. n \in 1..Len(Read) /\ Read[n] = At(n)
  <2>1. CASE n <= Len(lines)
    <3>1. n \in 1..Len(lines) /\ At(n) = lines[n] BY <1>1, <2>1 DEF Positions, At
    <3> QED BY <1>1, <3>1, TailLine DEF Read
  <2>2. CASE n = Len(lines) + 1
    <3>1. At(n) = LineOf(tail) BY <1>1, <2>2 DEF At
    <3>2. tail # Empty BY <3>1 DEF LineOf, Empty
    <3> QED BY <1>1, <2>2, <3>1, <3>2, TailLine DEF Read
  <2> QED BY <1>1, <2>1, <2>2 DEF Positions
<1>3. FoundAt(p, n) BY <1>2, <1>1, TailLine DEF FoundAt, SameIdentity, Clean, Read
<1> QED BY <1>2, <1>3 DEF Found

(* A step that appends nothing keeps what every position shows, and no
   call that raised is anywhere else afterwards. *)
LEMMA QuietText ==
  ASSUME UNCHANGED <<lines, tail>>
  PROVE  Positions' = Positions /\ \A n : At(n)' = At(n)
BY DEF Positions, At, LineOf

LEMMA RaisedStays ==
  ASSUME TypeOK, Next, NEW q \in Appenders, pc[q] = "raised"
  PROVE  pc'[q] = "raised"
BY DEF TypeOK, Next, Step, Lock, ScanFound, ScanRaises, ScanClean, Write, WriteFails, Sync,
       SyncFails, Close, Crash, Terminated, Ended, vars

(* What a step does to the text: nothing, or one append by a call that
   either holds the lock at its write or raises. *)
LEMMA StepShape ==
  ASSUME TypeOK, Next
  PROVE  \/ UNCHANGED <<lines, tail>>
         \/ \E p \in Appenders :
              /\ \E i \in 1..4, j \in 0..3 : AppendParts(p, i, j)
              /\ pc[p] = "write" \/ pc'[p] = "raised"
              /\ pc'[p] # "write"
<1>1. ASSUME NEW p \in Appenders, Write(p) \/ WriteFails(p) \/ Close(p) \/ Crash(p)
      PROVE  \/ UNCHANGED <<lines, tail>>
             \/ /\ \E i \in 1..4, j \in 0..3 : AppendParts(p, i, j)
                /\ pc[p] = "write" \/ pc'[p] = "raised"
                /\ pc'[p] # "write"
  <2>1. CASE Write(p)
    <3>1. AppendParts(p, 1, 3) BY <2>1 DEF Write
    <3> QED BY <3>1, <2>1 DEF Write, TypeOK
  <2>2. CASE WriteFails(p)
    <3>1. PICK k \in 0..2 : AppendParts(p, 1, k) BY <2>2 DEF WriteFails
    <3> QED BY <3>1, <2>2 DEF WriteFails, TypeOK
  <2>3. CASE Close(p)
    <3>1. PICK k \in 0..3 : AppendParts(p, left[p], k) BY <2>3 DEF Close
    <3>2. left[p] \in 1..4 BY DEF TypeOK, NothingLeft
    <3> QED BY <3>1, <3>2, <2>3 DEF Close, TypeOK
  <2>4. CASE Crash(p) /\ pc[p] = "write"
    <3>1. PICK k \in 0..2 : AppendParts(p, 1, k) BY <2>4 DEF Crash
    <3> QED BY <3>1, <2>4 DEF Crash, TypeOK
  <2>5. CASE Crash(p) /\ pc[p] # "write" BY <2>5 DEF Crash
  <2> QED BY <1>1, <2>1, <2>2, <2>3, <2>4, <2>5
<1>2. ASSUME NEW p \in Appenders, Lock(p) \/ ScanFound(p) \/ ScanRaises(p) \/ ScanClean(p)
                                   \/ Sync(p) \/ SyncFails(p)
      PROVE  UNCHANGED <<lines, tail>>
  BY <1>2 DEF Lock, ScanFound, ScanRaises, ScanClean, Sync, SyncFails
<1>3. CASE Terminated BY <1>3 DEF Terminated, vars
<1> QED BY <1>1, <1>2, <1>3 DEF Next, Step

LEMMA ReachesWrite ==
  ASSUME TypeOK, Next, NEW q \in Appenders, pc'[q] = "write", pc[q] # "write"
  PROVE  ScanClean(q)
BY DEF TypeOK, Next, Step, Lock, ScanFound, ScanRaises, ScanClean, Write, WriteFails, Sync,
       SyncFails, Close, Crash, Terminated, Ended, vars

LEMMA ScanStep ==
  ASSUME TypeOK, LockHeld, ScanStillGood, Next
  PROVE  ScanStillGood'
<1> SUFFICES ASSUME NEW q \in Appenders, pc'[q] = "write",
                    NEW n \in Positions',
                    At(n)' # Garbled, Identity[At(n)'] = Identity[q]
             PROVE  pc'[At(n)'] = "raised"
  BY DEF ScanStillGood
<1>1. CASE pc[q] # "write"
  <2>1. ScanClean(q) BY <1>1, ReachesWrite
  <2>2. UNCHANGED <<lines, tail>> /\ ~Found(q) /\ Clean BY <2>1 DEF ScanClean
  <2>3. n \in Positions /\ At(n)' = At(n) BY <2>2, QuietText
  <2> QED BY <2>2, <2>3, CleanScan
<1>2. CASE pc[q] = "write" /\ UNCHANGED <<lines, tail>>
  <2>1. n \in Positions /\ At(n)' = At(n) BY <1>2, QuietText
  <2>2. At(n) \in Appenders BY <2>1, AtTyped
  <2>3. pc[At(n)] = "raised" BY <1>2, <2>1 DEF ScanStillGood
  <2> QED BY <2>1, <2>2, <2>3, RaisedStays
<1>3. ASSUME pc[q] = "write",
             NEW p \in Appenders, NEW i \in 1..4, NEW j \in 0..3, AppendParts(p, i, j),
             pc[p] = "write" \/ pc'[p] = "raised",
             pc'[p] # "write"
      PROVE  pc'[At(n)'] = "raised"
  <2>1. p # q BY <1>3
  <2>2. pc'[p] = "raised" BY <1>3, <2>1 DEF LockHeld
  <2>3. \/ n \in Positions /\ At(n)' = At(n)
        \/ At(n)' = p
    BY <1>3, AppendEffect
  <2>4. CASE n \in Positions /\ At(n)' = At(n)
    <3>1. At(n) \in Appenders BY <2>4, AtTyped
    <3>2. pc[At(n)] = "raised" BY <1>3, <2>4 DEF ScanStillGood
    <3> QED BY <3>1, <3>2, <2>4, RaisedStays
  <2> QED BY <2>2, <2>3, <2>4
<1> QED BY <1>1, <1>2, <1>3, StepShape

LEMMA RepeatsStep ==
  ASSUME TypeOK, LockHeld, ScanStillGood, RepeatsInText, Next
  PROVE  RepeatsInText'
<1> SUFFICES ASSUME NEW m \in Positions', NEW n \in Positions', m # n,
                    At(m)' # Garbled, At(n)' # Garbled,
                    Identity[At(m)'] = Identity[At(n)']
             PROVE  "raised" \in {pc'[At(m)'], pc'[At(n)']}
  BY DEF RepeatsInText
<1>1. ASSUME m \in Positions, At(m)' = At(m), n \in Positions, At(n)' = At(n)
      PROVE  "raised" \in {pc'[At(m)'], pc'[At(n)']}
  <2>1. At(m) \in Appenders /\ At(n) \in Appenders BY <1>1, AtTyped
  <2>2. "raised" \in {pc[At(m)], pc[At(n)]} BY <1>1 DEF RepeatsInText
  <2> QED BY <1>1, <2>1, <2>2, RaisedStays
<1>2. CASE UNCHANGED <<lines, tail>>
  BY <1>1, <1>2, QuietText
<1>3. ASSUME NEW p \in Appenders, NEW i \in 1..4, NEW j \in 0..3, AppendParts(p, i, j),
             pc[p] = "write" \/ pc'[p] = "raised"
      PROVE  "raised" \in {pc'[At(m)'], pc'[At(n)']}
  <2>1. \A k \in Positions' :
          \/ At(k)' = Garbled
          \/ k \in Positions /\ At(k)' = At(k)
          \/ k = Len(lines) + 1 /\ At(k)' = p
    BY <1>3, AppendEffect
  <2>2. ASSUME NEW k \in Positions, At(k) # Garbled, Identity[At(k)] = Identity[p],
               pc[p] = "write"
        PROVE  pc'[At(k)] = "raised"
    <3>1. At(k) \in Appenders /\ pc[At(k)] = "raised"
      BY <2>2, AtTyped DEF ScanStillGood
    <3> QED BY <3>1, RaisedStays
  <2>3. CASE m = Len(lines) + 1 /\ At(m)' = p
    <3>1. n \in Positions /\ At(n)' = At(n) BY <2>1, <2>3
    <3> QED BY <1>3, <2>2, <2>3, <3>1
  <2>4. CASE n = Len(lines) + 1 /\ At(n)' = p
    <3>1. m \in Positions /\ At(m)' = At(m) BY <2>1, <2>4
    <3> QED BY <1>3, <2>2, <2>4, <3>1
  <2> QED BY <1>1, <2>1, <2>3, <2>4
<1> QED BY <1>2, <1>3, StepShape

LEMMA Writes ==
  ASSUME TypeOK, Next, NEW q \in Appenders, pc'[q] \in {"sync", "true"},
         pc[q] \notin {"sync", "true"}
  PROVE  Write(q)
BY DEF TypeOK, Next, Step, Lock, ScanFound, ScanRaises, ScanClean, Write, WriteFails, Sync,
       SyncFails, Close, Crash, Terminated, Ended, vars

LEMMA LineStep ==
  ASSUME TypeOK, WrittenIsALine, Next
  PROVE  WrittenIsALine'
<1> SUFFICES ASSUME NEW q \in Appenders, pc'[q] \in {"sync", "true"}
             PROVE  \E n \in 1..Len(lines') : lines'[n] \in {q, Garbled}
  BY DEF WrittenIsALine
<1>0. lines \in Seq(Appenders \union {Garbled}) BY DEF TypeOK
<1>1. CASE pc[q] \in {"sync", "true"}
  <2>1. PICK n \in 1..Len(lines) : lines[n] \in {q, Garbled}
    BY <1>1 DEF WrittenIsALine
  <2>2. lines' \in Seq(Appenders \union {Garbled}) /\ Len(lines') >= Len(lines)
        /\ lines'[n] = lines[n]
    <3>1. CASE UNCHANGED <<lines, tail>> BY <1>0, <3>1
    <3>2. ASSUME NEW p \in Appenders, NEW i \in 1..4, NEW j \in 0..3, AppendParts(p, i, j)
          PROVE  <2>2
      BY <3>2, AppendEffect
    <3> QED BY <3>1, <3>2, StepShape
  <2> QED BY <1>0, <2>1, <2>2
<1>2. CASE pc[q] \notin {"sync", "true"}
  <2>1. AppendParts(q, 1, 3) BY <1>2, Writes DEF Write
  <2>2. lines' = Append(lines, LineOf(Extended(q, 1, 3))) BY <2>1 DEF AppendParts
  <2>3. LineOf(Extended(q, 1, 3)) \in {q, Garbled} BY FullWrite
  <2> QED BY <1>0, <2>2, <2>3
<1> QED BY <1>1, <1>2

-----------------------------------------------------------------------------
(* LedgerInv holds in every reachable state of append_trend_once. *)
THEOREM Invariance == Spec => []LedgerInv
<1>1. Init => LedgerInv BY InitInv
<1>2. LedgerInv /\ [Next]_vars => LedgerInv'
  <2> SUFFICES ASSUME LedgerInv, [Next]_vars PROVE LedgerInv'
    OBVIOUS
  <2> USE DEF LedgerInv
  <2>1. TypeOK' /\ LockHeld' BY TypeStep, LockStep
  <2>2. CASE Next
    BY <2>1, <2>2, ScanStep, RepeatsStep, LineStep
  <2>3. CASE UNCHANGED vars
    <3>1. UNCHANGED <<lines, tail>> /\ UNCHANGED pc BY <2>3 DEF vars
    <3>2. Positions' = Positions /\ \A n : At(n)' = At(n) BY <3>1, QuietText
    <3>3. ScanStillGood' /\ RepeatsInText' BY <3>1, <3>2 DEF ScanStillGood, RepeatsInText
    <3>4. WrittenIsALine' BY <3>1 DEF WrittenIsALine
    <3> QED BY <2>1, <3>3, <3>4
  <2> QED BY <2>2, <2>3
<1> QED BY <1>1, <1>2, PTL DEF Spec

(* Every variable of the ledger stays in its type. *)
THEOREM TypeCorrect == Spec => []TypeOK
<1>1. LedgerInv => TypeOK BY DEF LedgerInv
<1> QED BY <1>1, Invariance, PTL

(* Two rows of one identity need a call that raised, for any number of
   processes, failures and deaths. *)
THEOREM RepeatsTheorem == Spec => []RepeatsNeedAnError
<1>1. LedgerInv => RepeatsNeedAnError
  <2> SUFFICES ASSUME LedgerInv PROVE RepeatsNeedAnError
    OBVIOUS
  <2>1. \A n \in 1..Len(lines) : n \in Positions /\ At(n) = lines[n]
    BY DEF LedgerInv, TypeOK, Positions, At
  <2> QED BY <2>1 DEF LedgerInv, RepeatsInText, RepeatsNeedAnError
<1> QED BY <1>1, Invariance, PTL

(* A row whose call returned True is a line of the file, unless the file
   holds a line that every full scan refuses. *)
THEOREM LossTheorem == Spec => []LossIsLoud
<1>1. LedgerInv => LossIsLoud
  BY DEF LedgerInv, WrittenIsALine, LossIsLoud
<1> QED BY <1>1, Invariance, PTL

LEMMA TailEffect ==
  ASSUME TypeOK, NEW p \in Appenders, NEW i \in 1..4, NEW j \in 0..3, AppendParts(p, i, j),
         tail # Empty, tail' # tail
  PROVE  \/ tail' = Empty /\ Len(lines') > Len(lines)
         \/ tail' \in {Junk, [tail EXCEPT !.upto = 2]}
<1>1. CASE j = 3
  <2>1. tail' = Empty /\ \E x : lines' = Append(lines, x) BY <1>1 DEF AppendParts
  <2> QED BY <2>1 DEF TypeOK
<1>2. CASE j # 3
  <2>1. tail' = Extended(p, i, j) /\ i <= j /\ i # 3 BY <1>2 DEF AppendParts, Extended
  <2>2. CASE tail = [by |-> p, upto |-> i - 1]
    <3>1. i = 2 BY <2>1, <2>2, LedgerAssumption DEF TypeOK, Tails, Empty, Junk
    <3> QED BY <2>1, <2>2, <3>1 DEF Extended
  <2>3. CASE tail # [by |-> p, upto |-> i - 1]
    BY <2>1, <2>3 DEF Extended
  <2> QED BY <2>2, <2>3
<1> QED BY <1>1, <1>2

(* The lines of the file are never rewritten, and an unterminated tail is
   only completed, ended or spoilt. *)
THEOREM AppendOnlyTheorem == Spec => AppendOnly
<1> DEFINE Kept ==
      /\ Len(lines) <= Len(lines')
      /\ \A n \in 1..Len(lines) : lines'[n] = lines[n]
      /\ (tail # Empty /\ tail' # tail) =>
           \/ tail' = Empty /\ Len(lines') > Len(lines)
           \/ tail' \in {Junk, [tail EXCEPT !.upto = 2]}
<1>1. TypeOK /\ [Next]_vars => [Kept]_<<lines, tail>>
  <2> SUFFICES ASSUME TypeOK, Next, ~UNCHANGED <<lines, tail>> PROVE Kept
    BY DEF vars
  <2>1. PICK p \in Appenders : \E i \in 1..4, j \in 0..3 : AppendParts(p, i, j)
    BY StepShape
  <2>2. PICK i \in 1..4, j \in 0..3 : AppendParts(p, i, j) BY <2>1
  <2>3. Len(lines') >= Len(lines) /\ \A n \in 1..Len(lines) : lines'[n] = lines[n]
    BY <2>2, AppendEffect
  <2>4. Len(lines) \in Nat /\ Len(lines') \in Nat
    BY <2>2, AppendEffect DEF TypeOK
  <2> QED BY <2>2, <2>3, <2>4, TailEffect
<1>2. LedgerInv => TypeOK BY DEF LedgerInv
<1> QED BY <1>1, <1>2, Invariance, PTL DEF Spec, AppendOnly
=============================================================================
