---------------------------- MODULE TrendLedger ----------------------------
(***************************************************************************)
(* append_trend_once: several processes append rows to one trends file     *)
(* under an advisory lock, each row at most once per identity.             *)
(*                                                                         *)
(* The text of a row is written in three parts: 1 ends inside the JSON     *)
(* object, 2 at its closing brace, 3 after the newline.  A write(2) may    *)
(* fail after any part; what it left in the buffer is tried again when the *)
(* with-block closes the file, after the lock was given up.                *)
(***************************************************************************)
EXTENDS Naturals, Sequences

CONSTANTS
  Appenders,    \* calls of append_trend_once on one ledger
  Identity,     \* Identity[p]: (task, candidate, version, run_id) of p's row
  Garbled,      \* a line that is not one JSON object
  Nobody        \* the holder of a lock that is free

ASSUME LedgerAssumption == Garbled \notin Appenders /\ Nobody \notin Appenders

VARIABLES
  lines,     \* the lines of the file that end in a newline
  tail,      \* the unterminated end of the file
  lock,      \* the holder of the flock
  pc,        \* pc[p]: where p's call stands
  left       \* left[p]: the part at which p's unwritten buffer starts

vars == <<lines, tail, lock, pc, left>>

NothingLeft == 4
Empty == [by |-> Garbled, upto |-> 0]
Junk == [by |-> Garbled, upto |-> 1]
Tails == {Empty, Junk} \union [by : Appenders, upto : {1, 2}]
Ended == {"true", "false", "raised", "crashed"}
PCs == {"start", "scan", "write", "sync", "closing"} \union Ended

Init ==
  /\ lines = <<>>
  /\ tail = Empty
  /\ lock = Nobody
  /\ pc = [p \in Appenders |-> "start"]
  /\ left = [p \in Appenders |-> NothingLeft]

-----------------------------------------------------------------------------
(* The bytes of the file. *)

(* The unterminated text once parts i..j of p, newline apart, follow it. *)
Extended(p, i, j) ==
  IF i = 3 THEN tail
  ELSE IF (tail = Empty /\ i = 1) \/ tail = [by |-> p, upto |-> i - 1]
  THEN [by |-> p, upto |-> IF j = 1 THEN 1 ELSE 2]
  ELSE Junk

(* The line a newline makes of text t: a row only if t is one whole object. *)
LineOf(t) == IF t.upto = 2 THEN t.by ELSE Garbled

(* Variants of the append: the file is truncated first; the row is written
   over the first line. *)
TruncatingParts(p, i, j) ==
  IF j = 3 THEN lines' = <<LineOf(Extended(p, i, j))>> /\ tail' = Empty
  ELSE UNCHANGED <<lines, tail>>

OverwritingParts(p, i, j) ==
  IF j = 3 /\ lines # <<>> THEN lines' = [lines EXCEPT ![1] = p] /\ tail' = Empty
  ELSE IF j = 3 THEN lines' = <<p>> /\ tail' = Empty
  ELSE UNCHANGED <<lines, tail>>

(* One write(2) in append mode of parts i..j of p's row. *)
AppendParts(p, i, j) ==
  \/ i > j /\ UNCHANGED <<lines, tail>>
  \/ i <= j /\ j = 3 /\ lines' = Append(lines, LineOf(Extended(p, i, j))) /\ tail' = Empty
  \/ i <= j /\ j < 3 /\ lines' = lines /\ tail' = Extended(p, i, j)

(* Variant: the buffer's start is off by one. *)
RemainingOffByOne(k) == k
Remaining(k) == k + 1

(* What output.read().splitlines() returns. *)
Read == IF tail = Empty THEN lines ELSE Append(lines, LineOf(tail))

(* Variant: rows are told apart by who wrote them. *)
SameRow(q, p) == q = p
SameIdentity(q, p) == q # Garbled /\ Identity[q] = Identity[p]

(* The scan stops at the first line with p's identity, or raises at the
   first line json.loads refuses. *)
FoundAt(p, n) == SameIdentity(Read[n], p) /\ \A m \in 1..(n - 1) : Read[m] # Garbled
Found(p) == \E n \in 1..Len(Read) : FoundAt(p, n)
Clean == \A n \in 1..Len(Read) : Read[n] # Garbled

-----------------------------------------------------------------------------
(* Variant: the file is appended to without the lock. *)
UnlockedGuard == TRUE
LockFree == lock = Nobody

(* Variant: the lock is not given up when the body raises. *)
HeldOnError(p) == p
AfterError(p) == Nobody

(* open("a+b") and flock(LOCK_EX). *)
Lock(p) ==
  /\ pc[p] = "start"
  /\ LockFree
  /\ lock' = p
  /\ pc' = [pc EXCEPT ![p] = "scan"]
  /\ UNCHANGED <<lines, tail, left>>

(* A row with this identity is there already: return False. *)
ScanFound(p) ==
  /\ pc[p] = "scan"
  /\ Found(p)
  /\ lock' = Nobody
  /\ pc' = [pc EXCEPT ![p] = "false"]
  /\ UNCHANGED <<lines, tail, left>>

(* json.loads raises on a line that is not one object. *)
ScanRaises(p) ==
  /\ pc[p] = "scan"
  /\ ~Found(p)
  /\ ~Clean
  /\ lock' = AfterError(p)
  /\ pc' = [pc EXCEPT ![p] = "raised"]
  /\ UNCHANGED <<lines, tail, left>>

ScanClean(p) ==
  /\ pc[p] = "scan"
  /\ ~Found(p)
  /\ Clean
  /\ pc' = [pc EXCEPT ![p] = "write"]
  /\ UNCHANGED <<lines, tail, lock, left>>

(* output.write and flush, the whole payload in one write(2). *)
Write(p) ==
  /\ pc[p] = "write"
  /\ AppendParts(p, 1, 3)
  /\ pc' = [pc EXCEPT ![p] = "sync"]
  /\ UNCHANGED <<lock, left>>

(* flush fails after k parts: the finally clause unlocks, the rest of the
   payload stays in the buffer of the file object. *)
WriteFails(p) ==
  /\ pc[p] = "write"
  /\ \E k \in 0..2 : AppendParts(p, 1, k) /\ left' = [left EXCEPT ![p] = Remaining(k)]
  /\ lock' = AfterError(p)
  /\ pc' = [pc EXCEPT ![p] = "closing"]

(* fsync, unlock, return True. *)
Sync(p) ==
  /\ pc[p] = "sync"
  /\ lock' = Nobody
  /\ pc' = [pc EXCEPT ![p] = "true"]
  /\ UNCHANGED <<lines, tail, left>>

SyncFails(p) ==
  /\ pc[p] = "sync"
  /\ lock' = AfterError(p)
  /\ pc' = [pc EXCEPT ![p] = "raised"]
  /\ UNCHANGED <<lines, tail, left>>

(* Leaving the with-block closes the file, which flushes the buffer again,
   without the lock and as far as it gets this time; the first exception is
   raised either way. *)
Close(p) ==
  /\ pc[p] = "closing"
  /\ \E k \in 0..3 : k >= left[p] - 1 /\ AppendParts(p, left[p], k)
  /\ left' = [left EXCEPT ![p] = NothingLeft]
  /\ pc' = [pc EXCEPT ![p] = "raised"]
  /\ UNCHANGED lock

(* The process dies; the kernel drops its lock.  A write under way may have
   left any of its parts. *)
Crash(p) ==
  /\ pc[p] \notin Ended
  /\ IF pc[p] = "write"
     THEN \E k \in 0..2 : AppendParts(p, 1, k)
     ELSE UNCHANGED <<lines, tail>>
  /\ lock' = IF lock = p THEN Nobody ELSE lock
  /\ left' = [left EXCEPT ![p] = NothingLeft]
  /\ pc' = [pc EXCEPT ![p] = "crashed"]

Terminated ==
  /\ \A p \in Appenders : pc[p] \in Ended
  /\ UNCHANGED vars

Step(p) ==
  \/ Lock(p)
  \/ ScanFound(p) \/ ScanRaises(p) \/ ScanClean(p)
  \/ Write(p) \/ WriteFails(p)
  \/ Sync(p) \/ SyncFails(p)
  \/ Close(p)

Next == (\E p \in Appenders : Step(p) \/ Crash(p)) \/ Terminated

Spec == Init /\ [][Next]_vars

(* A process that is scheduled gets the lock once it is free: every call
   takes it once, so it cannot be taken from under a waiter for ever. *)
FairSpec == Spec /\ \A p \in Appenders : WF_vars(Step(p))

-----------------------------------------------------------------------------
TypeOK ==
  /\ lines \in Seq(Appenders \union {Garbled})
  /\ tail \in Tails
  /\ lock \in Appenders \union {Nobody}
  /\ pc \in [Appenders -> PCs]
  /\ left \in [Appenders -> 1..NothingLeft]

(* "Append unless this run/candidate identity already exists, under one
   lock": no identity has two rows. *)
UniqueRows ==
  \A m, n \in 1..Len(lines) :
    (m # n /\ lines[m] # Garbled /\ lines[n] # Garbled) => Identity[lines[m]] # Identity[lines[n]]

(* Two rows with one identity need an appender that raised: the calls that
   return normally never repeat a row, wherever processes die and wherever
   a write stops. *)
RepeatsNeedAnError ==
  \A m, n \in 1..Len(lines) :
    (/\ m # n
     /\ lines[m] # Garbled
     /\ lines[n] # Garbled
     /\ Identity[lines[m]] = Identity[lines[n]])
    => "raised" \in {pc[lines[m]], pc[lines[n]]}

(* A row whose appender returned True is lost only in a ledger that every
   later scan of the whole file refuses. *)
LossIsLoud ==
  \A p \in Appenders :
    (pc[p] = "true") =>
      \E n \in 1..Len(lines) : lines[n] \in {p, Garbled}

(* A row that is a line of the file stays that line, at its place: the
   existing bytes are preserved when later runs append. *)
AppendOnly ==
  [][ /\ Len(lines) <= Len(lines')
      /\ \A n \in 1..Len(lines) : lines'[n] = lines[n]
      /\ (tail # Empty /\ tail' # tail) =>
           \/ tail' = Empty /\ Len(lines') > Len(lines)
           \/ tail' \in {Junk, [tail EXCEPT !.upto = 2]} ]_<<lines, tail>>

(* Every call ends: whoever holds the lock gives it up, by returning, by
   raising or by dying. *)
EveryCallEnds == \A p \in Appenders : <>(pc[p] \in Ended)

-----------------------------------------------------------------------------
(* The inductive invariant.  Positions of the text: the closed lines, and
   one for the unterminated tail. *)
Positions == 1..(Len(lines) + 1)
At(n) == IF n <= Len(lines) THEN lines[n] ELSE LineOf(tail)

(* The calls between their scan and their unlock hold the lock. *)
LockHeld == \A p \in Appenders : pc[p] \in {"scan", "write", "sync"} => lock = p

(* Between p's clean scan and its write, only the late flush of a failed
   call can have put p's identity into the file. *)
ScanStillGood ==
  \A p \in Appenders : pc[p] = "write" =>
    \A n \in Positions :
      (At(n) # Garbled /\ Identity[At(n)] = Identity[p]) => pc[At(n)] = "raised"

RepeatsInText ==
  \A m, n \in Positions :
    (/\ m # n
     /\ At(m) # Garbled
     /\ At(n) # Garbled
     /\ Identity[At(m)] = Identity[At(n)])
    => "raised" \in {pc[At(m)], pc[At(n)]}

(* A written row is a line, from the write on. *)
WrittenIsALine ==
  \A p \in Appenders : pc[p] \in {"sync", "true"} =>
    \E n \in 1..Len(lines) : lines[n] \in {p, Garbled}

LedgerInv == TypeOK /\ LockHeld /\ ScanStillGood /\ RepeatsInText /\ WrittenIsALine
=============================================================================
