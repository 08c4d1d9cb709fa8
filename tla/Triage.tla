------------------------------- MODULE Triage -------------------------------
(***************************************************************************)
(* mining/scripts/triage_delta.py and triage_store_scrub.py: a delta turns *)
(* the evidence rows of the day's nominations into a dated section of      *)
(* triage-inbox.md and keeps their keys in triage_evidence.jsonl, so that  *)
(* no later delta shows them again; a scrub marks rows of that store and   *)
(* replaces the file.                                                      *)
(*                                                                         *)
(* Neither takes a lock.  Deltas are numbered in the order of their start; *)
(* scrubs come one after the other.  A row is its key, the delta that      *)
(* stored it and its mark.                                                 *)
(***************************************************************************)
EXTENDS Naturals, Sequences, SequencesExt

CONSTANTS
  Keys,       \* the keys source|class|session|line that occur
  Reports,    \* what the detectors may leave: sequences of keys
  Sandbox,    \* the keys whose row lies under results/
  Parent,     \* Parent[k]: the key of the same event in the forked session
  MaxDeltas,  \* bound on the deltas started
  MaxDay,     \* bound on the days that pass
  Plans       \* bounds on one behaviour: its deltas, what they may find and whether they
              \* may be cut off, its scrubs, weekly runs and days, which lanes its weekly
              \* runs live to start, how often codex is started and whether what it prints
              \* can be wide

ASSUME TriageAssumption ==
  /\ Reports \subseteq Seq(Keys) /\ Sandbox \subseteq Keys
  /\ DOMAIN Parent \subseteq Keys /\ \A k \in DOMAIN Parent : Parent[k] \in Keys
  /\ MaxDeltas \in Nat /\ MaxDay \in Nat
  /\ Plans \subseteq [deltas : 0..MaxDeltas, scrubs : Nat, weeklies : Nat, days : 0..MaxDay,
                      reports : SUBSET Reports, cuts : BOOLEAN,
                      lanes : SUBSET {"opus", "sol"}, rounds : Nat, wide : BOOLEAN]

VARIABLES
  plan,     \* the bounds chosen
  day,      \* the date
  store,    \* the rows of triage_evidence.jsonl
  broken,   \* whether it has a line that is no row
  ends,     \* how it ends: with whole lines ("line"), with a row that lacks its
            \* newline ("row") or with a part of one ("part")
  gen,      \* how often the file was replaced
  inbox,    \* the sections of triage-inbox.md
  deltas,   \* deltas[d]: where delta d stands and what it knows
  scrub,    \* the scrub: whether it is running, and its copy of the store
  scrubs    \* how many scrubs have been started

triageVars == <<plan, day, store, broken, ends, gen, inbox, deltas, scrub, scrubs>>

Deltas == 1..MaxDeltas
KeysOf(rows) == {rows[n].key : n \in DOMAIN rows}
NoDelta == [pc |-> "off", today |-> 0, seen |-> {}, new |-> <<>>, gen |-> 0,
            raced |-> FALSE, after |-> {}]
NoScrub == [running |-> FALSE, rows |-> <<>>]

TriageInit ==
  /\ plan \in Plans
  /\ day = 0
  /\ store = <<>> /\ broken = FALSE /\ ends = "line" /\ gen = 0
  /\ inbox = <<>>
  /\ deltas = [d \in Deltas |-> NoDelta]
  /\ scrub = NoScrub /\ scrubs = 0

Midnight ==
  /\ day < plan.days
  /\ day' = day + 1
  /\ UNCHANGED <<plan, store, broken, ends, gen, inbox, deltas, scrub, scrubs>>

-----------------------------------------------------------------------------
(* triage_delta. *)

(* The delta has put its rows into the store, as far as it knows. *)
Stored(d) == deltas[d].pc \in {"inbox", "done"}

(* It takes the date and reads the store; a line that is no row ends it. *)
ReadStore(d) ==
  /\ deltas[d].pc = "off"
  /\ d <= plan.deltas
  /\ d > 1 => deltas[d - 1].pc # "off"
  /\ deltas' = [deltas EXCEPT ![d] =
       [@ EXCEPT !.pc = IF broken THEN "dead" ELSE "report", !.today = day,
                 !.seen = KeysOf(store), !.after = {e \in Deltas : Stored(e)}]]
  /\ UNCHANGED <<plan, day, store, broken, ends, gen, inbox, scrub, scrubs>>

(* The rows whose key is not in seen, in order; a row that is there twice twice. *)
New(seen, report) ==
  LET new[n \in 0..Len(report)] ==
        IF n = 0 THEN <<>>
        ELSE IF report[n] \in seen THEN new[n - 1] ELSE Append(new[n - 1], report[n])
  IN new[Len(report)]

(* It is over: what it had read does not matter any more. *)
Over(d, pc) == [deltas[d] EXCEPT !.pc = pc, !.seen = {}, !.new = <<>>, !.gen = 0]

(* It reads what the detectors have found by now and, when there is something
   new, opens the store for appending. *)
ReadReport(d, report) ==
  /\ deltas[d].pc = "report"
  /\ LET new == New(deltas[d].seen, report) IN
     deltas' = [deltas EXCEPT ![d] =
       IF new = <<>> THEN Over(d, "done")
       ELSE [@ EXCEPT !.pc = "store", !.seen = {}, !.new = new, !.gen = gen]]
  /\ UNCHANGED <<plan, day, store, broken, ends, gen, inbox, scrub, scrubs>>

RowsOf(d, keys) == [n \in DOMAIN keys |-> [key |-> keys[n], by |-> d, excluded |-> "no"]]

(* What is appended to a file that ends inside a line goes on with that line:
   a row that lacked its newline and the first row that is added are lost. *)
Glued == ends # "line"
Kept == IF ends = "row" THEN Front(store) ELSE store
Added(rows) == IF Glued /\ rows # <<>> THEN Tail(rows) ELSE rows

(* Rows reach the store, the last bytes being those of a whole line or not,
   unless the file that was opened is no longer the store.  For the properties:
   whether a scrub was under way or had been, or the store ended inside a line. *)
Put(d, rows, last, then) ==
  LET gone == deltas[d].gen # gen
      nothing == rows = <<>> /\ last = "line"
  IN
  /\ IF gone \/ nothing THEN UNCHANGED <<store, broken, ends>>
     ELSE /\ store' = Kept \o Added(rows)
          /\ broken' = (broken \/ Glued \/ last = "part")
          /\ ends' = IF last = "row" /\ Added(rows) = <<>> THEN "part" ELSE last
  /\ deltas' = [deltas EXCEPT ![d] = [then EXCEPT !.raced = gone \/ scrub.running \/ Glued]]

(* Closing the store writes the rows out.  Bound: a delta's rows fit into the
   file's buffer, so that they reach the file in one write. *)
AppendRows(d) ==
  /\ deltas[d].pc = "store"
  /\ Put(d, RowsOf(d, deltas[d].new), "line", [deltas[d] EXCEPT !.pc = "inbox", !.gen = 0])
  /\ UNCHANGED <<plan, day, gen, inbox, scrub, scrubs>>

(* A full disk or a death: the first rows, the last of them perhaps without its
   newline, and perhaps a part of the next. *)
AppendBreaks(d) ==
  /\ plan.cuts
  /\ deltas[d].pc = "store"
  /\ \E n \in 0..Len(deltas[d].new), last \in {"line", "row", "part"} :
       /\ IF last = "row" THEN n > 0 ELSE n < Len(deltas[d].new)
       /\ Put(d, RowsOf(d, SubSeq(deltas[d].new, 1, n)), last, Over(d, "dead"))
  /\ UNCHANGED <<plan, day, gen, inbox, scrub, scrubs>>

(* A section bears the date the delta began on.  It is headed when its heading
   begins a line, which it does not behind one that ends inside a line.  For the
   properties, also who wrote it and when. *)
Section(d, keys, heading, torn) ==
  [by |-> d, day |-> deltas[d].today, on |-> day, keys |-> keys, torn |-> torn,
   headed |-> heading /\ (inbox = <<>> \/ ~Last(inbox).torn)]

AppendSection(d) ==
  /\ deltas[d].pc = "inbox"
  /\ inbox' = Append(inbox, Section(d, Range(deltas[d].new), TRUE, FALSE))
  /\ deltas' = [deltas EXCEPT ![d] = Over(d, "done")]
  /\ UNCHANGED <<plan, day, store, broken, ends, gen, scrub, scrubs>>

(* A full disk or a death: with the heading some of the rows, which are not in
   the store's order, or no heading; the last line may be incomplete. *)
SectionBreaks(d) ==
  /\ plan.cuts
  /\ deltas[d].pc = "inbox"
  /\ \E keys \in SUBSET Range(deltas[d].new), heading, torn \in BOOLEAN :
       /\ heading \/ (keys = {} /\ torn)
       /\ inbox' = Append(inbox, Section(d, keys, heading, torn))
  /\ deltas' = [deltas EXCEPT ![d] = Over(d, "dead")]
  /\ UNCHANGED <<plan, day, store, broken, ends, gen, scrub, scrubs>>

DeltaDies(d) ==
  /\ plan.cuts
  /\ deltas[d].pc \in {"report", "store", "inbox"}
  /\ deltas' = [deltas EXCEPT ![d] = Over(d, "dead")]
  /\ UNCHANGED <<plan, day, store, broken, ends, gen, inbox, scrub, scrubs>>

-----------------------------------------------------------------------------
(* triage_store_scrub. *)

(* A row that is not excluded yet is when it comes from the sandboxes, or when
   its session is a fork of one that has the event too. *)
Mark(row, rows, forks) ==
  IF row.excluded # "no" THEN row
  ELSE IF row.key \in Sandbox THEN [row EXCEPT !.excluded = "sandbox-corpus"]
  ELSE IF row.key \in forks /\ Parent[row.key] \in KeysOf(rows)
       THEN [row EXCEPT !.excluded = "lineage-dupe"] ELSE row

(* Variant: rows that are marked are dropped. *)
MarkedRowsGo(rows, forks) ==
  SelectSeq(rows, LAMBDA r : Mark(r, rows, forks).excluded = "no")

Scrubbed(rows, forks) == [n \in DOMAIN rows |-> Mark(rows[n], rows, forks)]

(* It reads the store, which has to be there and whole, marks its rows and
   writes them to a file beside it; forks is what the failure detector has
   found out. *)
ScrubReads(forks) ==
  /\ ~scrub.running
  /\ scrubs < plan.scrubs
  /\ store # <<>>
  /\ ~broken
  /\ scrub' = [running |-> TRUE, rows |-> Scrubbed(store, forks)]
  /\ scrubs' = scrubs + 1
  /\ UNCHANGED <<plan, day, store, broken, ends, gen, inbox, deltas>>

(* tmp.replace(store_path) *)
ScrubReplaces ==
  /\ scrub.running
  /\ store' = scrub.rows
  /\ broken' = FALSE /\ ends' = "line"
  /\ gen' = gen + 1
  /\ scrub' = NoScrub
  /\ UNCHANGED <<plan, day, inbox, deltas, scrubs>>

ScrubDies ==
  /\ scrub.running
  /\ scrub' = NoScrub
  /\ UNCHANGED <<plan, day, store, broken, ends, gen, inbox, deltas, scrubs>>

-----------------------------------------------------------------------------
DeltaStep(d) ==
  \/ ReadStore(d) \/ (\E r \in plan.reports : ReadReport(d, r)) \/ AppendRows(d) \/ AppendBreaks(d)
  \/ AppendSection(d) \/ SectionBreaks(d) \/ DeltaDies(d)

TriageNext ==
  \/ Midnight
  \/ \E d \in Deltas : DeltaStep(d)
  \/ \E forks \in SUBSET DOMAIN Parent : ScrubReads(forks)
  \/ ScrubReplaces \/ ScrubDies

-----------------------------------------------------------------------------
(* A row of the store is shown in the inbox, unless its delta was cut off. *)
StoredIsShown ==
  \A n \in DOMAIN store :
    \/ deltas[store[n].by].pc \in {"inbox", "dead"}
    \/ \E s \in Range(inbox) : s.by = store[n].by /\ store[n].key \in s.keys

(* What a section shows keeps its key in the store, marked or not, unless a
   scrub was under way when the delta wrote, or the store ended inside a line. *)
ShownIsStored ==
  \A s \in Range(inbox) : s.keys \subseteq KeysOf(store) \/ deltas[s.by].raced

(* Two sections show the same evidence only if the later delta had read the
   store before the earlier one wrote, or the earlier one's rows were lost. *)
ShownOnce ==
  \A s, t \in Range(inbox) :
    (s.by \in deltas[t.by].after /\ ~deltas[s.by].raced) => s.keys \cap t.keys = {}

(* triage_delta's promise to its reader, "only new evidence" and all of it:
   the store and the inbox say the same, whatever was scrubbed or cut off. *)
InboxAgreesWithStore == StoredIsShown /\ ShownIsStored /\ ShownOnce
=============================================================================
