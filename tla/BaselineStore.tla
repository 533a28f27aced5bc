--------------------------- MODULE BaselineStore ---------------------------
(***************************************************************************)
(* watch/baseline.py: the snapshots table `watch` compares scans with, as  *)
(* operators on the set of its rows.  Every operation opens a connection   *)
(* of its own and commits or rolls back alone.                             *)
(*                                                                         *)
(* A report is [target, config, analyzers]: the scanned host, what its     *)
(* config_hash stands for, and for every analyzer whether it produced a    *)
(* report, that report's grade and the ids of its findings.  The times of  *)
(* a row and of a clock are numbers; ISO strings of one time zone sort the *)
(* same way, with or without a fraction.                                   *)
(*                                                                         *)
(* Definitions named Bug_... are mutated forms used to test properties.    *)
(***************************************************************************)
EXTENDS Integers, FiniteSets

NoDiff == [exists |-> FALSE, added |-> {}, removed |-> {}, changed |-> {}]

Bug_InsertOnly(rows, report, now) ==
  rows \cup {[target |-> report.target, at |-> now, payload |-> report]}

\* BaselineStore.record: INSERT OR REPLACE under the key (target, recorded_at).
Record(rows, report, now) ==
  {r \in rows : r.target # report.target \/ r.at # now}
    \cup {[target |-> report.target, at |-> now, payload |-> report]}

\* ORDER BY recorded_at DESC: the key makes the newest row of a target unique.
Newest(rows) == CHOOSE r \in rows : \A q \in rows : q.at <= r.at

Bug_AnyTarget(rows, target) == rows

RowsOf(rows, target) == {r \in rows : r.target = target}

Bug_NoOffset(rows, target) ==
  IF RowsOf(rows, target) = {} THEN {} ELSE {Newest(RowsOf(rows, target))}

\* BaselineStore.previous: LIMIT 1 OFFSET 1, so the newest but one of the
\* target's rows, when it has two: a set of at most one row.
Previous(rows, target) ==
  LET mine  == RowsOf(rows, target)
      older == mine \ {Newest(mine)}
  IN  IF mine = {} \/ older = {} THEN {} ELSE {Newest(older)}

\* The (analyzer, finding id) pairs of the analyzers that produced a report.
FindingsIn(report) ==
  UNION { {<<a, f>> : f \in report.analyzers[a].findings} :
          a \in {b \in DOMAIN report.analyzers : report.analyzers[b].reported} }

\* Analyzers that produced a report both times, with different grades.
Regraded(before, after) ==
  {a \in DOMAIN before.analyzers \cap DOMAIN after.analyzers :
     /\ before.analyzers[a].reported
     /\ after.analyzers[a].reported
     /\ before.analyzers[a].grade # after.analyzers[a].grade}

Bug_DiffOnlyAdds(before, after) ==
  [exists |-> TRUE,
   added |-> FindingsIn(after) \ FindingsIn(before),
   removed |-> {},
   changed |-> Regraded(before, after)]

DiffOf(before, after) ==
  [exists |-> TRUE,
   added |-> FindingsIn(after) \ FindingsIn(before),
   removed |-> FindingsIn(before) \ FindingsIn(after),
   changed |-> Regraded(before, after)]

\* BaselineStore.diff_against_previous.
DiffAgainstPrevious(rows, current) ==
  LET row == Previous(rows, current.target)
  IN  IF row = {} THEN NoDiff
      ELSE DiffOf((CHOOSE r \in row : TRUE).payload, current)

\* Diff.is_meaningful, and watch_loop's "diff is not None" before it.
Meaningful(diff) ==
  diff.exists /\ (diff.added # {} \/ diff.removed # {} \/ diff.changed # {})
=============================================================================
