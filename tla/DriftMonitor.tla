---------------------------- MODULE DriftMonitor ----------------------------
(***************************************************************************)
(* What a `watch` daemon is for, without rounds, targets to go through,    *)
(* signals, transactions or a table: reports come in one after the other,  *)
(* and drift between a report and the one before it of the same target is  *)
(* told, once, unless the daemon fails over it.  Every report is dealt     *)
(* with before the next one comes in.  WatchLoop implements it.            *)
(***************************************************************************)
EXTENDS Integers, Sequences

CONSTANTS
  Reports,       \* the reports that may come in, records with a target
  Drifts(_, _)   \* whether the second of two reports drifted from the first

VARIABLES
  log,      \* the reports so far
  pending,  \* the report that is yet to be dealt with, if any
  told,     \* the reports whose drift was told
  lost      \* those the daemon failed over

mvars == <<log, pending, told, lost>>

Init == log = <<>> /\ pending = {} /\ told = {} /\ lost = {}

\* The reports of the i-th one's target that came in before it.
Before(i) == {j \in 1..(i - 1) : log[j].target = log[i].target}

Drifted(i) ==
  \E j \in Before(i) : (\A k \in Before(i) : k <= j) /\ Drifts(log[j], log[i])

Receive(r) ==
  /\ pending = {}
  /\ log' = Append(log, r)
  /\ pending' = {Len(log) + 1}
  /\ UNCHANGED <<told, lost>>

Tell ==
  /\ \E i \in pending : told' = IF Drifted(i) THEN told \cup {i} ELSE told
  /\ pending' = {}
  /\ UNCHANGED <<log, lost>>

Lose ==
  /\ \E i \in pending : lost' = lost \cup {i}
  /\ pending' = {}
  /\ UNCHANGED <<log, told>>

Next == (\E r \in Reports : Receive(r)) \/ Tell \/ Lose

Spec == Init /\ [][Next]_mvars
=============================================================================
