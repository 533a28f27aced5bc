--------------------------- MODULE WatchLoopProofs ---------------------------
(***************************************************************************)
(* Proofs about the watch loop over its table of snapshots.                *)
(*                                                                         *)
(* For any number of daemons on one table and any settings of the clock:   *)
(* the types, that a daemon ends only after all its rounds, and that a     *)
(* diff compares two snapshots of one target.  For a daemon that has the   *)
(* table to itself and a clock that is never set back: that the diff is    *)
(* the one with the target's snapshot before, and that drift is told once, *)
(* whatever fails, for any number of targets, rounds and restarts.         *)
(***************************************************************************)
EXTENDS WatchLoop, TLAPS, WellFoundedInduction

-----------------------------------------------------------------------------
(* Facts about the table                                                   *)

LEMMA LessIsInRelation == \A x, y \in Nat : x < y => <<x, y>> \in OpToRel(<, Nat)
  BY DEF OpToRel

LEMMA LeastNatural ==
  ASSUME NEW T \in SUBSET Nat, T # {}
  PROVE  \E x \in T : \A y \in T : x <= y
<1>1. PICK x \in T : \A y \in T : <<y, x>> \notin OpToRel(<, Nat)
  BY NatLessThanWellFounded, WFMin
<1>2. \A y \in T : ~(y < x)
  BY <1>1, LessIsInRelation
<1> QED BY <1>2

\* A set of numbers with a bound has a greatest one.
LEMMA GreatestNatural ==
  ASSUME NEW n \in Nat, NEW T \in SUBSET (0..n), T # {}
  PROVE  \E x \in T : \A y \in T : y <= x
<1> DEFINE U == {n - x : x \in T}
<1>0. \A x \in T : n - x \in Nat
  OBVIOUS
<1>1. U \in SUBSET Nat /\ U # {}
  BY <1>0
<1> HIDE DEF U
<1>2. PICK u \in U : \A v \in U : u <= v
  BY <1>1, LeastNatural
<1>3. PICK x \in T : u = n - x
  BY <1>2 DEF U
<1>4. \A y \in T : u <= n - y
  BY <1>2 DEF U
<1> QED BY <1>3, <1>4

\* Rows that were written by some time have a newest one.
LEMMA NewestIsLast ==
  ASSUME NEW S, S # {}, NEW n \in Nat, \A r \in S : r.at \in 0..n
  PROVE  Newest(S) \in S /\ \A q \in S : q.at <= Newest(S).at
<1> DEFINE T == {r.at : r \in S}
<1>1. T \in SUBSET (0..n) /\ T # {}
  OBVIOUS
<1> HIDE DEF T
<1>2. PICK x \in T : \A y \in T : y <= x
  BY <1>1, GreatestNatural
<1>3. \E r \in S : \A q \in S : q.at <= r.at
  BY <1>2 DEF T
<1> QED BY <1>3 DEF Newest

\* The previous snapshot is a row of the target.
LEMMA PreviousIsOfTarget ==
  ASSUME NEW R, NEW t, NEW n \in Nat, \A r \in R : r.at \in 0..n
  PROVE  Previous(R, t) \subseteq RowsOf(R, t)
<1> DEFINE mine == RowsOf(R, t)
           older == mine \ {Newest(mine)}
<1>1. \A r \in older : r.at \in 0..n
  BY DEF RowsOf
<1>2. older # {} => Newest(older) \in older
  BY <1>1, NewestIsLast
<1> QED BY <1>2 DEF Previous

-----------------------------------------------------------------------------
(* Any daemons on one table                                                *)

Working == {"scanning", "recording", "diffing", "reporting"}

Hosts == {NoReport.target} \cup {Targets[i] : i \in 1..Len(Targets)}
Configs == {NoReport.config} \cup {s.config : s \in Setups}
Outcomes == {NoReport.analyzers} \cup UNION {Observations[c] : c \in DOMAIN Observations}
Reports == [target : Hosts, config : Configs, analyzers : Outcomes]

LocalsOK ==
  /\ snapshots \in Seq(Reports)
  /\ report \in [Daemons -> Reports]
  /\ DOMAIN diff = Daemons

\* What holds at each place of the loop: a target is at hand, a snapshot is
\* named once one was recorded, and a diff is counted once per report.
PlaceAt(d) ==
  /\ pc[d] \in Working => next[d] <= Len(Targets)
  /\ pc[d] \in {"diffing", "reporting"} => entry[d] # 0
  /\ roundsWithDiff[d] <= returned
  /\ pc[d] \in Working \ {"scanning"} => roundsWithDiff[d] < returned

PlaceOK == \A d \in Daemons : PlaceAt(d)

Typed == TypeOK /\ LocalsOK /\ PlaceOK

\* A daemon at work has rounds to do, and one that ended has done them all.
RoundsAt(d) ==
  /\ pc[d] \notin Ended /\ setup[d].max_iterations > 0 => iterations[d] < setup[d].max_iterations
  /\ pc[d] = "done" /\ ~stop[d] => /\ setup[d].max_iterations > 0
                                  /\ iterations[d] = setup[d].max_iterations

RoundsOK == \A d \in Daemons : RoundsAt(d)

\* A row holds a snapshot that was recorded, under its target.
TableOK ==
  /\ \E n \in Nat : \A r \in rows : r.at \in 0..n
  /\ \A r \in rows : /\ r.payload.target = r.target
                     /\ \E i \in 1..Len(snapshots) : snapshots[i] = r.payload

LEMMA ReportsAre == NoReport \in Reports
  BY DEF NoReport, Reports, Hosts, Configs, Outcomes

LEMMA TargetsAre == Len(Targets) \in Nat \ {0}
  BY WatchAssumption

LEMMA SetupsAre == \A s \in Setups : s.max_iterations \in 0..RoundCap
  BY WatchAssumption

LEMMA BoundsAre == RoundCap \in Nat /\ MaxReturned \in Nat /\ MaxStarts \in Nat /\ MaxSetBacks \in Nat
  BY WatchAssumption

LEMMA PlacesAre ==
  /\ Down = "down"
  /\ {"round", "target", "scanning", "recording", "diffing", "reporting", "sleeping",
      "done", "died", Down} \subseteq Places
  BY DEF Places, Ended, Down

\* Changing a function at one daemon.
LEMMA Updated ==
  ASSUME NEW S, NEW f \in [Daemons -> S], NEW d \in Daemons, NEW v \in S
  PROVE  /\ [f EXCEPT ![d] = v] \in [Daemons -> S]
         /\ [f EXCEPT ![d] = v][d] = v
         /\ \A e \in Daemons \ {d} : [f EXCEPT ![d] = v][e] = f[e]
  OBVIOUS

LEMMA Goes ==
  ASSUME TypeOK, NEW d \in Daemons, NEW place \in Places, Goto(d, place)
  PROVE  /\ pc' \in [Daemons -> Places]
         /\ pc'[d] = place
         /\ \A e \in Daemons \ {d} : pc'[e] = pc[e]
  BY Updated DEF TypeOK, Goto

\* What holds at the places of the others holds after a step of one daemon.
LEMMA OthersStay ==
  ASSUME TypeOK, PlaceOK, NEW d \in Daemons,
         \A e \in Daemons \ {d} : /\ pc'[e] = pc[e] /\ next'[e] = next[e]
                                  /\ entry'[e] = entry[e]
                                  /\ roundsWithDiff'[e] = roundsWithDiff[e],
         returned' \in {returned, returned + 1},
         PlaceAt(d)'
  PROVE  PlaceOK'
<1> SUFFICES ASSUME NEW e \in Daemons \ {d} PROVE PlaceAt(e)'
  BY DEF PlaceOK
<1>1. PlaceAt(e)
  BY DEF PlaceOK
<1>2. returned \in Nat /\ roundsWithDiff[e] \in Nat
  BY BoundsAre DEF TypeOK
<1> QED BY <1>1, <1>2 DEF PlaceAt

LEMMA InitTyped == Init => Typed
<1> SUFFICES ASSUME Init PROVE Typed
  OBVIOUS
<1> USE ReportsAre, TargetsAre, BoundsAre
<1>1. TypeOK
  BY PlacesAre DEF Init, TypeOK
<1>2. LocalsOK
  BY DEF Init, LocalsOK
<1>3. PlaceOK
  BY DEF Init, PlaceOK, PlaceAt, Working, Down
<1> QED BY <1>1, <1>2, <1>3 DEF Typed

\* Every step keeps the types and what holds at each place.
LEMMA NextTyped == Typed /\ [Next]_vars => Typed'
<1> SUFFICES ASSUME TypeOK, LocalsOK, PlaceOK, [Next]_vars
             PROVE  Typed'
  BY DEF Typed
<1>0. ASSUME NEW d \in Daemons
      PROVE  /\ PlaceAt(d)
             /\ next[d] \in Nat /\ entry[d] \in Nat /\ returned \in Nat
             /\ roundsWithDiff[d] \in Nat /\ Len(snapshots) \in Nat
  BY TargetsAre, BoundsAre DEF TypeOK, PlaceOK, LocalsOK
<1> USE PlacesAre, BoundsAre, TargetsAre
        DEF Typed, counters, locals, time, database, history, run
<1>1. ASSUME NEW d \in Daemons, BeginRound(d) PROVE Typed'
  <2>1. CASE stop[d]
    <3>1. Goto(d, "done") /\ UNCHANGED <<next, entry, roundsWithDiff, returned>>
      BY <1>1, <2>1 DEF BeginRound
    <3>2. PlaceOK'
      BY <1>0, <3>1, Goes, OthersStay DEF PlaceAt, Working
    <3> QED BY <1>1, <3>1, <3>2, Goes DEF BeginRound, TypeOK, LocalsOK
  <2>2. CASE ~stop[d]
    <3>1. Goto(d, "target") /\ next' = [next EXCEPT ![d] = 1]
          /\ UNCHANGED <<entry, roundsWithDiff, returned>>
      BY <1>1, <2>2 DEF BeginRound
    <3>2. next' \in [Daemons -> 1..(Len(Targets) + 1)] /\ \A e \in Daemons \ {d} : next'[e] = next[e]
      BY <3>1, Updated DEF TypeOK
    <3>3. PlaceOK'
      BY <1>0, <3>1, <3>2, Goes, OthersStay DEF PlaceAt, Working
    <3> QED BY <1>1, <3>1, <3>2, <3>3, Goes DEF BeginRound, TypeOK, LocalsOK
  <2> QED BY <2>1, <2>2
<1>2. ASSUME NEW d \in Daemons, BeginTarget(d) PROVE Typed'
  <2>1. PICK place \in {"done", "scanning"} : Goto(d, place)
    BY <1>2 DEF BeginTarget
  <2>2. pc' \in [Daemons -> Places] /\ pc'[d] = place /\ \A e \in Daemons \ {d} : pc'[e] = pc[e]
    BY <2>1, Goes
  <2>3. next[d] <= Len(Targets) /\ UNCHANGED <<next, entry, roundsWithDiff, returned>>
    BY <1>2 DEF BeginTarget
  <2>4. PlaceOK'
    BY <1>0, <2>2, <2>3, OthersStay DEF PlaceAt, Working
  <2> QED BY <1>2, <2>2, <2>4 DEF BeginTarget, TypeOK, LocalsOK
<1>3. ASSUME NEW d \in Daemons, EndRound(d) PROVE Typed'
  <2>1. PICK place \in {"done", "sleeping"} : Goto(d, place)
    BY <1>3 DEF EndRound
  <2>2. pc' \in [Daemons -> Places] /\ pc'[d] = place /\ \A e \in Daemons \ {d} : pc'[e] = pc[e]
    BY <2>1, Goes
  <2>3. iterations' \in [Daemons -> 0..RoundCap]
    <3> DEFINE n == IF iterations[d] < RoundCap THEN iterations[d] + 1 ELSE iterations[d]
    <3>1. n \in 0..RoundCap
      BY DEF TypeOK
    <3> HIDE DEF n
    <3>2. iterations' = [iterations EXCEPT ![d] = n]
      BY <1>3 DEF EndRound, n
    <3> QED BY <3>1, <3>2, Updated DEF TypeOK
  <2>4. UNCHANGED <<next, entry, roundsWithDiff, returned>>
    BY <1>3 DEF EndRound
  <2>5. PlaceOK'
    BY <1>0, <2>2, <2>4, OthersStay DEF PlaceAt, Working
  <2> QED BY <1>3, <2>2, <2>3, <2>5 DEF EndRound, TypeOK, LocalsOK
<1>4. ASSUME NEW d \in Daemons, Wake(d) PROVE Typed'
  <2>1. pc' \in [Daemons -> Places] /\ pc'[d] = "round" /\ \A e \in Daemons \ {d} : pc'[e] = pc[e]
    BY <1>4, Goes DEF Wake
  <2>2. PlaceOK'
    BY <1>0, <1>4, <2>1, OthersStay DEF Wake, PlaceAt, Working
  <2> QED BY <1>4, <2>1, <2>2 DEF Wake, TypeOK, LocalsOK
<1>5. ASSUME NEW d \in Daemons, ScanReturns(d) PROVE Typed'
  <2>1. pc' \in [Daemons -> Places] /\ pc'[d] = "recording" /\ \A e \in Daemons \ {d} : pc'[e] = pc[e]
    BY <1>5, Goes DEF ScanReturns
  <2>2. /\ pc[d] = "scanning" /\ returned' = returned + 1 /\ returned' \in 0..MaxReturned
        /\ UNCHANGED <<next, entry, roundsWithDiff>>
    BY <1>5 DEF ScanReturns, TypeOK
  <2>3. PlaceOK'
    BY <1>0, <2>1, <2>2, OthersStay DEF PlaceAt, Working
  <2>4. report' \in [Daemons -> Reports]
    <3>1. PICK found \in Observations[setup[d].config] :
             report' = [report EXCEPT ![d] = [target |-> Targets[next[d]],
                                              config |-> setup[d].config,
                                              analyzers |-> found]]
      BY <1>5 DEF ScanReturns
    <3>2. next[d] \in 1..Len(Targets)
      BY <1>0, <2>2 DEF TypeOK, PlaceAt, Working
    <3>3. setup[d] \in Setups
      BY DEF TypeOK
    <3>4. [target |-> Targets[next[d]], config |-> setup[d].config, analyzers |-> found] \in Reports
      BY <3>1, <3>2, <3>3, WatchAssumption DEF Reports, Hosts, Configs, Outcomes
    <3> QED BY <3>1, <3>4, Updated DEF LocalsOK
  <2>5. LocalsOK'
    BY <1>5, <2>4 DEF ScanReturns, LocalsOK
  <2>6. clock' \in Nat
    BY <1>5 DEF ScanReturns, TypeOK
  <2> QED BY <1>5, <2>1, <2>2, <2>3, <2>5, <2>6 DEF ScanReturns, TypeOK
<1>6. ASSUME NEW d \in Daemons, RecordReport(d) PROVE Typed'
  <2>1. pc' \in [Daemons -> Places] /\ pc'[d] = "diffing" /\ \A e \in Daemons \ {d} : pc'[e] = pc[e]
    BY <1>6, Goes DEF RecordReport
  <2>2. /\ pc[d] = "recording" /\ snapshots' = Append(snapshots, report[d])
        /\ entry' = [entry EXCEPT ![d] = Len(snapshots) + 1]
        /\ UNCHANGED <<next, roundsWithDiff, returned>>
    BY <1>6 DEF RecordReport
  <2>3. /\ snapshots' \in Seq(Reports) /\ Len(snapshots') = Len(snapshots) + 1
    BY <2>2 DEF LocalsOK
  <2>4. LocalsOK'
    BY <1>6, <2>3 DEF RecordReport, LocalsOK
  <2>5. /\ entry' \in [Daemons -> 0..Len(snapshots')] /\ entry'[d] = Len(snapshots) + 1
        /\ \A e \in Daemons \ {d} : entry'[e] = entry[e]
    <3>0. 0..Len(snapshots) \subseteq 0..Len(snapshots')
      BY <1>0, <2>3
    <3>1. entry \in [Daemons -> 0..Len(snapshots')]
      BY <3>0 DEF TypeOK
    <3>2. Len(snapshots) + 1 \in 0..Len(snapshots')
      BY <1>0, <2>3
    <3> QED BY <2>2, <3>1, <3>2, Updated
  <2>6. PlaceOK'
    BY <1>0, <2>1, <2>2, <2>5, OthersStay DEF PlaceAt, Working
  <2>7. \A r, q \in rows' : r.target = q.target /\ r.at = q.at => r = q
    <3> DEFINE kept == {r \in rows : r.target # report[d].target \/ r.at # clock}
               new == [target |-> report[d].target, at |-> clock, payload |-> report[d]]
    <3>1. rows' = kept \cup {new}
      BY <1>6 DEF RecordReport, Record
    <3>2. \A r \in kept : r.target # new.target \/ r.at # new.at
      OBVIOUS
    <3>3. \A r, q \in kept : r.target = q.target /\ r.at = q.at => r = q
      BY DEF TypeOK
    <3> HIDE DEF kept, new
    <3> QED BY <3>1, <3>2, <3>3
  <2>8. told' \cup lost' \subseteq 1..Len(snapshots')
    BY <1>0, <1>6, <2>3 DEF RecordReport, TypeOK
  <2> QED BY <1>6, <2>1, <2>4, <2>5, <2>6, <2>7, <2>8 DEF RecordReport, TypeOK
<1>7. ASSUME NEW d \in Daemons, ComputeDiff(d) PROVE Typed'
  <2>1. pc' \in [Daemons -> Places] /\ pc'[d] = "reporting" /\ \A e \in Daemons \ {d} : pc'[e] = pc[e]
    BY <1>7, Goes DEF ComputeDiff
  <2>2. PlaceOK'
    BY <1>0, <1>7, <2>1, OthersStay DEF ComputeDiff, PlaceAt, Working
  <2>3. LocalsOK'
    BY <1>7 DEF ComputeDiff, LocalsOK
  <2> QED BY <1>7, <2>1, <2>2, <2>3 DEF ComputeDiff, TypeOK
<1>8. ASSUME NEW d \in Daemons, LoseEntry(d) PROVE lost' \subseteq 1..Len(snapshots)
  BY <1>0, <1>8 DEF LoseEntry, TypeOK, PlaceAt
<1>9. ASSUME NEW d \in Daemons, pc[d] \in Working,
             next' = [next EXCEPT ![d] = @ + 1]
      PROVE  /\ next' \in [Daemons -> 1..(Len(Targets) + 1)]
             /\ \A e \in Daemons \ {d} : next'[e] = next[e]
  <2>1. next[d] + 1 \in 1..(Len(Targets) + 1)
    BY <1>0, <1>9 DEF PlaceAt
  <2> QED BY <1>9, <2>1, Updated DEF TypeOK
<1>10. ASSUME NEW d \in Daemons, FailTarget(d) PROVE Typed'
  <2>1. pc' \in [Daemons -> Places] /\ pc'[d] = "target" /\ \A e \in Daemons \ {d} : pc'[e] = pc[e]
    BY <1>10, Goes DEF FailTarget
  <2>2. next' \in [Daemons -> 1..(Len(Targets) + 1)] /\ \A e \in Daemons \ {d} : next'[e] = next[e]
    BY <1>10, <1>9 DEF FailTarget, Working
  <2>3. UNCHANGED <<entry, roundsWithDiff, returned>>
    BY <1>10 DEF FailTarget
  <2>4. PlaceOK'
    BY <1>0, <2>1, <2>2, <2>3, OthersStay DEF PlaceAt, Working
  <2>5. lost' \subseteq 1..Len(snapshots)
    BY <1>8, <1>10 DEF FailTarget
  <2> QED BY <1>10, <2>1, <2>2, <2>4, <2>5 DEF FailTarget, TypeOK, LocalsOK
<1>11. ASSUME NEW d \in Daemons, pc[d] = "reporting", CountDiff(d)
       PROVE  /\ roundsWithDiff' \in [Daemons -> 0..MaxReturned]
              /\ roundsWithDiff'[d] <= returned
              /\ \A e \in Daemons \ {d} : roundsWithDiff'[e] = roundsWithDiff[e]
  <2> DEFINE n == IF Meaningful(diff[d]) THEN roundsWithDiff[d] + 1 ELSE roundsWithDiff[d]
  <2>1. n \in 0..MaxReturned /\ n <= returned
    <3>1. roundsWithDiff[d] < returned /\ returned \in 0..MaxReturned
      BY <1>0, <1>11 DEF PlaceAt, Working, TypeOK
    <3> QED BY <1>0, <3>1
  <2>2. roundsWithDiff' = [roundsWithDiff EXCEPT ![d] = n]
    BY <1>11 DEF CountDiff
  <2> HIDE DEF n
  <2> QED BY <2>1, <2>2, Updated DEF TypeOK
<1>12. ASSUME NEW d \in Daemons, CallBack(d) PROVE Typed'
  <2>1. pc' \in [Daemons -> Places] /\ pc'[d] = "target" /\ \A e \in Daemons \ {d} : pc'[e] = pc[e]
    BY <1>12, Goes DEF CallBack
  <2>2. pc[d] = "reporting" /\ UNCHANGED <<entry, returned>>
    BY <1>12 DEF CallBack
  <2>3. next' \in [Daemons -> 1..(Len(Targets) + 1)] /\ \A e \in Daemons \ {d} : next'[e] = next[e]
    BY <1>9, <1>12 DEF CallBack, Working
  <2>4. /\ roundsWithDiff' \in [Daemons -> 0..MaxReturned] /\ roundsWithDiff'[d] <= returned
        /\ \A e \in Daemons \ {d} : roundsWithDiff'[e] = roundsWithDiff[e]
    BY <1>11, <1>12 DEF CallBack
  <2>5. PlaceOK'
    BY <1>0, <2>1, <2>2, <2>3, <2>4, OthersStay DEF PlaceAt, Working
  <2>6. told' \subseteq 1..Len(snapshots)
    BY <1>0, <1>12, <2>2 DEF CallBack, TypeOK, PlaceAt
  <2> QED BY <1>12, <2>1, <2>3, <2>4, <2>5, <2>6 DEF CallBack, TypeOK, LocalsOK
<1>13. ASSUME NEW d \in Daemons, CallBackRaises(d) PROVE Typed'
  <2>1. pc' \in [Daemons -> Places] /\ pc'[d] = "died" /\ \A e \in Daemons \ {d} : pc'[e] = pc[e]
    BY <1>13, Goes DEF CallBackRaises
  <2>2. UNCHANGED <<next, entry, returned>>
    BY <1>13 DEF CallBackRaises
  <2>3. /\ roundsWithDiff' \in [Daemons -> 0..MaxReturned] /\ roundsWithDiff'[d] <= returned
        /\ \A e \in Daemons \ {d} : roundsWithDiff'[e] = roundsWithDiff[e]
    BY <1>11, <1>13 DEF CallBackRaises
  <2>4. PlaceOK'
    BY <1>0, <2>1, <2>2, <2>3, OthersStay DEF PlaceAt, Working
  <2>5. lost' \subseteq 1..Len(snapshots)
    BY <1>8, <1>13 DEF CallBackRaises
  <2> QED BY <1>13, <2>1, <2>3, <2>4, <2>5 DEF CallBackRaises, TypeOK, LocalsOK
<1>14. ASSUME NEW d \in Daemons, StopSignal(d) PROVE Typed'
  <2>1. PlaceOK'
    BY <1>14 DEF StopSignal, PlaceOK, PlaceAt
  <2> QED BY <1>14, <2>1 DEF StopSignal, TypeOK, LocalsOK
<1>15. ASSUME NEW d \in Daemons, Kill(d) PROVE Typed'
  <2>1. pc' \in [Daemons -> Places] /\ pc'[d] = Down /\ \A e \in Daemons \ {d} : pc'[e] = pc[e]
    BY <1>15, Goes DEF Kill
  <2>2. PlaceOK'
    BY <1>0, <1>15, <2>1, OthersStay DEF Kill, PlaceAt, Working
  <2>3. lost' \subseteq 1..Len(snapshots)
    BY <1>8, <1>15 DEF Kill
  <2> QED BY <1>15, <2>1, <2>2, <2>3 DEF Kill, TypeOK, LocalsOK
<1>16. ASSUME NEW d \in Daemons, NEW s \in Setups, StartDaemon(d, s) PROVE Typed'
  <2>1. pc' \in [Daemons -> Places] /\ pc'[d] = "round" /\ \A e \in Daemons \ {d} : pc'[e] = pc[e]
    BY <1>16, Goes DEF StartDaemon
  <2>2. /\ starts' \in [Daemons -> 0..MaxStarts] /\ setup' \in [Daemons -> Setups]
        /\ stop' \in [Daemons -> BOOLEAN] /\ iterations' \in [Daemons -> 0..RoundCap]
    <3>1. starts' \in [Daemons -> 0..MaxStarts]
      BY <1>16 DEF StartDaemon, TypeOK
    <3>2. setup' \in [Daemons -> Setups] /\ stop' \in [Daemons -> BOOLEAN]
      BY <1>16 DEF StartDaemon, TypeOK
    <3>3. iterations' \in [Daemons -> 0..RoundCap]
      BY <1>16 DEF StartDaemon, TypeOK
    <3> QED BY <3>1, <3>2, <3>3
  <2>3. /\ roundsWithDiff' \in [Daemons -> 0..MaxReturned] /\ roundsWithDiff'[d] = 0
        /\ \A e \in Daemons \ {d} : roundsWithDiff'[e] = roundsWithDiff[e]
        /\ UNCHANGED <<next, entry, returned>>
    BY <1>16, Updated DEF StartDaemon, TypeOK
  <2>4. PlaceOK'
    BY <1>0, <2>1, <2>3, OthersStay DEF PlaceAt, Working
  <2> QED BY <1>16, <2>1, <2>2, <2>3, <2>4 DEF StartDaemon, TypeOK, LocalsOK
<1>17. CASE SetClockBack
  <2>1. PlaceOK'
    BY <1>17 DEF SetClockBack, PlaceOK, PlaceAt
  <2>2. clock' \in Nat /\ setBacks' \in 0..MaxSetBacks
    <3>1. PICK earlier \in 0..(clock - 1) : clock' = earlier
      BY <1>17 DEF SetClockBack
    <3> QED BY <1>17, <3>1, BoundsAre DEF SetClockBack, TypeOK
  <2> QED BY <1>17, <2>1, <2>2 DEF SetClockBack, TypeOK, LocalsOK
<1>18. CASE UNCHANGED vars
  <2>1. PlaceOK'
    BY <1>18 DEF vars, PlaceOK, PlaceAt
  <2> QED BY <1>18, <2>1 DEF vars, TypeOK, LocalsOK
<1> QED
  BY <1>1, <1>2, <1>3, <1>4, <1>5, <1>6, <1>7, <1>10, <1>12, <1>13, <1>14, <1>15, <1>16,
     <1>17, <1>18
  DEF Next, DaemonStep, Terminated

-----------------------------------------------------------------------------
(* A daemon ends after all its rounds                                      *)

\* A daemon that goes on, or ends for its stop event, keeps its rounds.
LEMMA RoundsStay ==
  ASSUME RoundsOK, NEW d \in Daemons, pc[d] \notin Ended,
         \A e \in Daemons \ {d} : pc'[e] = pc[e],
         pc'[d] = "done" => stop[d],
         UNCHANGED <<iterations, setup, stop>>
  PROVE  RoundsOK'
<1> SUFFICES ASSUME NEW e \in Daemons PROVE RoundsAt(e)'
  BY DEF RoundsOK
<1>1. RoundsAt(e)
  BY DEF RoundsOK
<1>2. CASE e = d
  BY <1>1, <1>2 DEF RoundsAt
<1>3. CASE e # d
  BY <1>1, <1>3 DEF RoundsAt
<1> QED BY <1>2, <1>3

LEMMA NextRounds == Typed /\ RoundsOK /\ [Next]_vars => RoundsOK'
<1> SUFFICES ASSUME TypeOK, RoundsOK, [Next]_vars PROVE RoundsOK'
  BY DEF Typed
<1> USE PlacesAre, BoundsAre DEF counters, locals, time, database, history, run
<1>0. ASSUME NEW d \in Daemons
      PROVE  /\ RoundsAt(d) /\ iterations[d] \in 0..RoundCap
             /\ setup[d].max_iterations \in 0..RoundCap
  BY SetupsAre DEF TypeOK, RoundsOK
<1>1. ASSUME NEW d \in Daemons, BeginRound(d) \/ BeginTarget(d) PROVE RoundsOK'
  <2>1. PICK place \in Places : Goto(d, place) /\ (place = "done" => stop[d])
    BY <1>1 DEF BeginRound, BeginTarget
  <2>2. pc'[d] = place /\ \A e \in Daemons \ {d} : pc'[e] = pc[e]
    BY <2>1, Goes
  <2>3. pc[d] \notin Ended /\ UNCHANGED <<iterations, setup, stop>>
    BY <1>1 DEF BeginRound, BeginTarget, Ended
  <2> QED BY <2>1, <2>2, <2>3, RoundsStay
<1>2. ASSUME NEW d \in Daemons, EndRound(d) PROVE RoundsOK'
  <2> DEFINE max == setup[d].max_iterations
             n == IF iterations[d] < RoundCap THEN iterations[d] + 1 ELSE iterations[d]
             place == IF max > 0 /\ iterations[d] + 1 >= max THEN "done" ELSE "sleeping"
  <2>1. Goto(d, place) /\ iterations' = [iterations EXCEPT ![d] = n] /\ UNCHANGED <<setup, stop>>
    BY <1>2 DEF EndRound, LastRound
  <2>2. pc[d] = "target"
    BY <1>2 DEF EndRound
  <2>3. /\ max > 0 => n = iterations[d] + 1
        /\ max > 0 /\ place = "sleeping" => n < max
        /\ place = "done" => max > 0 /\ n = max
    BY <1>0, <2>2 DEF RoundsAt, Ended
  <2>4. place \in {"done", "sleeping"}
    OBVIOUS
  <2> HIDE DEF place, n
  <2>5. /\ pc'[d] = place /\ iterations'[d] = n
        /\ \A e \in Daemons \ {d} : pc'[e] = pc[e] /\ iterations'[e] = iterations[e]
    BY <2>1, <2>4, Goes DEF TypeOK
  <2> SUFFICES ASSUME NEW e \in Daemons PROVE RoundsAt(e)'
    BY DEF RoundsOK
  <2>6. CASE e = d
    BY <2>1, <2>3, <2>4, <2>5, <2>6 DEF RoundsAt, Ended
  <2>7. CASE e # d
    BY <1>0, <2>1, <2>5, <2>7 DEF RoundsAt
  <2> QED BY <2>6, <2>7
<1>3. ASSUME NEW d \in Daemons,
             \/ Wake(d) \/ ScanReturns(d) \/ RecordReport(d) \/ ComputeDiff(d)
             \/ FailTarget(d) \/ CallBack(d) \/ CallBackRaises(d) \/ Kill(d)
      PROVE  RoundsOK'
  <2>1. /\ \E place \in Places : Goto(d, place) /\ place # "done"
        /\ pc[d] \notin Ended /\ UNCHANGED <<iterations, setup, stop>>
    BY <1>3 DEF Wake, ScanReturns, RecordReport, ComputeDiff, FailTarget, CallBack,
       CallBackRaises, Kill, Ended
  <2>2. pc'[d] # "done" /\ \A e \in Daemons \ {d} : pc'[e] = pc[e]
    BY <2>1, Goes
  <2> QED BY <2>1, <2>2, RoundsStay
<1>4. ASSUME NEW d \in Daemons, StopSignal(d) PROVE RoundsOK'
  <2>1. pc[d] # "done" /\ stop' = [stop EXCEPT ![d] = TRUE] /\ UNCHANGED <<pc, setup, iterations>>
    BY <1>4 DEF StopSignal
  <2>2. \A e \in Daemons \ {d} : stop'[e] = stop[e]
    BY <2>1 DEF TypeOK
  <2> QED BY <1>0, <2>1, <2>2 DEF RoundsOK, RoundsAt
<1>5. ASSUME NEW d \in Daemons, NEW s \in Setups, StartDaemon(d, s) PROVE RoundsOK'
  <2>1. pc'[d] = "round" /\ \A e \in Daemons \ {d} : pc'[e] = pc[e]
    BY <1>5, Goes DEF StartDaemon
  <2>2. /\ setup' = [setup EXCEPT ![d] = s] /\ stop' = [stop EXCEPT ![d] = FALSE]
        /\ iterations' = [iterations EXCEPT ![d] = 0]
    BY <1>5 DEF StartDaemon
  <2>3. /\ setup'[d] = s /\ iterations'[d] = 0 /\ s.max_iterations \in Nat
        /\ \A e \in Daemons \ {d} : /\ setup'[e] = setup[e] /\ stop'[e] = stop[e]
                                    /\ iterations'[e] = iterations[e]
    BY <2>2, SetupsAre DEF TypeOK
  <2> SUFFICES ASSUME NEW e \in Daemons PROVE RoundsAt(e)'
    BY DEF RoundsOK
  <2>4. CASE e = d
    BY <2>1, <2>3, <2>4 DEF RoundsAt
  <2>5. CASE e # d
    BY <1>0, <2>1, <2>3, <2>5 DEF RoundsAt
  <2> QED BY <2>4, <2>5
<1>6. CASE SetClockBack \/ UNCHANGED vars
  BY <1>6 DEF SetClockBack, vars, RoundsOK, RoundsAt
<1> QED
  BY <1>1, <1>2, <1>3, <1>4, <1>5, <1>6 DEF Next, DaemonStep, Terminated

-----------------------------------------------------------------------------
(* A diff is one of the daemon's own report and the same target's          *)

SameTarget == TableOK /\ DiffIsOfSameTarget

LEMMA DiffIsWithARow ==
  ASSUME Typed, TableOK, NEW r \in Reports, DiffAgainstPrevious(rows, r).exists
  PROVE  \E i \in 1..Len(snapshots) : /\ snapshots[i].target = r.target
                                      /\ DiffAgainstPrevious(rows, r) = DiffOf(snapshots[i], r)
<1> DEFINE previous == Previous(rows, r.target)
<1>1. previous # {}
  BY DEF DiffAgainstPrevious, NoDiff
<1>2. PICK n \in Nat : \A q \in rows : q.at \in 0..n
  BY DEF TableOK
<1>3. previous \subseteq RowsOf(rows, r.target)
  BY <1>2, PreviousIsOfTarget
<1> DEFINE row == CHOOSE q \in previous : TRUE
<1>4. row \in rows /\ row.target = r.target
  BY <1>1, <1>3 DEF RowsOf
<1>5. DiffAgainstPrevious(rows, r) = DiffOf(row.payload, r)
  BY <1>1 DEF DiffAgainstPrevious
<1> HIDE DEF row
<1>6. PICK i \in 1..Len(snapshots) : snapshots[i] = row.payload
  BY <1>4 DEF TableOK
<1>7. snapshots[i].target = r.target
  BY <1>4, <1>6 DEF TableOK
<1> QED BY <1>5, <1>6, <1>7

LEMMA NextSameTarget == Typed /\ SameTarget /\ [Next]_vars => SameTarget'
<1> SUFFICES ASSUME Typed, TableOK, DiffIsOfSameTarget, [Next]_vars
             PROVE  TableOK' /\ DiffIsOfSameTarget'
  BY DEF SameTarget
<1> USE DEF counters, locals, time, database, history, run
<1>1. ASSUME NEW d \in Daemons, RecordReport(d) PROVE TableOK' /\ DiffIsOfSameTarget'
  <2>1. /\ snapshots' = Append(snapshots, report[d]) /\ rows' = Record(rows, report[d], clock)
        /\ UNCHANGED <<report, diff>> /\ Goto(d, "diffing")
    BY <1>1 DEF RecordReport
  <2>2. /\ Len(snapshots) \in Nat /\ Len(snapshots') = Len(snapshots) + 1
        /\ snapshots'[Len(snapshots) + 1] = report[d]
        /\ \A i \in 1..Len(snapshots) : snapshots'[i] = snapshots[i]
    BY <2>1 DEF Typed, LocalsOK
  <2>3. 1..Len(snapshots) \subseteq 1..Len(snapshots')
    BY <2>2
  <2>4. \A r \in rows' : \/ r \in rows
                         \/ r = [target |-> report[d].target, at |-> clock, payload |-> report[d]]
    BY <2>1 DEF Record
  <2>5. \E n \in Nat : \A r \in rows' : r.at \in 0..n
    <3>1. PICK n \in Nat : \A r \in rows : r.at \in 0..n
      BY DEF TableOK
    <3>2. clock \in Nat
      BY DEF Typed, TypeOK
    <3>3. n + clock \in Nat /\ 0..n \subseteq 0..(n + clock) /\ clock \in 0..(n + clock)
      BY <3>2
    <3>4. \A r \in rows' : r.at \in 0..(n + clock)
      BY <2>4, <3>1, <3>3
    <3> QED BY <3>3, <3>4
  <2>6. Len(snapshots) + 1 \in 1..Len(snapshots')
    BY <2>2
  <2>7. TableOK'
    BY <2>2, <2>3, <2>4, <2>5, <2>6 DEF TableOK
  <2>8. \A e \in Daemons : pc'[e] = "reporting" => pc[e] = "reporting"
    BY <2>1, Goes, PlacesAre DEF Typed
  <2>9. DiffIsOfSameTarget'
    BY <2>1, <2>2, <2>3, <2>8 DEF DiffIsOfSameTarget
  <2> QED BY <2>7, <2>9
<1>2. ASSUME NEW d \in Daemons, ComputeDiff(d) PROVE TableOK' /\ DiffIsOfSameTarget'
  <2>1. /\ diff' = [diff EXCEPT ![d] = DiffAgainstPrevious(rows, report[d])]
        /\ UNCHANGED <<rows, snapshots, report>> /\ Goto(d, "reporting")
    BY <1>2 DEF ComputeDiff
  <2>2. /\ diff'[d] = DiffAgainstPrevious(rows, report[d])
        /\ \A e \in Daemons \ {d} : pc'[e] = pc[e] /\ diff'[e] = diff[e]
    BY <2>1, Goes, PlacesAre DEF Typed, LocalsOK
  <2>3. report[d] \in Reports
    BY DEF Typed, LocalsOK
  <2>4. diff'[d].exists => \E i \in 1..Len(snapshots) :
                              /\ snapshots[i].target = report[d].target
                              /\ diff'[d] = DiffOf(snapshots[i], report[d])
    BY <2>2, <2>3, DiffIsWithARow
  <2>5. DiffIsOfSameTarget'
    BY <2>1, <2>2, <2>4 DEF DiffIsOfSameTarget
  <2> QED BY <2>1, <2>5 DEF TableOK
<1>3. ASSUME NEW d \in Daemons, ScanReturns(d) PROVE TableOK' /\ DiffIsOfSameTarget'
  <2>1. pc'[d] = "recording" /\ \A e \in Daemons \ {d} : pc'[e] = pc[e]
    BY <1>3, Goes, PlacesAre DEF ScanReturns, Typed
  <2>2. UNCHANGED <<rows, snapshots, diff>> /\ \A e \in Daemons \ {d} : report'[e] = report[e]
    BY <1>3 DEF ScanReturns, Typed, LocalsOK
  <2> QED BY <2>1, <2>2 DEF TableOK, DiffIsOfSameTarget
<1>4. ASSUME UNCHANGED <<rows, snapshots, diff, report>>,
             \A e \in Daemons : pc'[e] = "reporting" => pc[e] = "reporting"
      PROVE  TableOK' /\ DiffIsOfSameTarget'
  BY <1>4 DEF TableOK, DiffIsOfSameTarget
<1>5. ASSUME NEW d \in Daemons,
             NEW place \in Places \ {"reporting"}, Goto(d, place),
             UNCHANGED <<rows, snapshots, diff, report>>
      PROVE  TableOK' /\ DiffIsOfSameTarget'
  BY <1>4, <1>5, Goes DEF Typed
<1>6. ASSUME NEW d \in Daemons,
             \/ BeginRound(d) \/ BeginTarget(d) \/ EndRound(d) \/ Wake(d) \/ FailTarget(d)
             \/ CallBack(d) \/ CallBackRaises(d) \/ Kill(d) \/ \E s \in Setups : StartDaemon(d, s)
      PROVE  TableOK' /\ DiffIsOfSameTarget'
  <2>1. UNCHANGED <<rows, snapshots, diff, report>>
    BY <1>6 DEF BeginRound, BeginTarget, EndRound, Wake, FailTarget, CallBack,
       CallBackRaises, Kill, StartDaemon
  <2>2. \E place \in Places \ {"reporting"} : Goto(d, place)
    BY <1>6, PlacesAre DEF BeginRound, BeginTarget, EndRound, Wake, FailTarget, CallBack,
       CallBackRaises, Kill, StartDaemon
  <2> QED BY <1>5, <2>1, <2>2
<1>7. CASE SetClockBack \/ UNCHANGED vars \/ \E d \in Daemons : StopSignal(d)
  BY <1>4, <1>7 DEF SetClockBack, vars, StopSignal
<1> QED
  BY <1>1, <1>2, <1>3, <1>6, <1>7 DEF Next, DaemonStep, Terminated

-----------------------------------------------------------------------------
IInv == Typed /\ RoundsOK /\ SameTarget

LEMMA Inductive == (Init => IInv) /\ (IInv /\ [Next]_vars => IInv')
<1>1. Init => RoundsOK
  BY PlacesAre DEF Init, RoundsOK, RoundsAt, Ended
<1>2. Init => SameTarget
  BY PlacesAre DEF Init, SameTarget, TableOK, DiffIsOfSameTarget
<1> QED
  BY <1>1, <1>2, InitTyped, NextTyped, NextRounds, NextSameTarget DEF IInv

LEMMA Invariant == Spec => []IInv
<1>1. Init => IInv
  BY Inductive
<1>2. IInv /\ [Next]_vars => IInv'
  BY Inductive
<1> QED BY <1>1, <1>2, PTL DEF Spec

\* The watch loop's variables keep their types and bounds, and the table has
\* one row for a target and a time, for any number of daemons.
THEOREM TypeCorrect == Spec => []TypeOK
<1>1. IInv => TypeOK
  BY DEF IInv, Typed
<1> QED BY <1>1, Invariant, PTL

\* A daemon that ends unasked has completed exactly its max_iterations
\* rounds, whatever failed in them (watch/loop.py:92).
THEOREM EndsOnlyAfterItsRounds == Spec => []EndsAfterAllRounds
<1>1. IInv => EndsAfterAllRounds
  BY DEF IInv, RoundsOK, RoundsAt, EndsAfterAllRounds
<1> QED BY <1>1, Invariant, PTL

\* However many daemons write to the table and whenever the clock is set
\* back, diff_against_previous compares snapshots of one target.
THEOREM DiffsStayWithinATarget == Spec => []DiffIsOfSameTarget
<1>1. IInv => DiffIsOfSameTarget
  BY DEF IInv, SameTarget
<1> QED BY <1>1, Invariant, PTL

\* What the steps of a daemon, and those of everyone else, do to its place.
LEMMA PlaceSteps ==
  ASSUME TypeOK, [Next]_vars, NEW d \in Daemons, pc'[d] # pc[d]
  PROVE  \/ DaemonStep(d) \/ Kill(d) \/ \E s \in Setups : StartDaemon(d, s)
<1>1. ASSUME NEW e \in Daemons, e # d
      PROVE  /\ ~DaemonStep(e) /\ ~Kill(e) /\ \A s \in Setups : ~StartDaemon(e, s)
  <2>1. ASSUME NEW place, Goto(e, place) PROVE FALSE
    BY <1>1, <2>1 DEF TypeOK, Goto
  <2> QED
    BY <2>1 DEF DaemonStep, BeginRound, BeginTarget, EndRound, Wake, ScanReturns, RecordReport,
       ComputeDiff, FailTarget, CallBack, CallBackRaises, Kill, StartDaemon
<1>2. \A e \in Daemons : ~StopSignal(e)
  BY DEF StopSignal
<1>3. ~SetClockBack /\ ~UNCHANGED vars
  BY DEF SetClockBack, vars
<1> QED BY <1>1, <1>2, <1>3 DEF Next, Terminated

-----------------------------------------------------------------------------
(* One daemon on its table, and a clock that is never set back             *)

\* The table holds the snapshots in the order of their times.
InOrder(at) ==
  /\ at \in [1..Len(snapshots) -> Nat]
  /\ \A i, j \in 1..Len(snapshots) : i < j => at[i] < at[j]
  /\ \A i \in 1..Len(snapshots) : at[i] <= clock
  /\ \A d \in Daemons : pc[d] = "recording" =>
       \A i \in 1..Len(snapshots) : at[i] < clock
  /\ rows = {[target |-> snapshots[i].target, at |-> at[i], payload |-> snapshots[i]] :
               i \in 1..Len(snapshots)}

TableIsHistory == \E at : InOrder(at)

\* The daemon is at the newest snapshot, which it has yet to tell of.
EntryIsLast ==
  \A d \in Daemons : pc[d] \in {"diffing", "reporting"} =>
    /\ entry[d] = Len(snapshots) /\ snapshots[entry[d]] = report[d]
    /\ entry[d] \notin told

AloneInv == TableIsHistory /\ EntryIsLast /\ DiffIsAgainstPrevious /\ DriftIsTold

\* In a set whose rows have different times, who is newest is the newest.
LEMMA NewestIs ==
  ASSUME NEW S, NEW r \in S, \A q \in S : q.at \in Nat /\ q.at <= r.at,
         \A p, q \in S : p.at = q.at => p = q
  PROVE  Newest(S) = r
<1>1. Newest(S) \in S /\ \A q \in S : q.at <= Newest(S).at
  BY DEF Newest
<1>2. Newest(S).at = r.at
  BY <1>1
<1> QED BY <1>1, <1>2

\* What is before a snapshot has a last one.
LEMMA LastEarlier ==
  ASSUME NEW n \in Nat, NEW E, E \subseteq 1..(n - 1), E # {}
  PROVE  LET last == CHOOSE j \in E : \A k \in E : k <= j
         IN  last \in E /\ \A k \in E : k <= last
<1>1. E \in SUBSET (0..n)
  OBVIOUS
<1>2. \E j \in E : \A k \in E : k <= j
  BY <1>1, GreatestNatural
<1> QED BY <1>2

\* The store's diff of the newest snapshot is the one the history calls for.
LEMMA StoreFollowsHistory ==
  ASSUME Typed, TableIsHistory, NEW n \in Nat, n = Len(snapshots), n # 0,
         NEW r, r = snapshots[n]
  PROVE  DiffAgainstPrevious(rows, r) = DriftOf(n)
<1>1. PICK at : InOrder(at)
  BY DEF TableIsHistory
<1> DEFINE Row(i) == [target |-> snapshots[i].target, at |-> at[i], payload |-> snapshots[i]]
           Mine == {i \in 1..n : snapshots[i].target = r.target}
           mine == RowsOf(rows, r.target)
           before == Earlier(n)
           older == mine \ {Newest(mine)}
<1>2. rows = {Row(i) : i \in 1..n}
  BY <1>1 DEF InOrder
<1>3. /\ \A i \in 1..n : at[i] \in Nat /\ Row(i).at = at[i]
      /\ \A i, j \in 1..n : i <= j => at[i] <= at[j]
      /\ \A i, j \in 1..n : at[i] = at[j] => i = j
  BY <1>1 DEF InOrder
<1>4. mine = {Row(i) : i \in Mine}
  BY <1>2 DEF RowsOf
<1>5. Mine = before \cup {n} /\ before \subseteq 1..(n - 1) /\ n \notin before
  BY DEF Earlier
<1> HIDE DEF Row, Mine, mine, before
<1>6. Newest(mine) = Row(n)
  <2>1. Row(n) \in mine
    BY <1>4, <1>5
  <2>2. \A q \in mine : q.at \in Nat /\ q.at <= Row(n).at
    BY <1>3, <1>4, <1>5
  <2>3. \A p, q \in mine : p.at = q.at => p = q
    BY <1>3, <1>4, <1>5
  <2> QED BY <2>1, <2>2, <2>3, NewestIs
<1>7. older = {Row(i) : i \in before}
  <2>1. \A i \in before : Row(i) # Row(n)
    BY <1>3, <1>5
  <2> QED BY <1>4, <1>5, <1>6, <2>1
<1> HIDE DEF older
<1>8. mine # {}
  BY <1>4, <1>5
<1>9. Previous(rows, r.target) = IF older = {} THEN {} ELSE {Newest(older)}
  BY <1>8 DEF Previous, mine, older
<1>10. CASE before = {}
  <2>1. Previous(rows, r.target) = {}
    BY <1>7, <1>9, <1>10
  <2> QED BY <1>10, <2>1 DEF DiffAgainstPrevious, DriftOf, before
<1>11. CASE before # {}
  <2> DEFINE last == CHOOSE j \in before : \A k \in before : k <= j
  <2>1. last \in before /\ \A k \in before : k <= last
    BY <1>5, <1>11, LastEarlier
  <2>2. DriftOf(n) = DiffOf(snapshots[last], snapshots[n])
    BY <1>11 DEF DriftOf, before
  <2> HIDE DEF last
  <2>3. Newest(older) = Row(last)
    <3>1. Row(last) \in older
      BY <1>7, <2>1
    <3>2. \A q \in older : q.at \in Nat /\ q.at <= Row(last).at
      BY <1>3, <1>5, <1>7, <2>1
    <3>3. \A p, q \in older : p.at = q.at => p = q
      BY <1>3, <1>5, <1>7
    <3> QED BY <3>1, <3>2, <3>3, NewestIs
  <2>4. Previous(rows, r.target) = {Row(last)}
    BY <1>7, <1>9, <1>11, <2>3
  <2>5. (CHOOSE q \in Previous(rows, r.target) : TRUE) = Row(last)
    BY <2>4
  <2>6. DiffAgainstPrevious(rows, r) = DiffOf(Row(last).payload, r)
    BY <2>4, <2>5 DEF DiffAgainstPrevious
  <2> QED BY <2>2, <2>6 DEF Row
<1> QED BY <1>10, <1>11

\* What drift a snapshot holds does not change when others are recorded.
LEMMA DriftStays ==
  ASSUME Typed, NEW r \in Reports, snapshots' = Append(snapshots, r),
         NEW i \in 1..Len(snapshots)
  PROVE  DriftOf(i)' = DriftOf(i)
<1>1. /\ Len(snapshots) \in Nat
      /\ \A j \in 1..Len(snapshots) : snapshots'[j] = snapshots[j]
  BY DEF Typed, LocalsOK
<1>2. 1..(i - 1) \subseteq 1..Len(snapshots)
  BY <1>1
<1>3. Earlier(i)' = Earlier(i)
  BY <1>1, <1>2 DEF Earlier
<1>4. CASE Earlier(i) = {}
  BY <1>3, <1>4 DEF DriftOf
<1>5. CASE Earlier(i) # {}
  <2> DEFINE last == CHOOSE j \in Earlier(i) : \A k \in Earlier(i) : k <= j
  <2>1. last \in 1..Len(snapshots)
    <3>1. Earlier(i) \subseteq 1..(i - 1)
      BY DEF Earlier
    <3>2. i \in Nat
      OBVIOUS
    <3>3. last \in Earlier(i)
      BY <1>5, <3>1, <3>2, LastEarlier
    <3> HIDE DEF last
    <3> QED BY <1>2, <3>1, <3>3
  <2>2. last' = last
    BY <1>3
  <2>3. DriftOf(i) = DiffOf(snapshots[last], snapshots[i])
    BY <1>5 DEF DriftOf
  <2>4. DriftOf(i)' = DiffOf(snapshots'[last'], snapshots'[i])
    BY <1>3, <1>5 DEF DriftOf
  <2> HIDE DEF last
  <2> QED BY <1>1, <2>1, <2>2, <2>3, <2>4
<1> QED BY <1>4, <1>5

LEMMA DriftKept == UNCHANGED snapshots => \A i : DriftOf(i)' = DriftOf(i)
<1> SUFFICES ASSUME UNCHANGED snapshots, NEW i PROVE DriftOf(i)' = DriftOf(i)
  OBVIOUS
<1>1. Earlier(i)' = Earlier(i)
  BY DEF Earlier
<1> QED BY <1>1 DEF DriftOf

\* The table is in order, also for a daemon that is not about to write.
LEMMA TableKept ==
  ASSUME TableIsHistory, UNCHANGED <<snapshots, rows, clock>>,
         \A d \in Daemons : pc'[d] = "recording" => pc[d] = "recording"
  PROVE  TableIsHistory'
<1>1. PICK at : InOrder(at)
  BY DEF TableIsHistory
<1>2. InOrder(at)'
  BY <1>1 DEF InOrder
<1> QED BY <1>2 DEF TableIsHistory

\* Going on without a report at hand; one that was is lost.
LEMMA LeavesEntry ==
  ASSUME AloneInv, NEW d, Daemons = {d}, UNCHANGED <<snapshots, rows, told, clock>>,
         LoseEntry(d), pc'[d] \notin {"recording", "diffing", "reporting"}
  PROVE  AloneInv'
<1>1. TableIsHistory'
  BY TableKept DEF AloneInv
<1>2. EntryIsLast' /\ DiffIsAgainstPrevious'
  BY DEF EntryIsLast, DiffIsAgainstPrevious
<1>3. DriftIsTold'
  <2> SUFFICES ASSUME NEW i \in 1..Len(snapshots)
               PROVE  i \in lost' \/ (i \in told <=> Meaningful(DriftOf(i)))
    BY DriftKept DEF DriftIsTold
  <2>1. \/ i \in lost
        \/ entry[d] = i /\ pc[d] \in {"diffing", "reporting"}
        \/ i \in told <=> Meaningful(DriftOf(i))
    BY DEF AloneInv, DriftIsTold
  <2> QED BY <2>1 DEF LoseEntry
<1> QED BY <1>1, <1>2, <1>3 DEF AloneInv

LEMMA NextAlone ==
  ASSUME NEW d, Daemons = {d}, MaxSetBacks = 0
  PROVE  Typed /\ AloneInv /\ [Next]_vars => AloneInv'
<1> SUFFICES ASSUME Typed, AloneInv, [Next]_vars PROVE AloneInv'
  OBVIOUS
<1> USE DEF counters, locals, time, database, history, run
<1>0. /\ TypeOK /\ LocalsOK /\ PlaceAt(d) /\ Len(snapshots) \in Nat
      /\ TableIsHistory /\ EntryIsLast /\ DiffIsAgainstPrevious /\ DriftIsTold
  BY DEF Typed, AloneInv, PlaceOK, LocalsOK
<1>1. ASSUME NEW place \in Places, Goto(d, place) PROVE pc'[d] = place
  BY <1>0, <1>1, Goes
<1>2. CASE \/ BeginRound(d) \/ BeginTarget(d) \/ EndRound(d) \/ Wake(d)
           \/ FailTarget(d) \/ CallBackRaises(d) \/ Kill(d)
           \/ \E s \in Setups : StartDaemon(d, s)
  <2>1. UNCHANGED <<snapshots, rows, told, clock>>
    BY <1>2 DEF BeginRound, BeginTarget, EndRound, Wake, FailTarget, CallBackRaises, Kill,
       StartDaemon
  <2>2. LoseEntry(d)
    BY <1>2, PlacesAre DEF BeginRound, BeginTarget, EndRound, Wake, FailTarget,
       CallBackRaises, Kill, StartDaemon, LoseEntry, Ended
  <2>3. \E place \in Places \ {"recording", "diffing", "reporting"} : Goto(d, place)
    BY <1>2, PlacesAre DEF BeginRound, BeginTarget, EndRound, Wake, FailTarget,
       CallBackRaises, Kill, StartDaemon
  <2> QED BY <1>1, <2>1, <2>2, <2>3, LeavesEntry
<1>3. CASE ScanReturns(d)
  <2>1. /\ pc[d] = "scanning" /\ pc'[d] = "recording" /\ clock' = clock + 2 /\ clock \in Nat
        /\ UNCHANGED <<snapshots, rows, told, lost>>
    BY <1>0, <1>1, <1>3, PlacesAre DEF ScanReturns, TypeOK
  <2>2. TableIsHistory'
    <3>1. PICK at : InOrder(at)
      BY <1>0 DEF TableIsHistory
    <3>2. \A i \in 1..Len(snapshots) : at[i] <= clock' /\ at[i] < clock'
      BY <2>1, <3>1 DEF InOrder
    <3>3. InOrder(at)'
      BY <2>1, <3>1, <3>2 DEF InOrder
    <3> QED BY <3>3 DEF TableIsHistory
  <2>3. EntryIsLast' /\ DiffIsAgainstPrevious'
    BY <2>1 DEF EntryIsLast, DiffIsAgainstPrevious
  <2>4. DriftIsTold'
    BY <1>0, <2>1, DriftKept DEF DriftIsTold
  <2> QED BY <2>2, <2>3, <2>4 DEF AloneInv
<1>4. CASE RecordReport(d)
  <2> DEFINE n == Len(snapshots)
  <2>1. /\ pc[d] = "recording" /\ pc'[d] = "diffing"
        /\ rows' = Record(rows, report[d], clock)
        /\ snapshots' = Append(snapshots, report[d])
        /\ entry'[d] = n + 1 /\ UNCHANGED <<clock, report, told, lost>>
    BY <1>0, <1>1, <1>4, PlacesAre DEF RecordReport, TypeOK
  <2>2. /\ report[d] \in Reports /\ Len(snapshots') = n + 1 /\ snapshots'[n + 1] = report[d]
        /\ \A i \in 1..n : snapshots'[i] = snapshots[i]
    BY <1>0, <2>1 DEF LocalsOK
  <2>3. TableIsHistory'
    <3>1. PICK at : InOrder(at)
      BY <1>0 DEF TableIsHistory
    <3>2. clock \in Nat /\ at \in [1..n -> Nat] /\ \A i \in 1..n : at[i] < clock
      BY <1>0, <2>1, <3>1 DEF TypeOK, InOrder
    <3>3. PICK later \in [1..(n + 1) -> Nat] :
             later = [i \in 1..(n + 1) |-> IF i <= n THEN at[i] ELSE clock]
      <4> DEFINE f == [i \in 1..(n + 1) |-> IF i <= n THEN at[i] ELSE clock]
      <4>1. \A i \in 1..(n + 1) : (IF i <= n THEN at[i] ELSE clock) \in Nat
        BY <1>0, <3>2
      <4>2. f \in [1..(n + 1) -> Nat]
        BY <4>1
      <4> QED BY <4>2
    <3>4. /\ later[n + 1] = clock /\ \A i \in 1..n : later[i] = at[i]
          /\ 1..(n + 1) = 1..n \cup {n + 1}
      BY <1>0, <3>3
    <3>5. \A i, j \in 1..(n + 1) : i < j => later[i] < later[j]
      BY <1>0, <3>1, <3>2, <3>4 DEF InOrder
    <3>6. \A i \in 1..(n + 1) : later[i] <= clock
      BY <3>2, <3>4
    <3>7. rows' = {[target |-> snapshots'[i].target, at |-> later[i], payload |-> snapshots'[i]] :
                     i \in 1..(n + 1)}
      <4> DEFINE new == [target |-> report[d].target, at |-> clock, payload |-> report[d]]
                 Row(i) == [target |-> snapshots'[i].target, at |-> later[i],
                            payload |-> snapshots'[i]]
      <4>1. rows = {Row(i) : i \in 1..n}
        BY <2>2, <3>1, <3>4 DEF InOrder
      <4>2. Row(n + 1) = new
        BY <2>2, <3>4
      <4>3. \A r \in rows : r.at # clock
        BY <3>2, <3>4, <4>1
      <4>4. rows' = rows \cup {new}
        BY <2>1, <4>3 DEF Record
      <4> HIDE DEF new, Row
      <4>5. rows' = {Row(i) : i \in 1..(n + 1)}
        BY <3>4, <4>1, <4>2, <4>4
      <4> QED BY <4>5 DEF Row
    <3>8. InOrder(later)'
      BY <2>1, <2>2, <3>3, <3>5, <3>6, <3>7 DEF InOrder
    <3> QED BY <3>8 DEF TableIsHistory
  <2>4. EntryIsLast'
    BY <1>0, <2>1, <2>2 DEF EntryIsLast, TypeOK
  <2>5. DiffIsAgainstPrevious'
    BY <2>1 DEF DiffIsAgainstPrevious
  <2>6. DriftIsTold'
    <3> SUFFICES ASSUME NEW i \in 1..(n + 1), i # n + 1
                 PROVE  i \in lost \/ (i \in told <=> Meaningful(DriftOf(i)'))
      BY <2>1, <2>2 DEF DriftIsTold
    <3>1. i \in 1..n
      BY <1>0
    <3>2. DriftOf(i)' = DriftOf(i)
      BY <2>1, <2>2, <3>1, DriftStays
    <3> QED BY <1>0, <2>1, <3>1, <3>2 DEF DriftIsTold
  <2> QED BY <2>3, <2>4, <2>5, <2>6 DEF AloneInv
<1>5. CASE ComputeDiff(d)
  <2>1. /\ pc[d] = "diffing" /\ pc'[d] = "reporting"
        /\ diff'[d] = DiffAgainstPrevious(rows, report[d])
        /\ UNCHANGED <<snapshots, rows, clock, report, entry, told, lost>>
    BY <1>0, <1>1, <1>5, PlacesAre DEF ComputeDiff, LocalsOK
  <2>2. TableIsHistory'
    BY <1>0, <2>1, TableKept
  <2>3. EntryIsLast'
    BY <1>0, <2>1 DEF EntryIsLast
  <2>4. DiffIsAgainstPrevious'
    <3>1. entry[d] = Len(snapshots) /\ report[d] = snapshots[entry[d]] /\ entry[d] # 0
      BY <1>0, <2>1 DEF EntryIsLast, PlaceAt
    <3>2. diff'[d] = DriftOf(entry[d])
      BY <1>0, <2>1, <3>1, StoreFollowsHistory
    <3> QED BY <2>1, <3>2, DriftKept DEF DiffIsAgainstPrevious
  <2>5. DriftIsTold'
    BY <1>0, <2>1, DriftKept DEF DriftIsTold
  <2> QED BY <2>2, <2>3, <2>4, <2>5 DEF AloneInv
<1>6. CASE CallBack(d)
  <2>1. /\ pc[d] = "reporting" /\ pc'[d] = "target"
        /\ told' = IF Meaningful(diff[d]) THEN told \cup {entry[d]} ELSE told
        /\ UNCHANGED <<snapshots, rows, clock, lost>>
    BY <1>0, <1>1, <1>6, PlacesAre DEF CallBack
  <2>2. TableIsHistory'
    BY <1>0, <2>1, TableKept
  <2>3. EntryIsLast' /\ DiffIsAgainstPrevious'
    BY <2>1 DEF EntryIsLast, DiffIsAgainstPrevious
  <2>4. DriftIsTold'
    <3> SUFFICES ASSUME NEW i \in 1..Len(snapshots)
                 PROVE  i \in lost \/ (i \in told' <=> Meaningful(DriftOf(i)))
      BY <2>1, DriftKept DEF DriftIsTold
    <3>1. diff[d] = DriftOf(entry[d]) /\ entry[d] \notin told
      BY <1>0, <2>1 DEF DiffIsAgainstPrevious, EntryIsLast
    <3>2. CASE i = entry[d]
      BY <2>1, <3>1, <3>2
    <3>3. CASE i # entry[d]
      <4>1. i \in lost \/ (i \in told <=> Meaningful(DriftOf(i)))
        BY <1>0, <3>3 DEF DriftIsTold
      <4> QED BY <2>1, <3>3, <4>1
    <3> QED BY <3>2, <3>3
  <2> QED BY <2>2, <2>3, <2>4 DEF AloneInv
<1>7. CASE StopSignal(d) \/ UNCHANGED vars
  <2>1. UNCHANGED <<pc, snapshots, rows, clock, report, diff, entry, told, lost>>
    BY <1>7 DEF StopSignal, vars
  <2>2. TableIsHistory'
    BY <1>0, <2>1, TableKept
  <2>3. EntryIsLast' /\ DiffIsAgainstPrevious' /\ DriftIsTold'
    BY <1>0, <2>1, DriftKept DEF EntryIsLast, DiffIsAgainstPrevious, DriftIsTold
  <2> QED BY <2>2, <2>3 DEF AloneInv
<1>8. ~SetClockBack
  BY <1>0 DEF SetClockBack, TypeOK
<1> QED
  BY <1>2, <1>3, <1>4, <1>5, <1>6, <1>7, <1>8 DEF Next, DaemonStep, Terminated

LEMMA Alone ==
  ASSUME NEW d, Daemons = {d}, MaxSetBacks = 0
  PROVE  Spec => []AloneInv
<1>1. Init => AloneInv
  <2> SUFFICES ASSUME Init PROVE AloneInv
    OBVIOUS
  <2>1. InOrder(<<>>)
    BY PlacesAre DEF Init, InOrder
  <2> QED
    BY <2>1, PlacesAre DEF Init, AloneInv, TableIsHistory, EntryIsLast,
       DiffIsAgainstPrevious, DriftIsTold
<1>2. Typed /\ AloneInv /\ [Next]_vars => AloneInv'
  BY NextAlone
<1>3. IInv => Typed
  BY DEF IInv
<1> QED BY <1>1, <1>2, <1>3, Invariant, PTL DEF Spec

\* A daemon alone on its table, under a clock that is never set back, reports
\* the diff with the target's snapshot before, for any number of targets,
\* rounds and restarts (diff_against_previous, watch/baseline.py:97).
THEOREM DiffsFollowHistory ==
  ASSUME NEW d, Daemons = {d}, MaxSetBacks = 0
  PROVE  Spec => []DiffIsAgainstPrevious
<1>1. AloneInv => DiffIsAgainstPrevious
  BY DEF AloneInv
<1> QED BY <1>1, Alone, PTL

\* Such a daemon tells of the drift between two snapshots exactly once, unless
\* a failure, a kill or a callback that raises came after the later one was
\* committed (watch/loop.py:79-89).
THEOREM DriftIsToldOnce ==
  ASSUME NEW d, Daemons = {d}, MaxSetBacks = 0
  PROVE  Spec => []DriftIsTold
<1>1. AloneInv => DriftIsTold
  BY DEF AloneInv
<1> QED BY <1>1, Alone, PTL

-----------------------------------------------------------------------------
(* The daemon is a drift monitor                                           *)

\* The report a daemon is about to record is one of its target's.
ReportAtHand == \A d \in Daemons : pc[d] = "recording" => report[d] \in PossibleReports

LEMMA ReportComesFromScan == Typed /\ ReportAtHand /\ [Next]_vars => ReportAtHand'
<1> SUFFICES ASSUME Typed, ReportAtHand, [Next]_vars, NEW d \in Daemons,
                    pc'[d] = "recording"
             PROVE  report'[d] \in PossibleReports
  BY DEF ReportAtHand, PossibleReports
<1> USE DEF counters, locals, time, database, history, run
<1>0. TypeOK /\ LocalsOK /\ PlaceAt(d)
  BY DEF Typed, PlaceOK
<1>1. CASE ScanReturns(d)
  <2>1. PICK found \in Observations[setup[d].config] :
          report' = [report EXCEPT ![d] = [target |-> Targets[next[d]],
                                           config |-> setup[d].config,
                                           analyzers |-> found]]
    BY <1>1 DEF ScanReturns
  <2>2. report'[d] = [target |-> Targets[next[d]], config |-> setup[d].config,
                      analyzers |-> found]
    BY <1>0, <2>1 DEF LocalsOK
  <2>3. next[d] \in 1..Len(Targets)
    BY <1>0, <1>1, TargetsAre DEF ScanReturns, PlaceAt, Working, TypeOK
  <2>4. setup[d].config \in DOMAIN Observations
    BY <1>0, WatchAssumption DEF TypeOK
  <2>5. DOMAIN Targets = 1..Len(Targets)
    BY WatchAssumption
  <2> QED
    BY <2>2, <2>3, <2>4, <2>5 DEF PossibleReports
<1>2. CASE ~ScanReturns(d)
  <2>1. pc'[d] = pc[d]
    <3> SUFFICES ASSUME pc'[d] # pc[d] PROVE FALSE
      OBVIOUS
    <3>1. \E place \in Places \ {"recording"} : Goto(d, place)
      BY <1>0, <1>2, PlaceSteps, PlacesAre DEF DaemonStep, BeginRound, BeginTarget, EndRound,
         Wake, RecordReport, ComputeDiff, FailTarget, CallBack, CallBackRaises, Kill, StartDaemon
    <3> QED BY <1>0, <3>1, Goes
  <2>2. report'[d] = report[d]
    <3>1. ASSUME NEW e \in Daemons, e # d, ScanReturns(e)
          PROVE  report'[d] = report[d]
      BY <1>0, <3>1 DEF ScanReturns, LocalsOK
    <3> QED
      BY <1>2, <3>1 DEF Next, DaemonStep, BeginRound, BeginTarget, EndRound, Wake, RecordReport,
         ComputeDiff, FailTarget, CallBack, CallBackRaises, StopSignal, Kill, StartDaemon,
         SetClockBack, Terminated, vars
  <2> QED BY <2>1, <2>2 DEF ReportAtHand
<1> QED BY <1>1, <1>2

\* What the monitor is to call drift is what the history calls for.
LEMMA DriftedIs ==
  ASSUME NEW i \in Nat
  PROVE  Monitor!Drifted(i) <=> Meaningful(DriftOf(i))
<1>1. Monitor!Before(i) = Earlier(i) /\ Earlier(i) \subseteq 1..(i - 1)
  BY DEF Monitor!Before, Earlier
<1>2. CASE Earlier(i) = {}
  BY <1>1, <1>2 DEF Monitor!Drifted, DriftOf, Meaningful, NoDiff
<1>3. CASE Earlier(i) # {}
  <2> DEFINE last == CHOOSE j \in Earlier(i) : \A k \in Earlier(i) : k <= j
  <2>1. last \in Earlier(i) /\ \A k \in Earlier(i) : k <= last
    BY <1>1, <1>3, LastEarlier
  <2>2. DriftOf(i) = DiffOf(snapshots[last], snapshots[i])
    BY <1>3 DEF DriftOf
  <2> HIDE DEF last
  <2>3. \A j \in Earlier(i) : (\A k \in Earlier(i) : k <= j) => j = last
    BY <1>1, <2>1
  <2>4. Monitor!Drifted(i) <=> Meaningful(DiffOf(snapshots[last], snapshots[i]))
    BY <1>1, <2>1, <2>3 DEF Monitor!Drifted
  <2> QED BY <2>2, <2>4
<1> QED BY <1>2, <1>3

\* A daemon that leaves the report it is at, if any, loses it.
LEMMA LosesOrHides ==
  ASSUME NEW d, Daemons = {d}, UNCHANGED <<snapshots, told>>, LoseEntry(d),
         pc'[d] \notin {"diffing", "reporting"}
  PROVE  [Monitor!Next]_(Monitor!mvars)
<1>1. Open' = {}
  BY DEF Open
<1>2. CASE pc[d] \in {"diffing", "reporting"}
  <2>1. Open = {entry[d]} /\ lost' = lost \cup {entry[d]}
    BY <1>2 DEF Open, LoseEntry
  <2>2. Monitor!Lose
    BY <1>1, <2>1 DEF Monitor!Lose
  <2> QED BY <2>2 DEF Monitor!Next
<1>3. CASE pc[d] \notin {"diffing", "reporting"}
  <2>1. Open = {} /\ lost' = lost
    BY <1>3 DEF Open, LoseEntry
  <2> QED BY <1>1, <2>1 DEF Monitor!mvars
<1> QED BY <1>2, <1>3

\* A commit is a report that comes in, a callback tells of it, a failure loses
\* it; and nothing else shows.
LEMMA StepsOfMonitor ==
  ASSUME NEW d, Daemons = {d}, MaxSetBacks = 0
  PROVE  Typed /\ AloneInv /\ ReportAtHand /\ [Next]_vars => [Monitor!Next]_(Monitor!mvars)
<1> SUFFICES ASSUME Typed, AloneInv, ReportAtHand, [Next]_vars
             PROVE  [Monitor!Next]_(Monitor!mvars)
  OBVIOUS
<1> USE DEF counters, locals, time, database, history, run
<1>0. /\ TypeOK /\ LocalsOK /\ PlaceAt(d) /\ Len(snapshots) \in Nat
      /\ EntryIsLast /\ DiffIsAgainstPrevious
  BY DEF Typed, AloneInv, PlaceOK, LocalsOK
<1>1. ASSUME NEW place \in Places, Goto(d, place) PROVE pc'[d] = place
  BY <1>0, <1>1, Goes
<1>2. CASE \/ BeginRound(d) \/ BeginTarget(d) \/ EndRound(d) \/ Wake(d) \/ ScanReturns(d)
           \/ FailTarget(d) \/ CallBackRaises(d) \/ Kill(d)
           \/ \E s \in Setups : StartDaemon(d, s)
  <2>1. UNCHANGED <<snapshots, told>>
    BY <1>2 DEF BeginRound, BeginTarget, EndRound, Wake, ScanReturns, FailTarget,
       CallBackRaises, Kill, StartDaemon
  <2>2. LoseEntry(d)
    BY <1>2, PlacesAre DEF BeginRound, BeginTarget, EndRound, Wake, ScanReturns, FailTarget,
       CallBackRaises, Kill, StartDaemon, LoseEntry, Ended
  <2>3. \E place \in Places \ {"diffing", "reporting"} : Goto(d, place)
    BY <1>2, PlacesAre DEF BeginRound, BeginTarget, EndRound, Wake, ScanReturns, FailTarget,
       CallBackRaises, Kill, StartDaemon
  <2> QED BY <1>1, <2>1, <2>2, <2>3, LosesOrHides
<1>3. CASE RecordReport(d)
  <2>1. /\ pc[d] = "recording" /\ pc'[d] = "diffing"
        /\ snapshots' = Append(snapshots, report[d])
        /\ entry'[d] = Len(snapshots) + 1 /\ UNCHANGED <<told, lost>>
    BY <1>0, <1>1, <1>3, PlacesAre DEF RecordReport, TypeOK
  <2>2. Open = {} /\ Open' = {Len(snapshots) + 1}
    BY <2>1 DEF Open
  <2>3. report[d] \in PossibleReports
    BY <2>1 DEF ReportAtHand
  <2>4. Monitor!Receive(report[d])
    BY <2>1, <2>2 DEF Monitor!Receive
  <2> QED BY <2>3, <2>4 DEF Monitor!Next
<1>4. CASE CallBack(d)
  <2>1. /\ pc[d] = "reporting" /\ pc'[d] = "target"
        /\ told' = IF Meaningful(diff[d]) THEN told \cup {entry[d]} ELSE told
        /\ UNCHANGED <<snapshots, lost>>
    BY <1>0, <1>1, <1>4, PlacesAre DEF CallBack
  <2>2. Open = {entry[d]} /\ Open' = {}
    BY <2>1 DEF Open
  <2>3. Meaningful(diff[d]) <=> Monitor!Drifted(entry[d])
    <3>1. diff[d] = DriftOf(entry[d]) /\ entry[d] \in Nat
      BY <1>0, <2>1 DEF DiffIsAgainstPrevious, EntryIsLast
    <3> QED BY <3>1, DriftedIs
  <2>4. Monitor!Tell
    BY <2>1, <2>2, <2>3 DEF Monitor!Tell
  <2> QED BY <2>4 DEF Monitor!Next
<1>5. CASE ComputeDiff(d)
  <2>1. /\ pc[d] = "diffing" /\ pc'[d] = "reporting"
        /\ UNCHANGED <<snapshots, entry, told, lost>>
    BY <1>0, <1>1, <1>5, PlacesAre DEF ComputeDiff
  <2>2. Open' = Open
    BY <2>1 DEF Open
  <2> QED BY <2>1, <2>2 DEF Monitor!mvars
<1>6. CASE StopSignal(d) \/ UNCHANGED vars
  <2>1. UNCHANGED <<pc, snapshots, entry, told, lost>>
    BY <1>6 DEF StopSignal, vars
  <2>2. Open' = Open
    BY <2>1 DEF Open
  <2> QED BY <2>1, <2>2 DEF Monitor!mvars
<1>7. ~SetClockBack
  BY <1>0 DEF SetClockBack, TypeOK
<1> QED
  BY <1>2, <1>3, <1>4, <1>5, <1>6, <1>7 DEF Next, DaemonStep, Terminated

\* A daemon alone on its table under a steady clock takes only steps a drift
\* monitor may take: whatever is scanned, fails, is killed or restarted, reports
\* come in one by one and each is told of exactly if it drifted, or lost.
THEOREM MonitorIsImplemented ==
  ASSUME NEW d, Daemons = {d}, MaxSetBacks = 0
  PROVE  Spec => ImplementsMonitor
<1>1. Init => Monitor!Init /\ ReportAtHand
  BY PlacesAre DEF Init, Monitor!Init, Open, ReportAtHand
<1>2. Typed /\ ReportAtHand /\ [Next]_vars => ReportAtHand'
  BY ReportComesFromScan
<1>3. Typed /\ AloneInv /\ ReportAtHand /\ [Next]_vars => [Monitor!Next]_(Monitor!mvars)
  BY StepsOfMonitor
<1>4. IInv => Typed
  BY DEF IInv
<1> QED BY <1>1, <1>2, <1>3, <1>4, Alone, Invariant, PTL DEF Spec, ImplementsMonitor, Monitor!Spec
=============================================================================
