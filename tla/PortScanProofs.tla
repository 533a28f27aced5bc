--------------------------- MODULE PortScanProofs ---------------------------
(***************************************************************************)
(* For any ports, all different, and any number of permits: the port scan  *)
(* keeps its permits, and a report it makes is exactly what was answered.  *)
(***************************************************************************)
EXTENDS PortScan, FiniteSetTheorems, TLAPS

\* A gather that may still deliver; and how many probes are in a state of T.
Undisturbed == stage \in {"idle", "probing", "reported"}
Done == {"done"}
Count(T) == Cardinality({j \in Probes : probe[j] \in T})

AnswerOf(i) == IF Ports[i] \in accepted THEN <<Ports[i], TRUE>> ELSE <<Ports[i], FALSE>>

\* The list holds the answer of every probe that is done, and no other.
AnswersListed ==
  /\ Len(results) = Count(Done)
  /\ \A i \in Probes : probe[i] = "done" => \E n \in DOMAIN results : results[n] = AnswerOf(i)
  /\ \A n \in DOMAIN results :
       \E i \in Probes : probe[i] = "done" /\ results[n] = AnswerOf(i)

\* Who accepted a connection is closing it or has answered that it is open.
AcceptedAreOpen ==
  \A i \in Probes :
    /\ Ports[i] \in accepted => probe[i] \in {"closing", "done"}
    /\ probe[i] = "closing" => Ports[i] \in accepted

\* How far the probes are by the stage.
StagesAgree ==
  /\ stage = "idle" => \A i \in Probes : probe[i] = "none"
  /\ stage = "reported" => \A i \in Probes : probe[i] = "done"
  /\ stage = "probing" => \A i \in Probes : probe[i] \notin {"dequeued", "unwinding"}

IInv ==
  /\ TypeOK
  /\ PermitsAreKept
  /\ StagesAgree
  /\ Undisturbed => AnswersListed /\ AcceptedAreOpen

-----------------------------------------------------------------------------
(* Counting                                                                *)

LEMMA ProbesFinite ==
  ASSUME PortScanAssumption
  PROVE  IsFiniteSet(Probes) /\ Cardinality(Probes) = Len(Ports)
<1>1. Len(Ports) \in Nat /\ Probes = 1..Len(Ports)
  BY DEF PortScanAssumption, Probes
<1>2. \A n \in Nat : IsFiniteSet(1..n) /\ Cardinality(1..n) = IF 1 > n THEN 0 ELSE n - 1 + 1
  BY FS_Interval
<1>3. \A n \in Nat : (IF 1 > n THEN 0 ELSE n - 1 + 1) = n
  OBVIOUS
<1> QED
  BY <1>1, <1>2, <1>3

\* One probe's becoming something else changes a count of probes by that probe.
LEMMA Recount ==
  ASSUME PortScanAssumption, TypeOK, NEW i \in Probes, NEW state, Become(i, state), NEW T
  PROVE  /\ Count(T) \in Nat
         /\ (probe[i] \in T <=> state \in T) => Count(T)' = Count(T)
         /\ probe[i] \in T /\ state \notin T => Count(T)' = Count(T) - 1
         /\ probe[i] \notin T /\ state \in T => Count(T)' = Count(T) + 1
<1> DEFINE Before == {j \in Probes : probe[j] \in T}
           After == {j \in Probes : probe'[j] \in T}
           Rest == {j \in Probes : j # i /\ probe[j] \in T}
<1>1. IsFiniteSet(Rest) /\ IsFiniteSet(Before) /\ IsFiniteSet(After)
  <2>1. Rest \in SUBSET Probes /\ Before \in SUBSET Probes /\ After \in SUBSET Probes
    OBVIOUS
  <2> HIDE DEF Rest, Before, After
  <2> QED
    BY <2>1, ProbesFinite, FS_Subset
<1>2. /\ Cardinality(Rest) \in Nat /\ Cardinality(Before) \in Nat
      /\ Cardinality(Rest \cup {i}) = Cardinality(Rest) + 1
  <2>1. i \notin Rest
    OBVIOUS
  <2> HIDE DEF Rest, Before, After
  <2> QED
    BY <1>1, <2>1, FS_CardinalityType, FS_AddElement
<1>3. Before = IF probe[i] \in T THEN Rest \cup {i} ELSE Rest
  OBVIOUS
<1>4. After = IF state \in T THEN Rest \cup {i} ELSE Rest
  <2>1. /\ probe'[i] = state
        /\ \A j \in Probes : j # i => probe'[j] = probe[j]
    BY DEF TypeOK, Become
  <2> QED
    BY <2>1
<1>5. Count(T) = Cardinality(Before) /\ Count(T)' = Cardinality(After)
  BY DEF Count, Probes
<1> HIDE DEF Rest, Before, After
<1> QED
  BY <1>2, <1>3, <1>4, <1>5

\* No probe is in a state of T, or every one is.
LEMMA NoneOrAll ==
  ASSUME PortScanAssumption, NEW T
  PROVE  /\ (\A i \in Probes : probe[i] \notin T) => Count(T) = 0
         /\ (\A i \in Probes : probe[i] \in T) => Count(T) = Len(Ports)
<1>1. ASSUME \A i \in Probes : probe[i] \notin T
      PROVE  Count(T) = 0
  <2>1. {j \in Probes : probe[j] \in T} = {}
    BY <1>1
  <2> QED
    BY <2>1, FS_EmptySet DEF Count
<1>2. ASSUME \A i \in Probes : probe[i] \in T
      PROVE  Count(T) = Len(Ports)
  <2>1. {j \in Probes : probe[j] \in T} = Probes
    BY <1>2
  <2> QED
    BY <2>1, ProbesFinite DEF Count
<1> QED
  BY <1>1, <1>2

-----------------------------------------------------------------------------
(* The invariant                                                           *)

LEMMA Initially ==
  ASSUME PortScanAssumption, Init
  PROVE  IInv
<1>1. Count(Holding) = 0 /\ Count(Done) = 0
  BY NoneOrAll DEF Init, Holding, Done
<1>2. TypeOK
  BY DEF Init, TypeOK, PortScanAssumption
<1>3. PermitsAreKept
  BY <1>1 DEF Init, PermitsAreKept, Count, PortScanAssumption
<1>4. StagesAgree
  BY DEF Init, StagesAgree
<1>5. AnswersListed
  BY <1>1 DEF Init, AnswersListed
<1>6. AcceptedAreOpen
  BY DEF Init, AcceptedAreOpen
<1> QED
  BY <1>2, <1>3, <1>4, <1>5, <1>6 DEF IInv

\* A step of a probe that neither appends an answer nor accepts a connection
\* leaves list and ports as they were.
LEMMA SilentStep ==
  ASSUME PortScanAssumption, IInv, NEW i \in Probes, NEW state, Become(i, state),
         UNCHANGED <<stage, results, accepted>>,
         probe[i] \notin {"closing", "done"}, state \notin {"closing", "done"}
  PROVE  Undisturbed' => AnswersListed' /\ AcceptedAreOpen'
<1> SUFFICES ASSUME Undisturbed'
             PROVE  AnswersListed' /\ AcceptedAreOpen'
  OBVIOUS
<1>1. TypeOK /\ AnswersListed /\ AcceptedAreOpen
  BY DEF IInv, Undisturbed
<1>2. Count(Done)' = Count(Done)
  BY <1>1, Recount DEF Done
<1>3. /\ probe'[i] = state
      /\ \A j \in Probes : j # i => probe'[j] = probe[j]
  BY <1>1 DEF TypeOK, Become
<1>4. AnswersListed'
  <2>1. \A j : AnswerOf(j)' = AnswerOf(j)
    BY DEF AnswerOf
  <2>2. \A j \in Probes : probe'[j] = "done" <=> probe[j] = "done"
    BY <1>3
  <2>3. Probes' = Probes
    BY DEF Probes
  <2> QED
    BY <1>1, <1>2, <2>1, <2>2, <2>3 DEF AnswersListed
<1>5. AcceptedAreOpen'
  BY <1>1, <1>3 DEF AcceptedAreOpen, Probes
<1> QED
  BY <1>4, <1>5

\* So does a step that leaves every probe as it was.
LEMMA StillStep ==
  ASSUME IInv, UNCHANGED <<probe, permits, results, accepted>>, Undisturbed' => Undisturbed
  PROVE  /\ PermitsAreKept'
         /\ Undisturbed' => AnswersListed' /\ AcceptedAreOpen'
<1>1. PermitsAreKept'
  BY DEF IInv, PermitsAreKept, Undisturbed, Probes
<1>2. Undisturbed' => AnswersListed' /\ AcceptedAreOpen'
  BY DEF IInv, AnswersListed, AnswerOf, AcceptedAreOpen, Count, Probes
<1> QED
  BY <1>1, <1>2

\* A probe that holds a permit is counted among those that do.
LEMMA HolderCounts ==
  ASSUME PortScanAssumption, NEW i \in Probes, probe[i] \in Holding
  PROVE  Count(Holding) # 0
<1>1. IsFiniteSet({j \in Probes : probe[j] \in Holding})
  BY ProbesFinite, FS_Subset
<1>2. Count(Holding) = 0 => {j \in Probes : probe[j] \in Holding} = {}
  BY <1>1, FS_EmptySet DEF Count
<1> QED
  BY <1>2

\* A probe that leaves "async with sem" gives its permit back, whatever else it does.
LEMMA GivesBack ==
  ASSUME PortScanAssumption, IInv, NEW i \in Probes, NEW state, Become(i, state),
         probe[i] \in Holding, state \in ProbeEnds, permits' = permits + 1
  PROVE  permits' \in 0..Capacity /\ PermitsAreKept'
<1>1. TypeOK /\ permits + Count(Holding) = Capacity
  BY DEF IInv, PermitsAreKept, Count
<1>2. state \notin Holding
  BY DEF Holding, ProbeEnds
<1>3. /\ Count(Holding) \in Nat /\ Count(Holding) # 0
      /\ Count(Holding)' = Count(Holding) - 1
  BY <1>1, <1>2, Recount, HolderCounts
<1>4. permits' \in 0..Capacity
  BY <1>1, <1>3 DEF TypeOK, PortScanAssumption
<1>5. permits' + Count(Holding)' = Capacity
  BY <1>1, <1>3 DEF TypeOK, PortScanAssumption
<1> QED
  BY <1>4, <1>5 DEF PermitsAreKept, Count

\* A probe that appends its answer, and with it what it accepted, keeps type and permits.
LEMMA AnswerKeeps ==
  ASSUME PortScanAssumption, IInv, NEW i \in Probes, NEW open \in BOOLEAN, Answered(i, open),
         probe[i] \in Holding, UNCHANGED stage, accepted' \in {accepted, accepted \cup {Ports[i]}}
  PROVE  TypeOK' /\ PermitsAreKept' /\ StagesAgree'
<1>1. TypeOK /\ StagesAgree
  BY DEF IInv
<1>2. Become(i, "done") /\ permits' = permits + 1
  BY DEF Answered
<1>3. permits' \in 0..Capacity /\ PermitsAreKept'
  BY <1>2, GivesBack DEF ProbeEnds
<1>4. results' \in Seq({Ports[j] : j \in Probes} \X BOOLEAN)
  <2> DEFINE Answers == {Ports[j] : j \in Probes} \X BOOLEAN
  <2>1. results' = Append(results, <<Ports[i], open>>)
    BY DEF Answered
  <2>2. <<Ports[i], open>> \in Answers /\ results \in Seq(Answers)
    BY <1>1 DEF TypeOK
  <2> HIDE DEF Answers
  <2>3. results' \in Seq(Answers)
    BY <2>1, <2>2
  <2> QED
    BY <2>3 DEF Answers
<1>5. probe' \in [Probes -> {"none"} \cup ActiveProbe \cup ProbeEnds]
  BY <1>1, <1>2 DEF TypeOK, Become, ProbeEnds
<1>6. TypeOK'
  BY <1>1, <1>3, <1>4, <1>5 DEF TypeOK, Probes
<1>7. StagesAgree'
  <2>1. /\ probe'[i] = "done" /\ probe[i] \notin {"none", "done"}
        /\ \A j \in Probes : j # i => probe'[j] = probe[j]
    BY <1>1, <1>2 DEF TypeOK, Become, Holding
  <2> QED
    BY <1>1, <2>1 DEF StagesAgree, Probes
<1> QED
  BY <1>3, <1>6, <1>7

\* A probe takes an answer: the list grows by it and the permit comes back.
LEMMA AnswerStep ==
  ASSUME PortScanAssumption, IInv, NEW i \in Probes,
         \/ probe[i] = "connecting" /\ Answered(i, FALSE)
         \/ probe[i] = "closing" /\ Answered(i, TRUE),
         UNCHANGED <<stage, accepted>>
  PROVE  IInv'
<1>1. /\ TypeOK
      /\ Undisturbed => AnswersListed /\ AcceptedAreOpen
  BY DEF IInv
<1>2. /\ Become(i, "done")
      /\ probe[i] \in Holding /\ probe[i] \notin Done
  BY DEF Answered, Holding, Done
<1>3. /\ probe'[i] = "done"
      /\ \A j \in Probes : j # i => probe'[j] = probe[j]
  BY <1>1, <1>2 DEF TypeOK, Become
<1>4. Count(Done) \in Nat /\ Count(Done)' = Count(Done) + 1
  BY <1>1, <1>2, Recount DEF Done
<1>5. TypeOK' /\ PermitsAreKept' /\ StagesAgree'
  BY <1>2, AnswerKeeps
<1>6. ASSUME Undisturbed
       PROVE  AnswersListed' /\ AcceptedAreOpen'
  <2>1. AnswersListed /\ AcceptedAreOpen
    BY <1>1, <1>6
  <2>2. Ports[i] \in accepted <=> probe[i] = "closing"
    BY <2>1 DEF AcceptedAreOpen
  <2>3. results' = Append(results, AnswerOf(i))
    BY <2>2 DEF Answered, AnswerOf
  <2>4. /\ Len(results) \in Nat /\ Len(results') = Len(results) + 1
        /\ DOMAIN results = 1..Len(results) /\ DOMAIN results' = 1..(Len(results) + 1)
        /\ results'[Len(results) + 1] = AnswerOf(i)
        /\ \A n \in DOMAIN results : results'[n] = results[n]
    <3> DEFINE Answers == {Ports[j] : j \in Probes} \X BOOLEAN
    <3>1. results \in Seq(Answers)
      BY <1>1 DEF TypeOK
    <3>2. AnswerOf(i) \in Answers
      BY DEF AnswerOf
    <3> HIDE DEF Answers
    <3> QED
      BY <2>3, <3>1, <3>2
  <2>5. \A j : AnswerOf(j)' = AnswerOf(j)
    BY DEF AnswerOf
  <2>6. AnswersListed'
    <3>1. Len(results') = Count(Done)'
      BY <1>4, <2>1, <2>4 DEF AnswersListed
    <3>2. ASSUME NEW j \in Probes, probe'[j] = "done"
          PROVE  \E n \in DOMAIN results' : results'[n] = AnswerOf(j)
      BY <1>3, <2>1, <2>4, <3>2 DEF AnswersListed
    <3>3. ASSUME NEW n \in DOMAIN results'
          PROVE  \E j \in Probes : probe'[j] = "done" /\ results'[n] = AnswerOf(j)
      <4>1. CASE n \in DOMAIN results
        BY <1>3, <2>1, <2>4, <4>1 DEF AnswersListed
      <4>2. CASE n = Len(results) + 1
        BY <1>3, <2>4, <4>2
      <4> QED
        BY <2>4, <4>1, <4>2
    <3> QED
      BY <3>1, <3>2, <3>3, <2>5 DEF AnswersListed, Probes
  <2>7. AcceptedAreOpen'
    BY <1>3, <2>1 DEF AcceptedAreOpen, Probes
  <2> QED
    BY <2>6, <2>7
<1> QED
  BY <1>5, <1>6 DEF IInv, Undisturbed

\* What a cancelled probe answers late is read by no report.
LEMMA LateStep ==
  ASSUME PortScanAssumption, IInv, NEW i \in Probes, AnswerLate(i)
  PROVE  IInv'
<1>1. probe[i] = "unwinding" /\ probe[i] \in Holding /\ UNCHANGED stage
  BY DEF AnswerLate, Holding
<1>2. PICK open \in BOOLEAN :
        Answered(i, open) /\ accepted' \in {accepted, accepted \cup {Ports[i]}}
  BY DEF AnswerLate
<1>3. TypeOK' /\ PermitsAreKept' /\ StagesAgree'
  BY <1>1, <1>2, AnswerKeeps
<1>4. ~Undisturbed'
  BY <1>1 DEF IInv, StagesAgree, Undisturbed
<1> QED
  BY <1>3, <1>4 DEF IInv

LEMMA AcquireStep ==
  ASSUME PortScanAssumption, IInv, NEW i \in Probes, Acquire(i)
  PROVE  IInv'
<1>1. TypeOK /\ PermitsAreKept /\ StagesAgree /\ probe[i] = "waiting"
  BY DEF IInv, Acquire
<1>2. Become(i, "connecting") /\ permits > 0 /\ permits' = permits - 1
  BY DEF Acquire
<1>3. Count(Holding) \in Nat /\ Count(Holding)' = Count(Holding) + 1
  BY <1>1, <1>2, Recount DEF Holding
<1>4. TypeOK'
  BY <1>1, <1>2 DEF TypeOK, Acquire, Become, ActiveProbe, Holding, Probes, PortScanAssumption
<1>5. PermitsAreKept'
  BY <1>1, <1>2, <1>3 DEF TypeOK, PermitsAreKept, Count, PortScanAssumption
<1>6. StagesAgree'
  BY <1>1, <1>2 DEF StagesAgree, Acquire, TypeOK, Become, Probes
<1>7. Undisturbed' => AnswersListed' /\ AcceptedAreOpen'
  BY <1>1, <1>2, SilentStep DEF Acquire
<1> QED
  BY <1>4, <1>5, <1>6, <1>7 DEF IInv

LEMMA AcceptStep ==
  ASSUME PortScanAssumption, IInv, NEW i \in Probes, Accept(i)
  PROVE  IInv'
<1>1. TypeOK /\ PermitsAreKept /\ StagesAgree /\ probe[i] = "connecting"
  BY DEF IInv, Accept
<1>2. /\ Become(i, "closing") /\ accepted' = accepted \cup {Ports[i]}
      /\ UNCHANGED <<stage, permits, results>>
  BY DEF Accept
<1>3. /\ probe'[i] = "closing"
      /\ \A j \in Probes : j # i => probe'[j] = probe[j]
  BY <1>1, <1>2 DEF TypeOK, Become
<1>4. /\ Count(Holding) \in Nat /\ Count(Holding)' = Count(Holding)
      /\ Count(Done)' = Count(Done)
  BY <1>1, <1>2, Recount DEF Holding, Done
<1>5. TypeOK'
  BY <1>1, <1>2 DEF TypeOK, Become, ActiveProbe, Holding, Probes
<1>6. PermitsAreKept'
  BY <1>1, <1>2, <1>4 DEF PermitsAreKept, Count
<1>7. StagesAgree'
  BY <1>1, <1>2, <1>3 DEF StagesAgree, Probes
<1>8. ASSUME Undisturbed
      PROVE  AnswersListed' /\ AcceptedAreOpen'
  <2>1. AnswersListed /\ AcceptedAreOpen
    BY <1>8 DEF IInv
  <2>2. \A j \in Probes : j # i => Ports[j] # Ports[i]
    BY DEF PortScanAssumption, Probes
  <2>3. \A j \in Probes : j # i => AnswerOf(j)' = AnswerOf(j)
    BY <1>2, <2>2 DEF AnswerOf
  <2>4. AnswersListed'
    BY <1>1, <1>2, <1>3, <1>4, <2>1, <2>3 DEF AnswersListed, Probes
  <2>5. AcceptedAreOpen'
    BY <1>2, <1>3, <2>1, <2>2 DEF AcceptedAreOpen, Probes
  <2> QED
    BY <2>4, <2>5
<1> QED
  BY <1>2, <1>5, <1>6, <1>7, <1>8 DEF IInv, Undisturbed

LEMMA FailStep ==
  ASSUME PortScanAssumption, IInv, NEW i \in Probes, Fail(i)
  PROVE  IInv'
<1>1. TypeOK /\ StagesAgree /\ probe[i] = "connecting"
  BY DEF IInv, Fail
<1>2. Become(i, "raised") /\ permits' = permits + 1
  BY DEF Fail
<1>3. permits' \in 0..Capacity /\ PermitsAreKept'
  BY <1>1, <1>2, GivesBack DEF Holding, ProbeEnds
<1>4. TypeOK'
  BY <1>1, <1>2, <1>3 DEF TypeOK, Fail, Become, ProbeEnds, Probes
<1>5. StagesAgree'
  BY <1>1, <1>2 DEF StagesAgree, Fail, TypeOK, Become, Probes
<1>6. Undisturbed' => AnswersListed' /\ AcceptedAreOpen'
  BY <1>1, <1>2, SilentStep DEF Fail
<1> QED
  BY <1>3, <1>4, <1>5, <1>6 DEF IInv

\* A cancelled probe ends, with its permit or without one.
LEMMA CancelledProbeStep ==
  ASSUME PortScanAssumption, IInv, NEW i \in Probes, LeaveQueue(i) \/ Unwound(i)
  PROVE  IInv'
<1>1. TypeOK /\ StagesAgree /\ probe[i] \in {"dequeued", "unwinding"} /\ UNCHANGED stage
  BY DEF IInv, LeaveQueue, Unwound
<1>2. PICK end \in {"cancelled", "raised"} : Become(i, end)
  BY DEF LeaveQueue, Unwound
<1>3. permits' \in 0..Capacity /\ PermitsAreKept'
  <2>1. CASE Unwound(i)
    BY <1>2, <2>1, GivesBack DEF Unwound, Holding, ProbeEnds
  <2>2. CASE LeaveQueue(i)
    <3>1. Count(Holding)' = Count(Holding)
      BY <1>1, <1>2, <2>2, Recount DEF LeaveQueue, Holding
    <3> QED
      BY <1>1, <2>2, <3>1 DEF IInv, TypeOK, PermitsAreKept, Count, LeaveQueue
  <2> QED
    BY <2>1, <2>2
<1>4. TypeOK'
  BY <1>1, <1>2, <1>3 DEF TypeOK, LeaveQueue, Unwound, Become, ProbeEnds, Probes
<1>5. ~Undisturbed /\ ~Undisturbed'
  BY <1>1 DEF StagesAgree, Undisturbed
<1>6. StagesAgree'
  BY <1>5 DEF StagesAgree, Undisturbed
<1> QED
  BY <1>3, <1>4, <1>5, <1>6 DEF IInv

LEMMA BeginStep ==
  ASSUME PortScanAssumption, IInv, BeginProbes
  PROVE  IInv'
<1>1. TypeOK /\ PermitsAreKept /\ AnswersListed /\ AcceptedAreOpen
  BY DEF IInv, Undisturbed, BeginProbes
<1>2. /\ \A i \in Probes : probe[i] = "none"
      /\ \A i \in Probes : probe'[i] = "waiting"
      /\ stage = "idle" /\ UNCHANGED <<permits, results, accepted>>
  BY DEF IInv, StagesAgree, BeginProbes
<1>3. Count(Holding) = 0 /\ Count(Done) = 0
  BY <1>2, NoneOrAll DEF Holding, Done
<1>4. Count(Holding)' = 0 /\ Count(Done)' = 0
  <2>1. /\ {j \in Probes : probe'[j] \in Holding} = {}
        /\ {j \in Probes : probe'[j] \in Done} = {}
    BY <1>2 DEF Holding, Done
  <2> QED
    BY <2>1, FS_EmptySet DEF Count, Probes
<1>5. TypeOK'
  BY <1>1 DEF TypeOK, BeginProbes, ActiveProbe, Probes
<1>6. PermitsAreKept'
  BY <1>1, <1>2, <1>3, <1>4 DEF PermitsAreKept, Count
<1>7. StagesAgree'
  BY DEF StagesAgree, BeginProbes
<1>8. AnswersListed'
  BY <1>1, <1>2, <1>3, <1>4 DEF AnswersListed, AnswerOf, Probes
<1>9. AcceptedAreOpen'
  BY <1>1, <1>2 DEF AcceptedAreOpen, Probes
<1> QED
  BY <1>5, <1>6, <1>7, <1>8, <1>9 DEF IInv

LEMMA GatherEnds ==
  ASSUME PortScanAssumption, IInv, GatherStep
  PROVE  IInv'
<1>1. /\ stage' \in {"reported", "raised", "cancelled"}
      /\ UNCHANGED <<probe, permits, results, accepted>>
      /\ Undisturbed' => stage = "probing" /\ \A i \in Probes : probe[i] = "done"
  BY DEF GatherStep, ReportPorts, RaiseFromProbe, Cancelled, Undisturbed
<1>2. TypeOK'
  BY <1>1 DEF IInv, TypeOK, Probes
<1>3. StagesAgree'
  BY <1>1 DEF StagesAgree, Undisturbed, Probes
<1> QED
  BY <1>1, <1>2, <1>3, StillStep DEF IInv, Undisturbed

LEMMA CancelStep ==
  ASSUME PortScanAssumption, IInv, CancelProbes
  PROVE  IInv'
<1>1. TypeOK /\ StagesAgree /\ PermitsAreKept
  BY DEF IInv
<1>2. /\ \A i \in Probes : probe'[i] = IF probe[i] = "waiting" THEN "dequeued"
                                     ELSE IF probe[i] \in Holding THEN "unwinding"
                                     ELSE probe[i]
      /\ stage' = (IF stage = "probing" THEN "cancelling" ELSE stage)
      /\ UNCHANGED <<permits, results, accepted>>
  BY DEF CancelProbes
<1>3. TypeOK'
  BY <1>1 DEF CancelProbes, TypeOK, ActiveProbe, Holding, Probes
<1>4. PermitsAreKept'
  <2>1. {j \in Probes : probe'[j] \in Holding} = {j \in Probes : probe[j] \in Holding}
    BY <1>2 DEF Holding
  <2> QED
    BY <1>1, <1>2, <2>1 DEF PermitsAreKept, Probes
<1>5. CASE Undisturbed'
  <2>1. Undisturbed /\ stage' = stage /\ stage # "probing"
    BY <1>2, <1>5 DEF Undisturbed
  <2>2. \A i \in Probes : probe[i] # "waiting" /\ probe[i] \notin Holding
    BY <1>1, <2>1 DEF StagesAgree, Undisturbed, Holding
  <2>3. probe' = probe
    BY <1>1, <2>2 DEF CancelProbes, TypeOK
  <2>4. StagesAgree'
    BY <1>1, <2>1, <2>3 DEF StagesAgree, Probes
  <2> QED
    BY <1>2, <1>3, <2>1, <2>3, <2>4, StillStep DEF IInv
<1>6. CASE ~Undisturbed'
  <2>1. StagesAgree'
    BY <1>6 DEF StagesAgree, Undisturbed
  <2> QED
    BY <1>3, <1>4, <1>6, <2>1 DEF IInv
<1> QED
  BY <1>5, <1>6

LEMMA Inductive ==
  ASSUME PortScanAssumption, IInv, [Next]_scanVars
  PROVE  IInv'
<1>1. CASE BeginProbes
  BY <1>1, BeginStep
<1>2. ASSUME NEW i \in Probes, ProbeStep(i)
      PROVE  IInv'
  <2>1. CASE Acquire(i)
    BY <2>1, AcquireStep
  <2>2. CASE Accept(i)
    BY <2>2, AcceptStep
  <2>3. CASE Refuse(i)
    BY <2>3, AnswerStep DEF Refuse
  <2>4. CASE Closed(i)
    BY <2>4, AnswerStep DEF Closed
  <2>5. CASE Fail(i)
    BY <2>5, FailStep
  <2>6. CASE LeaveQueue(i) \/ Unwound(i)
    BY <2>6, CancelledProbeStep
  <2>7. CASE AnswerLate(i)
    BY <2>7, LateStep
  <2> QED
    BY <1>2, <2>1, <2>2, <2>3, <2>4, <2>5, <2>6, <2>7 DEF ProbeStep
<1>3. CASE GatherStep
  BY <1>3, GatherEnds
<1>4. CASE CancelProbes
  BY <1>4, CancelStep
<1>5. CASE UNCHANGED scanVars
  <2>1. /\ UNCHANGED <<probe, permits, results, accepted>>
        /\ stage' = stage
    BY <1>5 DEF scanVars
  <2>2. TypeOK' /\ StagesAgree'
    BY <2>1 DEF IInv, TypeOK, StagesAgree, Probes
  <2> QED
    BY <2>1, <2>2, StillStep DEF IInv, Undisturbed
<1> QED
  BY <1>1, <1>2, <1>3, <1>4, <1>5 DEF Next

-----------------------------------------------------------------------------
(* The theorems                                                            *)

\* The inductive invariant holds of every state the port scan can be in.
THEOREM ScanInvariant == ASSUME PortScanAssumption PROVE Spec => []IInv
<1>1. Init => IInv
  BY Initially
<1>2. IInv /\ [Next]_scanVars => IInv'
  BY Inductive
<1> QED
  BY <1>1, <1>2, PTL DEF Spec

\* However the probes interleave, fail, are cancelled in the queue or with a permit,
\* and answer after that, the semaphore of analyzers/ports.py loses no permit and
\* hands out none twice.
THEOREM PermitsKept == ASSUME PortScanAssumption PROVE Spec => []PermitsAreKept
<1>1. IInv => PermitsAreKept
  BY DEF IInv
<1> QED
  BY <1>1, ScanInvariant, PTL

\* A report says open of exactly the ports that accepted, and has every port
\* once, in whatever order the probes appended their answers.
THEOREM ReportExact == ASSUME PortScanAssumption PROVE Spec => []ReportIsExact
<1>1. ASSUME IInv, stage = "reported"
      PROVE  /\ OpenPorts = accepted
             /\ Len(results) = Len(Ports)
             /\ \A i \in Probes : \E n \in DOMAIN results : results[n][1] = Ports[i]
  <2>1. /\ TypeOK /\ AnswersListed
        /\ \A i \in Probes : probe[i] = "done"
    BY <1>1 DEF IInv, Undisturbed, StagesAgree
  <2>2. Len(results) = Len(Ports)
    BY <2>1, NoneOrAll DEF AnswersListed, Done
  <2>3. /\ \A i \in Probes : \E n \in DOMAIN results : results[n] = AnswerOf(i)
        /\ \A n \in DOMAIN results : \E i \in Probes : results[n] = AnswerOf(i)
    BY <2>1 DEF AnswersListed
  <2>4. \A i : AnswerOf(i)[1] = Ports[i] /\ (AnswerOf(i)[2] <=> Ports[i] \in accepted)
    BY DEF AnswerOf
  <2>5. ASSUME NEW p
        PROVE  p \in OpenPorts <=> p \in accepted
    <3>1. ASSUME p \in OpenPorts
          PROVE  p \in accepted
      <4>1. PICK n \in DOMAIN results : results[n][2] /\ p = results[n][1]
        BY <3>1 DEF OpenPorts
      <4> QED
        BY <2>3, <2>4, <4>1
    <3>2. ASSUME p \in accepted
          PROVE  p \in OpenPorts
      <4>1. PICK i \in Probes : p = Ports[i]
        BY <2>1, <3>2 DEF TypeOK
      <4>2. PICK n \in DOMAIN results : results[n] = AnswerOf(i)
        BY <2>3
      <4> QED
        BY <2>4, <3>2, <4>1, <4>2 DEF OpenPorts
    <3> QED
      BY <3>1, <3>2
  <2> QED
    BY <2>2, <2>3, <2>4, <2>5
<1>2. IInv => ReportIsExact
  BY <1>1 DEF ReportIsExact
<1> QED
  BY <1>2, ScanInvariant, PTL
=============================================================================
