------------------------------ MODULE PortScan ------------------------------
(***************************************************************************)
(* analyzers/ports.py: analyze() makes one probe task per port and awaits  *)
(* asyncio.gather over them.  A probe takes a permit of a semaphore, in    *)
(* the order of the ports, tries to connect, closes the connection it got  *)
(* and appends <<port, open>> to one shared list; the list is sorted into  *)
(* the report when all are done.                                           *)
(*                                                                         *)
(* gather raises at the first probe that does and leaves the others        *)
(* running; when analyze() itself is cancelled it cancels them all and     *)
(* raises at the first that ends cancelled.  A step is what runs between   *)
(* two awaits.                                                             *)
(*                                                                         *)
(* Definitions named Bug_... are mutated forms used to test properties.    *)
(***************************************************************************)
EXTENDS Integers, Sequences, FiniteSets

CONSTANTS
  Ports,      \* the sequence of ports probed
  Capacity    \* the permits of the semaphore

\* What is assumed of them: at least one permit, and no port twice.
PortScanAssumption ==
  /\ Ports \in Seq(Nat)
  /\ \A i, j \in DOMAIN Ports : Ports[i] = Ports[j] => i = j
  /\ Capacity \in Nat \ {0}

VARIABLES
  stage,      \* analyze(): "idle", "probing", "cancelling", or how it ended
  probe,      \* the probe task of each port; cancelled, it is "dequeued" when
              \* it waited for its permit and "unwinding" when it held it
  permits,    \* the semaphore's free permits
  results,    \* the shared list
  accepted    \* history: the ports that accepted the connection

scanVars == <<stage, probe, permits, results, accepted>>

Probes == DOMAIN Ports
AtWork == {"waiting", "connecting", "closing"}
Holding == {"connecting", "closing", "unwinding"}
ActiveProbe == {"waiting", "dequeued"} \cup Holding
ProbeEnds == {"done", "raised", "cancelled"}

Init ==
  /\ stage = "idle"
  /\ probe = [i \in Probes |-> "none"]
  /\ permits = Capacity
  /\ results = <<>>
  /\ accepted = {}

\* analyze() begins: gather makes the tasks.
BeginProbes ==
  /\ stage = "idle"
  /\ stage' = "probing"
  /\ probe' = [i \in Probes |-> "waiting"]
  /\ UNCHANGED <<permits, results, accepted>>

Become(i, state) == probe' = [probe EXCEPT ![i] = state]

\* asyncio.Semaphore serves its waiters in the order they came.
Acquire(i) ==
  /\ probe[i] = "waiting"
  /\ permits > 0
  /\ \A j \in 1..(i - 1) : probe[j] # "waiting"
  /\ Become(i, "connecting")
  /\ permits' = permits - 1
  /\ UNCHANGED <<stage, results, accepted>>

\* The probe leaves "async with sem", having appended its result.
Answered(i, open) ==
  /\ results' = Append(results, <<Ports[i], open>>)
  /\ Become(i, "done")
  /\ permits' = permits + 1

\* open_connection succeeds within its 1.5 s; the connection is closed.
Accept(i) ==
  /\ probe[i] = "connecting"
  /\ Become(i, "closing")
  /\ accepted' = accepted \cup {Ports[i]}
  /\ UNCHANGED <<stage, permits, results>>

\* It fails with an OSError or times out.
Refuse(i) ==
  /\ probe[i] = "connecting"
  /\ Answered(i, FALSE)
  /\ UNCHANGED <<stage, accepted>>

\* wait_closed returns, or fails in a way that is suppressed.
Closed(i) ==
  /\ probe[i] = "closing"
  /\ Answered(i, TRUE)
  /\ UNCHANGED <<stage, accepted>>

\* Anything else - a name that cannot be encoded - leaves the probe.
Fail(i) ==
  /\ probe[i] = "connecting"
  /\ Become(i, "raised")
  /\ permits' = permits + 1
  /\ UNCHANGED <<stage, results, accepted>>

\* A probe cancelled before it got its permit.
LeaveQueue(i) ==
  /\ probe[i] = "dequeued"
  /\ Become(i, "cancelled")
  /\ UNCHANGED <<stage, permits, results, accepted>>

Bug_CancelKeepsPermit(i) ==
  /\ probe[i] = "unwinding"
  /\ Become(i, "cancelled")
  /\ UNCHANGED <<stage, permits, results, accepted>>

\* A probe cancelled with its permit gives it back as it leaves "async with
\* sem", cancelled or raising.
Unwound(i) ==
  /\ probe[i] = "unwinding"
  /\ Become(i, "cancelled") \/ Become(i, "raised")
  /\ permits' = permits + 1
  /\ UNCHANGED <<stage, results, accepted>>

\* Where its attempt to connect had ended by then, wait_for may hand out the
\* outcome in place of the cancellation, and the probe ends with its answer.
AnswerLate(i) ==
  /\ probe[i] = "unwinding"
  /\ Ports[i] \notin accepted
  /\ \E open \in BOOLEAN :
       /\ Answered(i, open)
       /\ accepted' = IF open THEN accepted \cup {Ports[i]} ELSE accepted
  /\ UNCHANGED stage

Bug_FirstAnswerEnds ==
  /\ stage = "probing"
  /\ \E i \in Probes : probe[i] = "done"
  /\ stage' = "reported"
  /\ UNCHANGED <<probe, permits, results, accepted>>

\* gather delivers and the report is made of the list.
ReportPorts ==
  /\ stage = "probing"
  /\ \A i \in Probes : probe[i] = "done"
  /\ stage' = "reported"
  /\ UNCHANGED <<probe, permits, results, accepted>>

\* gather raises what the first failing probe raised, the others run on.
RaiseFromProbe ==
  /\ stage \in {"probing", "cancelling"}
  /\ \E i \in Probes : probe[i] = "raised"
  /\ stage' = "raised"
  /\ UNCHANGED <<probe, permits, results, accepted>>

Bug_CancelSparesConnecting ==
  /\ stage' = IF stage = "probing" THEN "cancelling" ELSE stage
  /\ probe' = [i \in Probes |-> IF probe[i] = "waiting" THEN "dequeued" ELSE probe[i]]
  /\ UNCHANGED <<permits, results, accepted>>

\* The tasks are cancelled: by gather when analyze() is, or, left over from an
\* analyze() that ended, by asyncio.run.
CancelProbes ==
  /\ stage' = IF stage = "probing" THEN "cancelling" ELSE stage
  /\ probe' = [i \in Probes |->
                  IF probe[i] = "waiting" THEN "dequeued"
                  ELSE IF probe[i] \in Holding THEN "unwinding"
                  ELSE probe[i]]
  /\ UNCHANGED <<permits, results, accepted>>

\* gather raises CancelledError at the first probe that was cancelled, or when
\* all have ended.
Cancelled ==
  /\ stage = "cancelling"
  /\ \/ \E i \in Probes : probe[i] = "cancelled"
     \/ \A i \in Probes : probe[i] \notin ActiveProbe
  /\ stage' = "cancelled"
  /\ UNCHANGED <<probe, permits, results, accepted>>

ProbeStep(i) ==
  \/ Acquire(i) \/ Accept(i) \/ Refuse(i) \/ Closed(i) \/ Fail(i)
  \/ LeaveQueue(i) \/ Unwound(i) \/ AnswerLate(i)

GatherStep == ReportPorts \/ RaiseFromProbe \/ Cancelled

Next ==
  \/ BeginProbes
  \/ \E i \in Probes : ProbeStep(i)
  \/ GatherStep
  \/ CancelProbes

Spec == Init /\ [][Next]_scanVars

-----------------------------------------------------------------------------
(* What the port scan is to guarantee                                      *)

TypeOK ==
  /\ stage \in {"idle", "probing", "cancelling", "reported", "raised", "cancelled"}
  /\ probe \in [Probes -> {"none"} \cup ActiveProbe \cup ProbeEnds]
  /\ permits \in 0..Capacity
  /\ results \in Seq({Ports[i] : i \in Probes} \X BOOLEAN)
  /\ accepted \subseteq {Ports[i] : i \in Probes}

\* The open ports as the report gives them: sorted(p for p, ok in results if ok).
OpenPorts == {results[n][1] : n \in {m \in DOMAIN results : results[m][2]}}

\* In whatever order the probes end, a report says open of exactly the ports
\* that accepted a connection, and counts every port once.
ReportIsExact ==
  stage = "reported" =>
    /\ OpenPorts = accepted
    /\ Len(results) = Len(Ports)
    /\ \A i \in Probes : \E n \in DOMAIN results : results[n][1] = Ports[i]

\* Permits are neither lost nor made, whatever ends a probe - an answer, an
\* exception, a cancellation, an answer after the cancellation: the free and the
\* held are Capacity together, so at most Capacity connections are tried at a
\* time and a probe waits for nothing but others.
PermitsAreKept ==
  permits + Cardinality({i \in Probes : probe[i] \in Holding}) = Capacity
=============================================================================
