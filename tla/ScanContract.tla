---------------------------- MODULE ScanContract ----------------------------
(***************************************************************************)
(* What the callers of Orchestrator.run() count on, the `scan` command and *)
(* the watch loop alike: the calls are answered one at a time, each either *)
(* with one result for every enabled analyzer, "denied" exactly where the  *)
(* gate refuses, or with an exception; an answer given stays as it is; and *)
(* every call is answered.  Nothing is said of tasks, timers or clients.   *)
(***************************************************************************)
EXTENDS Integers, Sequences

CONSTANTS
  Configs,        \* the configurations run() is called with
  Results,        \* the results an analyzer may get
  Refused(_, _),  \* whether the gate refuses an analyzer under a configuration
  MaxScans        \* bound: how many calls are made

VARIABLES
  accepting,  \* the command is still running
  calls       \* each call so far: its configuration and what became of it

cvars == <<accepting, calls>>

Unanswered(i) == i \in 1..Len(calls) /\ calls[i].how = "gathering"

Nothing == [a \in {} |-> "absent"]

Init == accepting = TRUE /\ calls = <<>>

Begin(c) ==
  /\ accepting
  /\ Len(calls) < MaxScans
  /\ ~Unanswered(Len(calls))
  /\ calls' = Append(calls, [config |-> c, how |-> "gathering", results |-> Nothing])
  /\ UNCHANGED accepting

Answer(how, results) ==
  /\ calls' = [calls EXCEPT ![Len(calls)] =
                 [config |-> @.config, how |-> how, results |-> results]]
  /\ UNCHANGED accepting

Deliver ==
  /\ accepting
  /\ Unanswered(Len(calls))
  /\ LET c == calls[Len(calls)].config
     IN  \E results \in [c.enabled -> Results] :
           /\ \A a \in c.enabled : results[a] = "denied" <=> Refused(c, a)
           /\ Answer("returned", results)

GiveUp == Unanswered(Len(calls)) /\ Answer("aborted", Nothing)

Stop == accepting /\ accepting' = FALSE /\ UNCHANGED calls

Next == (\E c \in Configs : Begin(c)) \/ Deliver \/ GiveUp \/ Stop

\* The promises about what happens, and with the one that something does.
Safely == Init /\ [][Next]_cvars

Spec == Safely /\ WF_cvars(Deliver \/ GiveUp)
=============================================================================
