----------------------------- MODULE WatchLoopMC -----------------------------
(***************************************************************************)
(* Small instances of the watch daemon: one or two daemons, two targets,   *)
(* one analyzer whose grade or findings change, and a setup that runs none.*)
(***************************************************************************)
EXTENDS WatchLoop, TLC

MCTargets == <<"a.example", "b.example">>
MCOneTarget == <<"a.example">>

Found(grade, ids) == [reported |-> TRUE, grade |-> grade, findings |-> ids]
Errored == [reported |-> FALSE, grade |-> "N/A", findings |-> {}]

Clean == [dns_recon |-> Found("A", {})]
Worse == [dns_recon |-> Found("B", {"dns.dnssec.absent"})]
Failed == [dns_recon |-> Errored]

Daemon(config, max) == [config |-> config, max_iterations |-> max]

MCOneSetup == {Daemon("default", 0)}
MCOnce == {Daemon("default", 1)}
MCSetups == {Daemon("default", 1), Daemon("disabled", 1)}
MCEndings == {Daemon("default", 0), Daemon("default", 2)}
MCObservations == [default |-> {Clean, Worse}, disabled |-> {<<>>}]
MCOneObservations == [default |-> {Clean, Worse}]
MCWithErrors == [default |-> {Clean, Worse, Failed}]

\* Daemons of one table differ in nothing but their name.
DaemonSymmetry == Permutations(Daemons)
=============================================================================
