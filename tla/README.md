# A TLA+ model of wimsalabim

wimsalabim scans a host with a set of analyzers (DNS, TLS, HTTP headers, TCP
ports), grades what they report with a table of rules, and, as `wimsalabim
watch`, does so round after round and reports drift against the last snapshot.
This directory holds TLA+ models of the parts of it in which the order of
events, failures and restarts matter, TLC configurations that check them on
small instances, and proofs, checked by TLAPS, that every safety property these
configurations find to hold does so for instances of any size. Paths below are relative to
`src/wimsalabim/` in the repository.

## The system

| part | state it keeps | operations | talks to |
|---|---|---|---|
| `core/orchestrator.py` | per call of `run()`: the HTTP client, one task per enabled analyzer, the report | `run`, `_run_one` | gate, analyzers, HTTP client |
| `core/authorization.py` | the `Authorization` a gate was built with | `check`, `_hosts_match`, `authorize_self_owned`, `verify_dns_txt`, `verify_well_known` | manifest file, DNS, HTTP |
| `watch/loop.py`, `cli.py` (`watch`) | round and diff counters, the stop event | `watch_once`, `watch_loop`, signal handlers | orchestrator, baseline store, callback |
| `watch/baseline.py` | the `snapshots` table of an SQLite file | `record`, `previous`, `diff_against_previous` | the file, the wall clock |
| `analyzers/*.py` | none between calls | `analyze` | the scanned host |
| `risk/*.py` | none | `assess` over seven rules | results of the analyzers |
| `core/crypto.py`, `cli.py` (`keys`, `verify`, `--sign`) | two key files | generate, save, load, sign, verify | files |
| `core/http_client.py`, `core/privacy.py` | none | client factory, request hook, redaction | httpx |
| `core/timestamps.py` | none | `stamp`, `verify` | the `ots` program |
| `core/registry.py`, `core/schema.py`, `core/logging.py`, `display/` | a registry filled at import | registration, validation, formatting | - |

How they interact: a command builds a gate and an orchestrator and runs it on an
asyncio event loop. `run()` creates a task per enabled analyzer; each task asks
the gate, runs `analyze()` under a deadline and ends with an `AnalyzerResult`,
or raises. `watch` calls `run()` for every target of every round on one and the
same loop, assesses the results, records the report in SQLite, compares it with
the snapshot before and hands both to a callback. Several `watch` processes may
share one file.

### What is hard about it, and what must be right

* **Orchestrator.** `gather` raises at the first task that does and leaves the
  others running: analyzers of an aborted scan live on under a closed client,
  during the later scans of a daemon. A deadline races a late answer. A command
  may end, or be interrupted, with tasks in any state. Correct means: nothing is
  launched that the gate refuses; a report has exactly one result per enabled
  analyzer and never changes; every scan and every command ends.
* **Gate.** Names are compared as strings, by suffix. Correct means: the scope is
  the authorized host and what is below it, label by label, however names are
  written, and no sibling that merely ends in the same letters.
* **Watch loop and baseline store.** Record and diff are two transactions;
  either may fail; a process may be killed between them, told to stop at any
  await, restarted with other options, share its file with another; snapshots
  are ordered by the wall clock. Correct means: a diff is against the target's
  previous snapshot, drift is told once, a failure costs one target of one round,
  a stop is obeyed, a bounded run ends.
* **Analyzers and rules.** Many thresholds, and errors that look like absence.
  Correct means: a worse host is not graded better, and what changes the verdict
  shows in the diff.
* **Obtaining authorizations.** Every target's proof is looked up before anything
  is scanned; the first that fails ends the command. Correct means: no scan rests
  on another target's proof, a half-matching one, or none.
* **Port scan and headers.** Probes share a semaphore and a list; `gather` neither
  waits for what it cancelled nor stops what it abandoned; redirects may lead
  anywhere. Correct means: the report is what the probes saw, whatever their order;
  permits are kept; nothing outlives the loop; the hook sees every hop.
* **Keys and signatures.** Two files written one after the other, by processes that
  may race or crash. Correct means: a signed report verifies, and the identity does
  not change silently.
* **Exports.** Findings, rules and SARIF levels are graded by separate tables.
  Correct means: what the verdict holds against a host is in the export.

`PROJECT.json` lists each hazard at its line with the properties that watch it.

## The modules

    AuthorizationGate ─── AuthorizationGateMC ─── AuthorizationGateProofs
          │
    Orchestrator ──────── OrchestratorMC        ScanContract (implemented by
          │                                      Orchestrator)
          └────────────── OrchestratorProofs ─── ContractProofs

    Orchestrator + ProofVerification + PortScan + HttpClient
          │
    Command ───────────── CommandMC             PortScan ─── PortScanProofs
          └────────────── CommandProofs (uses OrchestratorProofs, PortScanProofs
                                         and AuthorizationGateProofs)

    KeyStore ──────────── KeyStoreMC            Identity (implemented by KeyStore)
          └────────────── KeyStoreProofs

    BaselineStore ─── WatchLoop ─── WatchLoopMC  DriftMonitor (implemented by
          │               └──────── WatchLoopProofs             WatchLoop)
          │
    AnalyzerReports ─┬─ RiskEngine ─┬─ Assessment ─┬─ AssessmentMC
                     └─ Sarif ──────┘              └─ AssessmentProofs

Definitions named `Bug_...` are mutated forms of the definition after them. They
are used by no specification; each shows a property can fail.

**AuthorizationGate** has no state. A host name is a sequence of characters, each
with its letter case, dots and `#` among them, because the code compares characters:
`HostsMatch` is `_hosts_match` with its `strip` (`StripDots`) and its `endswith`
(`EndsInDomain`), `Admits` is `AuthorizationGate.check`, `DeclaredIn` and
`SelfOwnedProof` are `authorize_self_owned`, which keeps the `#` of a commented line
in its text. What the comparison is for is stated apart from it, in labels: `Cuts`
are the ends of a name and its dots, `PlacedLabels` the pieces between one cut and
the next with their distance from the end, and `IsWithin` says that every label of
the one name is a label of the other at the same place.

**Orchestrator** is one event loop over its life. `scan`, `config`, `phase` and
`report` are the calls of `run()` made so far; `client[s]` is the client of call
`s` and `task[s][a]` its task for analyzer `a`. An action is what the loop runs
between two awaits, or a timer: `Start` is `run()` up to `gather`; `Dispatch` the
first step of `_run_one` with the gate; `Answer`, `Expire` and `Unwind` the ways
`wait_for` ends, with `Classified` for the except clauses; `SendOnClosedClient` a
request over a client the scan has closed; `Return`, `RejectReport` and `Abort`
the ends of `run()`; `CloseLoop` and `LoopClosed` what `asyncio.run` does at the
end of a command or at Ctrl-C. Time is left out: a deadline may pass at any
moment, which includes every real schedule.

**ScanContract** is the abstract view of a caller: calls are answered one at a
time, with complete results or with an exception; an answer stays; every call is
answered. `Orchestrator!ImplementsContract` is the refinement. WatchLoop relies on
no more than this contract when it lets a scan end with a report or a failure.

**BaselineStore** gives the store's operations as operators on the set of rows:
`Record` is INSERT OR REPLACE, `Previous` is LIMIT 1 OFFSET 1, `DiffOf` and
`Meaningful` are the diff. **WatchLoop** has one action per step of the daemon that
another process, a signal or a failure may come between: `BeginRound`,
`BeginTarget`, `ScanReturns`, `RecordReport`, `ComputeDiff`, `CallBack`, `EndRound`,
`Wake`; `FailTarget` is the except clause, `CallBackRaises` a callback that raises
outside it, `StopSignal` the signal handler, `Kill` and `StartDaemon` a crash and a
restart. `snapshots`, `entry`, `told` and `lost` are history, read by properties
only. The clock advances by two per scan, so that scans of two daemons may record
at one moment, and `SetClockBack` moves it back to any earlier reading, also one that
a row of the table already has. **DriftMonitor** is what all this is
for: reports come in one after the other, and drift from the one before is told, once,
or lost to a failure (`WatchLoop!ImplementsMonitor`).

**AnalyzerReports** maps what an analyzer observes to its result (grade, finding
ids, missing headers), **RiskEngine** maps results to fired rules, score and grade
(the score is written as the sum of its seven terms, in the order of the rules'
table, so that it can be reasoned about),
**Sarif** maps results to the export's results and levels.
**Assessment** puts them together: the state is a host's posture, a step one change
of it, and both states of a step are scanned, assessed, exported and compared with
the baseline's own diff. Behaviour outside the repository that an analyzer relies on
(the SSL context refusing expired certificates and old protocols) is `Handshakes`,
as the options `tls.py` sets determine it. `ports` has a report only where it was
admitted and not late; `PortsResult` passes on what is recorded in place of one
otherwise. `TimeWaiting` adds up the lookups
`dns_recon.py` makes one after the other, against the orchestrator's budget.

**ProofVerification** is what `scan` and `watch` do before they scan: `CheckOptions`,
then per target the one proof the options name (`ReadManifest`, `LookUpTxt`,
`AskWellKnown` and `GetWellKnown`, or `NoProof`), each ending in `Conclude`: the next
target, or the end of the command. The fetch of a well-known file is two steps, for
nothing in the code bounds the time between them. What the outside answers is chosen at the lookup; `witnessed` is
history.

**PortScan** is `ports.py` probe by probe: `Acquire` takes the semaphore in the order
of its waiters, `Accept`, `Refuse`, `Closed` and `Fail` are the ways through
`_is_open`, `ReportPorts`, `RaiseFromProbe` and `Cancelled` the ways `gather` ends -
each of the last two leaves probes behind. A cancelled probe is followed to its end:
from the queue of the semaphore (`LeaveQueue`), out of `async with sem` with its permit
given back (`Unwound`), or with an answer that had come by then (`AnswerLate`). **HttpClient** is the exchange of
`headers.py`: `Send` with the hook, `FollowRedirect`, and its ends.

**Command** composes the four over one event loop. What Orchestrator leaves open - how
`analyze()` ends, and when a cancelled one has unwound - is what PortScan and
HttpClient do: `PortsAnswers` is Orchestrator's `Answer` with an outcome that fits how
the probes ended, `PortsExpires` its `Expire` together with the cancelling of the
probes, and so on; an analyzer whose inner steps are not modelled takes the
orchestrator's own (`OtherAnalyzer`). `CloseLoop` cancels tasks, probes and exchange
at once, as `asyncio.run` does.

**KeyStore** is one keys directory under any number of `scan --sign`, `keys init` and
`keys show` processes. A write is two steps, truncating and filling; a file is absent,
torn or a key, named by the command that made it. `Interrupt` is a kill or an OSError
before any step. A signature is a record of key and content, so that `Verify` is the
command's comparison. **Identity** is what the commands promise together.

## What the runs check

Passing runs (sizes are distinct states):

| run | configuration | instance | shows |
|---|---|---|---|
| `gate` | AuthorizationGateMC.cfg | every pair of names of up to 4 characters, 116 281 states | comparing suffixes comes to comparing labels (`ScopeIsSubtree`), however written (`FormIsIrrelevant`), inherited down (`ScopeIsInherited`), and a manifest grants no more (`GrantStaysInManifest`) |
| `scan_contract` | OrchestratorMC.cfg | 2 scans, 2 analyzers, every outcome, 20 911 states | safety of the orchestrator; `ScanEnds`, `LoopCloses`; refinement of ScanContract |
| `watch` | WatchLoopMC.cfg | 1 daemon started twice, limited to 2 rounds or unlimited, 2 targets, 3 reports, 859 026 states | diffs and the refinement of DriftMonitor under failures, kills, restarts and stops; `NoTargetStarves`, `BoundedRunEnds`, `EndsAfterAllRounds`, `StopEnds` |
| `watch_shared` | WatchShared.cfg | 2 daemons, 2 targets, 1 set-back to any earlier time, 486 939 states | rows stay unique per key, diffs per target |
| `posture` | AssessmentMC.cfg | every posture of 5 certificate ages, 2 protocols, 2 records and a silent resolver, 4 headers, 2 ports scanned or denied, 76 800 states | grades, diffs and exports agree with the posture |
| `keys` | KeyStoreMC.cfg | 4 commands of any kind, 42 658 states | `SignedReportVerifies`, `SaveIsKept`, refinement of Identity, under crashes |
| `command` | CommandMC.cfg | 5 command lines, 2 targets, 3 analyzers, 3 ports under 2 permits, 1 redirect, 161 507 states | the parts of a command together, and `CommandEnds` |

Runs that end in a violation state what a text of the repository says and the
code does not do; `PROJECT.json` quotes the text under `findings`:

| run | what TLC finds |
|---|---|
| `raises_across_boundary` | an exception `_run_one` does not name aborts the whole scan |
| `one_config` | a diff against a snapshot of another configuration |
| `shared_drift` | two daemons on one file, drift reported by neither |
| `expired_certificate` | a host with an expired certificate may be graded A |
| `keys_race` | two overlapping first runs leave a pair whose signatures do not verify |

Text and code part in more places that have no run. Some change no step of the
program and are in no model; the others the models state as directly as a property
could:

* `core/authorization.py:12`, the format at `:112` and the repository's `README.md:392`
  say that the well-known file is signed and names its target (`sig=`, `target=`).
  The code looks for the version and the key anywhere in the body (`:125`): it checks
  no signature, and a file that names another host is a valid proof. `WellKnownProof`
  is the code's test, `ScansRestOnProofs` speaks of a declaration as the code takes it,
  and the well-known file of run `command` that is accepted names another target.
  Likewise the "signed local manifest" of `:10` is not signed (`:139` says so).
* The fetch of that file has a timeout for each read and none for the whole
  (`core/authorization.py:115`), with no deadline around it: a command may stay in it
  for ever, which `CommandEnds` has to allow.
* `analyzers/base.py:32` says of the shared client "Outlives the analyzer, do not
  close", but `gather` leaves analyzers running when one raises, and the client is
  closed under them (`SendOnClosedClient`; `ClientServesItsScan` says to whom this
  can happen).
* README:1050 says the tool "won't speak to known surveillance endpoints"; only the
  shared client has the hook, so `tls`, `ports`, `dns_recon` and the well-known proof
  do. The entry `facebook.com/tr` of the blacklist (`core/privacy.py:22`) is no host
  name and matches none.
* `headers.py:3` says "exactly one request" and follows redirects.
* `load_keypair` says to run `keys init`, which refuses when a crash left
  `signing.key` without `signing.pub` (`Makes`).
* The example for users of the store (repository `README.md:510-514`) compares first
  and records then, but `previous` skips the newest row (`watch/baseline.py:88`): used
  like that it compares with the snapshot before the last. The daemon records first.
* An analyzer without findings that stops reporting shows in no diff
  (`watch/baseline.py:119`).
* `--offline` (repository `README.md:751`) is handed to every analyzer and read by none.
* `rounds_with_diff` (`watch/loop.py:61`) counts targets with a diff, not rounds.
* After the clock was set back, `previous` returns the snapshot just written or an
  older one: `DiffIsAgainstPrevious` is checked with a steady clock only, and
  `DiffIsOfSameTarget` is what remains without it.
* A server that speaks old protocols only is a network error and never the finding
  `tls.py` has for it (`Handshakes`).
* A DNS lookup that fails is reported as an absent record (`Found`).

### Bounds

* *Two scans* let a straggler of the first meet the second; a third meets nothing
  new, because only the last scan is ever gathered (proved: `ScansInOrder` of the
  inductive invariant). The two analyzers are the one that uses the client and the
  one the gate may refuse: one raises while the other still runs, or is refused; the
  proofs cover any number. The outcomes are all the code tells apart.
* *Four characters*, each a letter small or capital, a dot or `#`, make a host below
  another (`a.a`), a sibling that ends in the same letters (`aa`), one two labels down
  with empty labels between, and names with dots at either end or nothing else; the
  proofs cover names of any length over any characters.
* *`MaxReturned`* bounds the successful scans, not the failing ones: three give a
  target a first snapshot, a previous and a current one, with the other target in
  between. `RoundCap` saturates the round counter of an unlimited daemon; the limit
  of a limited one is its setup's `max_iterations`, within the cap. Two starts give
  one restart.
* *Command lines*: one for each kind of proof, one that names two, one that names
  none, one for an unknown analyzer. They enable `ports` with `dns_recon`, `headers`
  with `dns_recon`, `ports` alone and `ports` with `headers` without a proof (which
  the gate refuses); not all three admitted at once, whose steps would only multiply:
  the two analyzers share nothing but the loop. Three ports under two permits make
  one probe wait for another's permit and be overtaken; the proofs about the port
  scan cover any number. One redirect (of httpx's twenty) is the least at which the
  hook must see a second request. The targets are a host and its parent, typed in
  capitals and with a dot.
* *Four commands* on a keys directory: a maker that is killed, one that repairs what
  it left, and two that load; the proofs cover any number. `FirstRunAlone` is the
  assumption that a command that still has to make the pair is not overlapped by
  another; `keys_race` drops it.
* *Silence*: 5 s and 30 s are the code's own numbers; all nine lookups are in the
  model, two of them vary by themselves.
* *Days* -1, 0, 6, 7, 30 are both sides of each threshold of `tls.py`; the headers
  are the three a rule names, both heavy ones included, and a leaky one. Of what may
  be recorded in place of a report on the ports, `denied` stands for `timeout` too:
  nothing that reads a result tells them apart.

### Fairness

* Orchestrator: weak fairness of `Dispatch`, `Expire`, `Unwind`, of the end of a scan
  and of `LoopClosed`: the event loop runs what is ready, timers fire, cancelled
  coroutines unwind. None for `Answer` (an analyzer may never answer), none for
  `Start` or `CloseLoop`.
* WatchLoop: weak fairness of a live daemon's step as a whole. That a scan ends is
  what ScanContract promises; which way it ends is left open, so `NoTargetStarves`,
  `StopEnds` and `BoundedRunEnds` hold even when every scan fails. Nothing forces a
  stop signal.

* Command: weak fairness of reading the manifest, of TXT lookups (a lifetime of 5 s)
  and of the probes (1.5 s), of dispatching, expiring and unwinding tasks, of the end of
  the scan, and of `CloseLoop` once `main()` has nothing left to do. None for the
  exchange of `headers` and none for an answer: `CommandEnds` rests on the deadline.
  None for the fetch of a well-known file either: `timeout=10.0` bounds each connect,
  read and write only. `CommandEnds` therefore says that a command ends or is held by
  that fetch for good.

## What is proved

`OrchestratorProofs` proves, for any sets of analyzers, configurations and outcomes
and any number of scans, from `OrchestratorAssumption` alone (legal classes are legal
classes, configurations enable registered analyzers - `_resolve_enabled` checks
it -, outcomes are the five the code tells apart):

| theorem | states |
|---|---|
| `InductiveInvariant` | `Spec => []IInv` |
| `TypeCorrect` | `Spec => []TypeOK` |
| `GateIsObeyed` | `Spec => []LaunchedOnlyIfAdmitted` |
| `ReportsAreComplete` | `Spec => []ReportIsComplete` |
| `OnlyAbortedLeaveStragglers` | `Spec => []StragglersAreAborted` |
| `ClientServes` | `Spec => []ClientServesItsScan` |
| `ReportsAreFinal` | `Spec => ReportIsFinal` |

None of these is inductive by itself. `IInv` adds: scans are begun in order and only
the last is gathered (`ScansInOrder`, or a new scan could overwrite an old one);
a scan has tasks for its enabled analyzers only (`TasksAreEnabled`, for the domain of
a report); a *cancelled* task that may still answer was admitted too (`GateObeyed`);
a returned scan has only concluded tasks and its report is theirs (`ReturnedIsDone`,
or a straggler might still change them); the client is closed exactly when the scan
is over (`ClientFollowsPhase`), so that a task that finds it closed belongs to an
aborted scan. The five steps of a task are reduced to one effect (`TaskStepEffect`)
that preserves `IInv`; starting, ending and closing have a lemma each. TLC confirmed
`IInv` on the instances above before it was proved.

`ContractProofs` proves `ContractIsKept`, `Spec => Contract!Safely`: every step of
the orchestrator is a step of ScanContract or shows nothing to a caller. Its
invariant adds that only a returned scan has a report (`OnlyReturnedReport`, or an
exception could come with one). `StartMaps`, `ReturnMaps` and `AbortMaps` map the
three steps a caller sees, by way of the calls as a sequence (`CallsAreSequence`)
and the one record that a step changes (`EndShows`); `TaskStepIsHidden` and
`HiddenStepMaps` cover what tasks, timers and stragglers do. That the delivered
results are complete is `ReportIsComplete` of the state after the step.

`AuthorizationGateProofs` proves the four invariants of run `gate` for names of any
length over any characters: `ScopeIsTheSubtree`, `FormNeverMatters`,
`AuthorityIsInherited`, `GrantsStayInside`, and beside them that the relation "admits"
is transitive (`ScopeIsTransitive`) and that a manifest grants exactly the subtrees of
its uncommented lines (`ManifestGrantsItsSubtrees`). The heart is
`ScopeByLabels`, which `ScopeIsOfLabels` carries over to the gate: a name is another or
ends in a dot and the other exactly when every label of the other is a label of its own
at the same distance from the end. One way, the dot is a cut, and behind it the two
names have the same cuts; the other way, the labels fix the characters from the end on,
and the outermost of them begins at a cut, which is a dot or the beginning of the name.
Without the dot of `authorization.py:78` it fails. Stripping
the dots cuts out the piece between the first and the last other character; the proof
shows that the piece does not depend on what surrounds it. The first and the last
position of a set are had from the well-foundedness of `<`.

`KeyStoreProofs` proves, for any number of commands of any kinds killed at any step,
`TypeCorrect` without further assumption, and under `FirstRunAlone`: `IdentityInvariant`, `SignaturesVerify`
(`SignedReportVerifies`), `SavesAreKept` (`SaveIsKept`) and `IdentityIsKept`
(`ImplementsIdentity`). The invariant adds: until the pair is there one command at most
is at work (`OneAtWork`), a command that writes has written its own and finds no public
key (`WritersOwnFiles`), a public key is its private key's and its maker's
(`PublicIsOfPrivate`), and a reader holds what the files hold (`ReadersAgree`).

`PortScanProofs` proves, for any ports and any capacity of the semaphore, that permits
are kept (`PermitsKept`) and that a report is exact (`ReportExact`), from an invariant
that ties the list to the probes that are done and the permits to those that hold one -
the cancelled ones that have yet to unwind included.

`CommandProofs` lifts `PermitsKept` to the command: every step of a command is a step
of the port scan or leaves it alone (`StepsOfPortScan`), so that what PortScanProofs
proves holds whatever deadlines, other analyzers and the closing loop do: a probe they
cancel gives back its permit, and the balance holds at every step of it. Its second
theorem, `ScansFollowProofs` (`ScansRestOnProofs`), holds for any targets, options and
answers; its invariant says that every target passed so far was witnessed
(`ProofsSoFar`) and that a scan runs under the authorization obtained for its target,
with nothing of that changing any more (`ScanHasItsConfig`).

The other four theorems of `CommandProofs` are about the composition as a whole:

| theorem | states |
|---|---|
| `TypeCorrect` | `Spec => []TypeOK`, of all four parts |
| `PortsReportsAreExact` | `[]PortsReportIsExact` |
| `NothingLeftBehind` | `[]NothingIsLeftBehind` |
| `TelemetryIsNeverSpokenTo` | `[]NeverSpeaksToTelemetry`, for any blacklist, names and redirects |

They rest on `CommandInvariant`. Its conjuncts are the invariants of
OrchestratorProofs and PortScanProofs, reused through INSTANCE - a step of a command
is a step of the orchestrator or leaves it alone (`OrchestratorRuns`,
`StepsOfOrchestrator`), which needs that a gate's configuration obtained from a proof
is one of the orchestrator's (`OrchestratorAssumed`) -, and what ties the parts to
each other: where the probes are by what became of the task of `ports`
(`PortsTogether`), where the exchange is by the task of `headers` (`HeadersTogether`),
and that nothing is at work on a closed loop (`ClosedIsStill`). None of the three is
inductive without the orchestrator's own invariant: that a task which is not running
cannot be answered is the orchestrator's to know. That the client never speaks to a
blacklisted host is a fact about names: the hook strips dots at one end only, and is
shown to miss no name below an entry, by the lemmas of the gate (`HookMissesNone`).
The proofs rest on `CommandAssumption`: a command line names a target, `ports` and
`headers` are registered, `ports` is active, legal classes are legal classes, hosts are
sequences of characters, entries of the blacklist are not empty, and the limit of
redirects is a number.

`AssessmentProofs` proves every property of run `posture` for certificates of any age
and any protocols, headers, ports and records, from `AssessmentAssumption` alone (days
are whole numbers and there is a most of them; a scan of ports without a report was
denied or late):

| theorem | states |
|---|---|
| `TypeCorrect` | `[]TypeOK` |
| `ExpiringIsGradedDown` | `[]ExpiringIsDOrWorse` |
| `SilenceIsNoAbsence` | `[]SilenceIsNotAbsence` |
| `SarifShowsTheVerdict` | `[]VerdictShowsInSarif` |
| `VerdictChangesAreDrift` | `VerdictChangeIsDrift` |
| `RiskyPortsAreDrift` | `RiskyPortIsDrift` |
| `WorseIsNoBetter` | `WorseIsNeverBetter` |

The invariant `AInv` is only that results and verdict are those of the posture. What
carries the proofs is `RulesReadFindings`: every rule, whatever it is written to look
at - a grade, a list in the metadata, a finding -, fires exactly when certain findings
(`Grounds`) are in the report. The diff and the SARIF export are both made of
findings, so neither can miss a rule. What the findings say of the posture is one
lemma per analyzer (`TlsGrounds`, `DnsGrounds`, `HeadersGrounds`, `PortsGrounds`); that
more rules give no fewer points and no better a grade is `ScoreGrows` and
`GradeFalls`.

`WatchLoopProofs` proves, from `WatchAssumption` (there is a target; setups name a
configuration and a round limit within the bound), for any number of daemons on one
table and any settings of the clock:

| theorem | states |
|---|---|
| `TypeCorrect` | `Spec => []TypeOK` |
| `EndsOnlyAfterItsRounds` | `Spec => []EndsAfterAllRounds` |
| `DiffsStayWithinATarget` | `Spec => []DiffIsOfSameTarget` |
| `DiffsFollowHistory` | `[]DiffIsAgainstPrevious`, for one daemon and a clock never set back |
| `DriftIsToldOnce` | `[]DriftIsTold`, under the same two assumptions |
| `MonitorIsImplemented` | `Spec => ImplementsMonitor`, under the same two assumptions |

`IInv` adds what holds at each place of the loop (`PlaceAt`: a target is at hand, a
diff is counted once per report), that a daemon at work has rounds left (`RoundsAt`),
and that a row holds a recorded snapshot under its own target (`TableOK`). A step of
one daemon leaves the places of the others alone (`OthersStay`, `Goes`). For the last
two theorems `AloneInv` adds that there are increasing times under which the table is
exactly the history of snapshots (`TableIsHistory`): then the newest row but one is
the snapshot before (`StoreFollowsHistory`, `NewestIs`). The refinement of DriftMonitor
follows (`StepsOfMonitor`): a commit is a report that comes in, a callback tells of it,
a failure or a kill loses it, and everything else is hidden; it adds only that the
report about to be recorded is one of its target's (`ReportAtHand`). Two daemons on one table
break that, as run `shared_drift` shows, and so would a clock that is set back, since
the table is read in the order of times. The greatest of a bounded set of numbers is had from the
library's well-foundedness of `<` (`LeastNatural`), not by an induction.

Only model-checked: everything that holds by fairness (`ScanEnds`, `LoopCloses`,
`NoTargetStarves`, `StopEnds`, `BoundedRunEnds`, `CommandEnds`, and the liveness half of the refinement of
ScanContract), which is out of the prover's reach. Every invariant, every action
property and every refinement a passing run checks is a theorem, of ScanContract the
safety half. `DriftIsTold` is proved and has no run of its own: a
DriftMonitor cannot break it.

## Not modelled, and why

* Contents of messages, titles, remediations, metadata no rule reads, rendering
  (but for SARIF levels) and logging: no property depends on them.
* Time, but for the sum of the DNS lookups: deadlines, intervals and lookups may take
  any time. The `timeout_seconds` and `rate_limit_per_second` of an analyzer are read
  by no code.
* OpenTimestamps: a wrapper around an external program that no command calls.
* `redact_whois`, `show_pii` and `offline`: read by no code of the package.
* The registry: a dictionary filled at import; `get_analyzer` is not called.
* The steps inside a TLS handshake: one await under its own timeout, whose outcomes
  `Handshakes` gives.
* Canonical JSON byte by byte: two reports are the same bytes exactly when their
  signed fields agree.

## Plan

Done: the gate, the orchestrator with its contract, the proofs of authorization, the
port scan, the HTTP client and their composition, the key store and signed reports, the
baseline store and watch loop with its monitor, the assessment and its export; and the
proofs of their safety properties. Still to do:

1. What remains of DriftMonitor's promise for several daemons on one table, and what of
   Identity's without `FirstRunAlone`, stated and proved.
2. That WatchLoop's view of a scan is ScanContract, as a composition and not only by
   its assumptions.
