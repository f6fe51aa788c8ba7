# A formal model of Taskrail

TLA+ specifications of Taskrail's control plane, checked with TLC on small
instances and, where a theorem is stated, proved with TLAPS for all values of
the constants. Paths are relative to `src/crates/taskrail/src/` unless they start
with `docs/`.

## 1. The system

Taskrail keeps automations in a SQLite *Registry* and runs them. One process, the
*daemon*, runs scheduler passes, rescans native schedulers (cron, launchd,
systemd), and serves JSON-RPC and a dashboard. *CLI processes* open the same
Registry file and do the same things in their own process. Each Registry call is
one SQLite transaction; nothing spans two calls.

| Component | State | Operations | What makes it correct |
|---|---|---|---|
| Run supervision (`service.rs`, `storage.rs`) | `runs` rows, events, the loop over steps and attempts | admit, attempt, retry, settle, recover | no overlap where it is forbidden; a run settles once, with the status it earned; nothing stays `running` for ever |
| Cancellation (`service.rs`) | `ACTIVE_RUNS`: one watch channel per run, per process | `run.cancel`, `taskrail cancel` | finds the active run; no process starts afterwards; the run is recorded as cancelled |
| Executors (`executor.rs`, `responses.rs`) | a child or a request | start, wait, time out, kill | one outcome per attempt, whichever event comes first |
| Schedule arithmetic (`scheduler.rs`) | none | `next_run`, `due_runs`, `may_start` | replays the missed occurrences and nothing else |
| Scheduler pass (`service.rs`) | snapshot of the rows, clock of the pass | evaluate, run, advance `next_run_at` | no occurrence lost or repeated; operators' changes survive |
| Automations (`storage.rs`, `core.rs`) | owner, runtime state, `next_run_at`, revision | create, pause, resume, acknowledge, delete | transitions only between permitted states |
| Adoption (`adoption.rs`) | journal, native scheduler, row | adopt, roll back | exactly one scheduler owns a job, also after a failure or a crash |
| Discovery (`discovery.rs`, `service.rs`) | sources, fingerprints | scan, reconcile, mark missing | drift stops a job and nothing resumes it implicitly |
| Approvals (`storage.rs`, `rpc.rs`) | request, decision, expiry, consumption | request, decide, consume | one grant, one execution of one plan |
| Integrations (`integrations/`) | plan, policy decision, parsed result | plan, preflight, run, parse, verify | no risky plan runs without its approval |
| RPC, CLI, dashboard, TUI, MCP, fleet | connections | translate requests into the calls above | gates that a client cannot skip |
| GitHub and Codex watchers, worktrees | a stored snapshot; directories | poll, create, remove | changes are reported once |

The hard behaviours are the following.

- **Two processes, one Registry.** Reads and writes of a row are separate calls.
  A scheduler pass holds its copy of every row while it waits for runs.
- **Recovery.** A starting daemon settles all `running` rows, whoever supervises
  the runs.
- **Cancellation against everything else.** It may arrive before the row exists,
  between attempts, during a backoff, together with an exit or a timeout.
- **Crashes between two calls**: after a run and before `next_run_at` is saved,
  between an UPDATE and its event, between the steps of an adoption.
- **Fallible steps**: any `?` leaves the function where it is.

`PROJECT.json` lists every component with what is modelled of it, and every
hazard at the line where it bites.

## 2. Modules

| Module | Models |
|---|---|
| `RunLedger` | the abstract run history: a run is started once, under the overlap policy, and settled once |
| `RunLifecycle` | supervision of runs by daemons and CLI processes, cancellation, crashes, recovery; refines `RunLedger` when one daemon supervises everything |
| `MCRunLifecycle` | constants for TLC |
| `RunLifecycle_proofs` | the theorems about `RunLifecycle` |
| `Scheduler` | the pure functions of `scheduler.rs` |
| `Scheduler_proofs` | what they return, for every trigger, clock and `max_runs` |
| `SchedulerPass` | `scheduled_pass`, concurrent operators, manual runs, crashes |
| `MCSchedulerPass` | constants for TLC |
| `SchedulerPass_proofs` | the theorems about `SchedulerPass` |
| `Adoption` | adoption and rollback of native sources, step by step, with failures and crashes |
| `MCAdoption` | symmetry for TLC |
| `Adoption_proofs` | the theorems about `Adoption` |
| `Reconcile` | native scans and their writes, call by call, beside edits, outages, adoptions and acknowledgements |
| `MCReconcile` | constants for TLC |
| `Reconcile_proofs` | the theorems about `Reconcile` |
| `NativeSources` | what `discovery.rs` makes of native entries, what becomes an automation, which scans are complete |
| `Grant` | what the approval store promises |
| `Approvals` | approvals, their answers, expiry and consumption, and the executions under them; refines `Grant` |
| `Approvals_proofs` | the theorems about `Approvals` |
| `Adapters` | the twelve integrations: capabilities, risk, plan, parsed result, verification |
| `Gateway` | the gates of the service, RPC, MCP adapter, command line, fleet and dashboard |
| `MCFunctions` | the functions of `Scheduler`, `Adapters`, `Gateway` and `NativeSources` over every bounded input, compared with definitions that do not know of each other |
| `MCFunctions_proofs` | the theorems of `MCFunctions` about schedules, native entries and scans |
| `Gateway_proofs` | its theorems about requests, runs and gates |

### RunLifecycle

State. `row` is the column `runs.status`; `automationOf` the column `automation_id`;
`ended` the set of `run.<status>` events. `pc`, `step`, `attempt` and `result` are where
`execute_automation_at` is for a run, in the process `supervisor`. `cancelled` is the
set of runs whose watch channel holds true. A run is in a process's `ACTIVE_RUNS`
exactly while its `pc` is one of `Supervised` (`ActiveRunGuard`). `phase`, `toRecover` and
`unreported` belong to a daemon's start: `RecoverRow` is the UPDATE of a selected row,
`ReportInterrupted` the event that follows it in a call of its own. A request to cancel
comes over RPC to the process that supervises the run (`CancelOverRpc`), or from the command
line (`CancelByCommand`), whose process has no active runs, at any time: such a request finds
nothing and changes nothing. `cancelledAt` and `killed` are history variables that only
properties read.

| Program point | Code | Actions |
|---|---|---|
| `registered` | id and channel exist, no row | `Admit`, `Reject` (the transaction of `try_record_run_start`) |
| `admitted` | `run.started` | `Begin` |
| `starting` | `executor.<kind>.started` | `RecordAttempt` |
| `checking` | before the executor reads the channel | `Launch`, `RefuseLaunch`, `CannotLaunch`, `PlanOnly` |
| `executing` | child or request in flight | `Collect` (exit, timeout), `Kill` (cancelled branch of the `select!`) |
| `judging` | result known | `NextStep`, `Retry`, `Conclude` |
| `retrying`, `waiting` | `wait_for_retry` | `BeginWait`, `StopRetrying`, `TryAgain` |
| `ending` | before `record_run_end` | `RecordEnd` |
| `closing` | before the final event | `Close` |

What an attempt ends as is computed by `CommandStatus`, `ResponsesStatus` and
`IntegrationStatuses` from how the child ended and whether the channel is set: a
timeout wins over a cancellation, a cancellation over the exit status; the answer
of a Responses request wins over a cancellation; an integration's parser and
verifier turn every unsuccessful process into a failure. `Abandon` is a Registry call
that fails: `?` leaves the function, the guard removes the run, the row stays.
A child does not outlive its process (`kill_on_drop`; the service manager ends the
process group); a child orphaned by `kill -9` is not modelled.

### Scheduler and SchedulerPass

Instants are numbers of seconds from 0 to `LastInstant`, the end of the date range.
A cron expression in its timezone is the set of instants at which it fires, so
parsing and daylight-saving rules are outside the model; a set that is exhausted
gives `Never`, an expression that does not parse is `Malformed`.

`SchedulerPass` keeps the part of a row that the pass and its rivals write: owner,
runtime state, next run. A pass takes `now` and `snapshot`, visits the automations in
order of name (`todo`), and for each one leaves it alone (`PassOver`), gives it up as
too old (`Expire`), skips (`SkipMisfire`), fails (`FailPass`) or runs its occurrences one
after the other (`BeginRuns`, `StartRun`, `EndRun`) before it writes *its copy* of the row
back with a new next run (`FinishVisit`). An operator is any process that reads a row
(`ReadRow`) and writes it back (`WriteRow`): pause and resume, drift or disappearance
found by a scan, acknowledgement, rollback of an adoption, deletion (`DeleteRow`, with
the foreign key of the run history). A run is reduced to its admission and its end;
`RunLifecycle` has the rest. Each visit's reads of the clock, the counts and the row are
one step, since nothing is awaited between them and the write of a visit without runs.

### Adoption

`native` is what cron and launchd run, `row` an automation's owner and runtime state,
`journal` the table `adoption_journal` with the snapshot of each transaction, and `at`
and `job` the position and the local variables of a call in one of the `Operators`.
Each action is one Registry call or one command of the native scheduler:

| Code | Actions |
|---|---|
| `adopt_source`, up to the journal | `ChooseSource`, `TakeSnapshot`, `Decline` (refusal, dry run), `BeginAdoption` |
| `adopt` | `Stage` (row adopted and paused), `Disable`, `NoteDisabled`, `Verify`, `FailVerification`, `Enable`, `NoteEnabled`, `Prove`, `Commit` |
| `rollback_source` | `ChooseTx`: any transaction, in any state |
| `rollback_after_failure`, `rollback_adoption` | `RollBack`, `Restore`, `Revert`, `Close` |
| a Registry call that fails (`?`), a process that dies | `Abandon` |
| a complete native scan | `Rescan` |

The sources in `Crontab` share one table, which a snapshot holds as a whole and which
`disable` and `restore` replace as a whole; those in `Units` are systemd services, which
must be enabled to be adopted; the others are launchd agents, of which a
snapshot says whether they were loaded. A unit that is enabled or active counts as
run by systemd. A command may fail before or after its
effect, and `disable` may report a success without effect, which `verify_disabled`
exists to find out; a successful restore has its effect, since nothing verifies it.
Sources have distinct contents, so a fingerprint is a source. A scan handles one
source in one step (`Rescan`; `Reconcile` splits it), and operators are `Patient`:
they do not work on one source at the same time, which nothing in the code enforces.

### Reconcile

The sources of one provider. `native` is the content of each entry, `off` the entries an
adoption disabled, `answers` how the provider answers: all of it, a list of which single
entries may lack their properties (`systemctl show` fails), or nothing. `known` is the
table `sources`, `row` the automation with its definition (`runs`) and its expected
fingerprint (`expects`). `truth` is a history variable: what was there when a scanner
looked, what of it the scan could not see, and whether the provider was away then and back
when the scan asked for it.

| Code | Actions |
|---|---|
| `scan_native_snapshot` | `Look` (the scan; by command it is a move of a person), `Judge` (which providers were complete, asked afterwards; only in the daemon's pass) |
| `upsert_source`, `reconcile_discovered_source` | `Store`, `Read`, `Write` |
| `mark_missing_sources` | `Sweep`, `ReadMissing`, `MarkMissing`, `EndPass` |
| a call that fails, a scanner that dies | `Fail` |
| pause, resume, `acknowledge-drift`, adopt, roll back | `Call` (reads, and refuses or goes on), then `Save`; for an adoption `TakeSnapshot`, `Stage`, `Disable` before it, for a rollback `Restore` |
| persons | `Edit` (an entry appears, changes, vanishes), `Toggle` (the provider goes away, fails for single entries, comes back) |

A definition in `Opaque` invokes a shell or has no command, so that it is not promoted;
`Listed` is a unit of which only its line in the list is known: it has a fingerprint of its
own and no command (`discovery.rs:1561`). `WhenOff` says what a scan shows of an entry that
adoption disabled: nothing of a crontab entry, which became a comment, the same of a launchd
agent, whose plist stays, something else of a systemd unit, whose `UnitFileState` and
`ActiveState` are in its fingerprint (`discovery.rs:1620`).

Processes overlap at every call unless `Patient` is set: then no scan and operator, and no
two scanners, have their hands on one source at the same time. `Faults` are the points at
which a scanner may fail or die. Both are open (`FALSE`, `Anywhere`) in `Reconcile_scans`.
They are restricted in `Reconcile_crontab`, whose counterexample should have no other cause
than the one it is about, and are hypotheses of the theorem `AdoptionsRunTheEntry`.

### Approvals

`approval` is the table, `trail` the events about approvals, `row`, `running` and `stranded`
what the Registry has of the automation `integration.<integration>.<action>` that all
executions of one action share. Each executor is a CLI process or an RPC handler in
`execute_integration`; what it was given is in `job`, and its point in `at`:

| Point | Code | Actions |
|---|---|---|
| `idle` | `approval.execute`, or a request with an `approval_id` | `PresentApproved`, `PresentRequest` |
| `consume`, `note` | the UPDATE of `consume_approval`; its event | `Consume`, `NoteConsumed` |
| `look`, `save` | `get_automation`, `save_automation` | `Look`, `Save` |
| `admit` | `try_record_run_start` | `Admit` |
| `spawn`, `run` | the process; `persist_integration_run` | `Spawn`, `Settle` |

Persons `Request` and `Decide`; the event of an answer is a call of its own (`AppendOwed`),
which may not come (`ForgetOwed`). `Abandon` is a call that fails or a process that dies,
`Recover` the start of a daemon. An execution with other parameters than the common row
has is filed under a new id, which no overlap policy sees (`shared`).
`spender`, `starts` and `lost` are history variables.

### Adapters, Gateway, NativeSources

Modules of operators without state. A request is a tool, an action, the parameters it
gives and those of them that are sound (a `dry_run` that is true, a path that exists);
output is a kind: empty, JSON of the right or of another shape, text, with or without
errors or findings. `Adapters` says of each integration which requests can be planned,
with what risk, and what its parser and verifier make of each kind of output. `Gateway`
has the lists by which each way into Taskrail lets requests through: policy and approval
parameters, what the RPC methods change, the hints and profiles of the MCP tools, the
HTTP gate, the commands of the CLI, the fleet's list of mutating calls, the routes of the
dashboard; and the status, events and inbox items of a run. `NativeSources` turns an
entry, a list of words from a small alphabet, into a command as each provider's parser
does, and a host, with what is absent, down or failing on it, into a scan and the
providers that are complete.

## 3. What TLC checks

Passing runs.

| Run | Question | Bounds |
|---|---|---|
| `RunLifecycle_daemon` | one daemon: safety, and refinement of `RunLedger` | 2 runs, 2 automations (one exclusive; one of commands, one of Responses requests), 2 steps, 2 attempts, a crash, failing Registry calls |
| `RunLifecycle_shared` | what survives a CLI supervisor beside the daemon; every run of the daemon settles | 2 runs of one exclusive automation of integrations, 2 attempts, a crash |
| `Functions_inputs` | `catch_up` replays what was missed, in one pass or in two, and fails for what cannot be scheduled; adapters, gates, parsing of native entries, completeness of scans | every trigger, policy, scheduled instant and clock up to 5, dates up to 6; every request of every adapter with every choice of its parameters and one unknown; every kind of output; every call of every tool; commands of up to 3 words; every host |
| `SchedulerPass_alone` | each occurrence once, none lost; every schedule is kept going | an interval and an exclusive cron automation, clock up to 7, runs by hand of the first |
| `SchedulerPass_operators` | stale writes lose no occurrence | all operator intents, a crash, runs by hand, clock up to 4, dates up to 5 |
| `Adoption_handover` | no job has two owners, none is lost unnoticed, a commit and a completed rollback mean what they say | a crontab entry, an agent and a unit, 2 operators, 3 transactions, every failure and crash |
| `Reconcile_scans` | every alarm has a reason that the model names; only the write of a stale copy takes an automation from its owner; every change of an entry shows in the end | a systemd unit, 3 definitions (one opaque), the daemon, scans by command, 1 operator, all overlapping; 3 moves of persons, operators and failures |
| `Approvals_grants` | a grant is used once, for its plan, in time; refinement of `Grant` | 2 approvals, 2 plans, 2 executors, a clock of 2 instants, every failure and crash |

Two runs are enough for every property about overlap, which relates two; two attempts
and two steps are the least for a retry, its end, and a step that is not the last. One
crash strands what it can strand; a second one meets the states of the first. A clock of
4 to 7 lets a backlog exceed `max_runs` = 2, so that it is split over passes.
`SchedulerPass_operators` ends its date range one instant after its clock so that the
errors of `next_run` happen (`FailPass`, the failing write of `SaveAndLeave`). Two
transactions let a source be adopted, rolled back and adopted again, and the old
transaction be rolled back once more; with three, an agent is adopted while it is
unloaded, loaded again by the rollback of an earlier transaction, adopted once more, and
then rolled back to the snapshot that lacks it (`ReturnedUnloaded`, below). In
`Reconcile` the sources do not influence each other, so one is enough. An entry may be there
from the beginning: three moves are an adoption, an outage and its end, or an adoption, an
edit and an acknowledgement, or an adoption beside a scan by command and a failure; the passes
of the daemon are no moves, as many as there are. In `Approvals` two
executors race for one approval and meet with different ones at the common row; an
approval lives for one instant of two, so that it expires at every point of its life.

The functions are compared with lists and definitions that do not know of each other.
`StatusIsHonest` compares the parser, the verifier and the status of a run with what
the tool reported, and follows it to the inbox. `HeldIsApprovable` compares what an
adapter accepts with what an approval may store, with what RPC and CLI can ask for, and
the capabilities that are announced with the risks of the plans. `GatesAgree` compares
what a call can do with the hints, the public profile and the fleet's refusals.
`PromotedRunsTheSame` compares the command of an automation with what the native scheduler
runs (of crontab lines without syntax of the shell, services without arguments and agents
with one schedule), and
`CompleteMeansAll` the entries of a scan with all that a healthy host would show.

Two properties of `Reconcile` say what the code keeps of promises that it breaks.
`OnlyStaleCopiesDisown`: a scanner changes of an owned row more than its mark only when
somebody wrote the row since it read it. `AlarmsAreExplained`: a scanner marks an automation
whose entry was as expected only because the entry was altered or hidden by its own adoption, was
listed without its properties, or belongs to a provider that was away when it was scanned and
back when it was asked for. `NoFalseAlarm` is the promise without these exceptions; the run
that ends in its violation is about the first of them, the gravest.

Runs that end in a violation, each a statement of a document or an acceptance
criterion that the code does not meet:

| Run | Statement | What happens |
|---|---|---|
| `RunLifecycle_overlap` | ADR 0016: no entry point bypasses the overlap policy | a daemon (also `--once`) that starts while `taskrail run` is busy marks the row interrupted; the next admission overlaps |
| `SchedulerPass_pause` | ADR 0017, acceptance: no new run after a pause | the pass writes back the row it read before its runs |
| `Adoption_crontab` | ADR 0001: the native source is disabled and exactly one internal owner is active | two entries of one crontab are adopted, the first is rolled back: the table of its snapshot brings back both |
| `Reconcile_crontab` | README: *confirmed* missing sources are marked; ADR 0001 | an adopted crontab entry is a comment, which the next complete scan takes for missing: the automation is marked and no longer runs, and only a rollback helps |

More is in the models that no run is about. Of these things a document says otherwise:

- `taskrail cancel` looks in the `ACTIVE_RUNS` of its own process, which supervises nothing,
  and never finds a run of the daemon (`CancelByCommand`, `main.rs:2420`);
  `docs/adr/0022-run-cancellation.md:5` says that it signals the run's channel, as `run.cancel`
  does.
- A step that runs an integration is recorded as `failed` when its process was stopped for a
  cancellation (`IntegrationStatuses`, `service.rs:975`), a status that may be retried;
  `docs/adr/0022-run-cancellation.md:6` says `cancelled`. `CancelIsRecorded` is therefore
  checked for commands and Responses requests.
- A systemd service loses the arguments of its command, so that one which runs `sh -c` is
  promoted as a bare shell (`SystemdCommand`, `discovery.rs:1642`);
  `docs/adr/0014-source-reconciliation-and-drift.md:18` and `docs/adr/0001-v01-boundaries.md:10`
  say that shell invocations are not promoted. `PromotedRunsTheSame` excepts services with
  arguments.
- An adoption between the read and the write of a reconciliation is overwritten: the row is
  observed again, while the native entry is disabled (`Write`, `storage.rs:392`).
  `docs/adr/0014-source-reconciliation-and-drift.md:14` says that an adopted source keeps its
  ownership. `OnlyStaleCopiesDisown` excepts a row that was written meanwhile, and shows that
  nothing else does this.
- An adopted source whose new definition cannot be run is retained before fingerprints are
  compared: no mark, and the old command runs on (`Retained`, `storage.rs:387`); line 16 of the
  same ADR says that a changed fingerprint marks it. `ChangeIsNoticed` excepts it.
- Disabling a systemd unit changes its fingerprint (`WhenOff`, `discovery.rs:1620`), so that the
  next scan takes its adoption for a drift, marks the automation, and the scheduler stops
  running it until a person acknowledges it; that line keeps the mark for what changed.
- A provider that was away when it was scanned and is back when the scan asks for it counts as
  complete and empty, and everything it had is marked (`Judge`, `discovery.rs:1464`); the
  comment of `scan_native_snapshot` (`discovery.rs:1455`) says that this must never happen.
  Likewise a unit of which `systemctl show` fails is taken for another one (`Shown`,
  `discovery.rs:1561`). `AlarmsAreExplained` names these three as its exceptions.
- A daemon that dies between a run and the save of `next_run_at` runs the occurrence again
  (`FinishVisit`, `service.rs:1493`); `docs/ACCEPTANCE_TEAM.zh-CN.md` excludes it.
  `TickRunsOnce` is checked without crashes.

And of these no document says what should be:

- An adoption between a scanner's `upsert_source` and its write of the row, or after a scanner
  that died between the two, pairs the old definition with the new fingerprint: Taskrail runs
  what the entry used to run, and no later scan sees a difference (`Store`, `Staged`).
- With `misfire_max_age_seconds` the age of the *first* missed occurrence decides about
  all of them (`Expire`). With the policy `skip` the scheduler never runs an automation,
  however punctual it is (`SkipMisfire`), since `due_runs` returns nothing for an
  occurrence that has come. An adopted automation has no `next_run_at` and is due at the
  first pass (`Scheduled`). `ScheduledAutomationRuns` is therefore checked for the other two
  policies, and `CatchUpLosesNothing` claims nothing about automations with an age limit
  or without a first `next_run_at`.
- Any transaction can be rolled back at any time. When its snapshot shows an agent that
  was not loaded, `restore` leaves it so, and the row of the automation is given up: what
  was adopted since then is run by nobody, the transaction is `rolled_back`, and the next
  scan makes the row an ordinary paused one (`adoption.rs:582`, `adoption.rs:385`).
  `NoJobIsLost` excludes it by name (`ReturnedUnloaded`).
- An approval that was granted cannot be withdrawn, only left to expire (`Answerable`).
- A run that is refused for overlap, or fails between consumption and start, has used up
  its approval (`lost`).
- `rclone check` and `restic check` with errors append `integration.attention` and are
  recorded as `failed`; a scan that was killed after it printed findings needs attention;
  JSON of an unexpected shape counts as clean for OSV-Scanner and Trivy; empty output of
  `restic forget` or `prune` is a failure to parse.
- `taskrail_mole` takes a missing `dry_run` for true, the fleet and an approval for false:
  the fleet refuses a call that would have been a dry run.
- `taskrail approval-request restic-backup` has no option for the variables of the
  repository (`main.rs:682`): such a backup is approved over RPC only.
- Crontab lines are split at blanks, without the shell cron gives them to; of an array of
  calendar intervals `launchd` jobs become every minute (`discovery.rs:213`); the id of a
  crontab entry is its line number, so an entry inserted above others changes them all.
- A plist of a Homebrew service outside of the directories of launchd is stored under
  launchd and listed by Homebrew alone: without `brew` on the daemon's path it is missing.

Fairness. A supervised run takes its next step: a child ends at
`timeout_seconds` at the latest, a backoff is capped, no step waits for another run.
A daemon that is down is started again (`KeepAlive` in the LaunchAgent, `Restart=on-failure`
in the systemd unit, both written by `main.rs`), and its recovery is a finite loop. The
scheduler loop sleeps a finite time between passes. Fairness is weak throughout.
Liveness is stated without Registry faults: a failing call leaves the row until the
next daemon start, and nothing makes the daemon restart. `EveryRunSettles` speaks of
the runs a daemon supervises; those of a CLI process that dies wait for the next
start of a daemon, which may never come. `ScheduledAutomationRuns` is checked without
runs by hand of the exclusive automation: a person who always has one going starves
the scheduler, which passes over a busy automation. `Adoption` claims no liveness: a
transaction that was interrupted stays so until a person rolls it back.

In `Reconcile` the scanners and the calls of operators go on (weakly fair `ScanStep` and
`Operate`): the daemon rescans after a fixed interval and is started again, and the moves
of persons come to an end. In `Approvals` an executor that is not dead goes on; nobody
has to ask or to answer, and `ConsumedIsAccountedFor` claims nothing else.

Counters that grow (`crashes`, `clock`, `now`, `moves`) are bounded by `MaxCrashes`,
`MaxClock`, `MaxTime` and `MaxMoves`; run identifiers and approvals are a finite set, each
used once, as UUIDs are. Deadlock is not checked in `Reconcile` and `Approvals`, which
stop when the moves or the approvals are used up, and every behaviour of `MCFunctions` is
one input that stays.

## 4. What is proved

The theorems hold for any number of runs, automations, approvals, sources, processes,
crashes and instants. A hypothesis that a theorem has beside the assumptions of its
module is named in its row; each is a boundary at which the statement ceases to be true
of the code, and what goes wrong beyond it is told below or in section 3.

### RunLifecycle_proofs

| Theorem | Statement | Hypothesis |
|---|---|---|
| `TypeCorrect` | `Spec => []TypeOK` | |
| `Admission` | `Spec => []OneRunningRow` | |
| `CancellationStopsWork` | `Spec => []CancelStopsWork` | |
| `SuccessRecordsTheLastStep` | `Spec => []SuccessIsComplete` | |
| `FailureRecordsTheLastAttempt` | `Spec => []FailureIsExhausted` | |
| `VerdictsStand` | `Spec => VerdictIsFinal` | |
| `CancellationIsRecorded` | `Spec => []CancelIsRecorded` | `ReportCancellation` |
| `SupervisionNeverOverlaps` | `Spec => []NoOverlap` | `OneDaemon` |
| `EventsFollowTheRow` | `Spec => []EventsAgreeWithRow` | `OneDaemon` |
| `RecoveryIsComplete` | `Spec => RecoveryLeavesNoStrandedRow` | `OneDaemon` |
| `HistoryIsALedger` | `Spec => ImplementsLedger` | `OneDaemon` |

`OneDaemon`: at most one daemon and no CLI process that supervises; `RunLifecycle_overlap`
is what happens otherwise. `ReportCancellation`: no automation is an integration, whose
parser makes a cancelled process a failed one (section 3); the theorem is
about runs whose executor stopped a process for the cancellation (`killed`), not about those
of which a timeout, an exit or a Responses answer came first.

- `TypeInv` adds to `TypeOK` that a run about to retry has an attempt left
  (otherwise `attempt + 1` may leave its range) and that the result of a judged
  attempt is known.
- `AdmissionInv` adds that a run without a row has not been admitted, and that a
  registered run has an automation: then an INSERT that found no running row makes
  the only one, and nothing but an INSERT makes a row `running`.
- `CancellationStopsWork` rests on one fact about all steps: only `Launch` brings a
  run to `executing`, and it reads the channel; position and channel of an executing
  run are otherwise left alone.
- `VerdictInv` says what has been earned at the points where the loop is left
  (`EarnedWhereTheLoopEnds`) and that a settled row holds the result of its run or
  `interrupted` (`RowIsTheResult`).
- `DecidedRunsEnd`: a run whose attempt needs attention or was cancelled is on its way to
  its end, and nothing but its result is written into its row, unless a recovery turns
  `running` into `interrupted` before. `VerdictsStand` follows, and with `KilledAreCancelled` `CancellationIsRecorded`.
- `SoleInv` is what holds of a single daemon: an active run is supervised by a daemon
  that serves, a run between INSERT and UPDATE has a `running` row. The second part
  is what recovery by a second process destroys, and why `NoOverlap` does not follow
  from `OneRunningRow` without the assumption. `RunningIsSelected` adds for
  `RecoveryIsComplete` that no row becomes `running` while the recovery goes on.
- `HistoryIsALedger` maps `Admit` to `Start`, `RecordEnd` and `RecoverRow` to `Settle`, and
  every other step to stuttering; `SoleInv` gives the guard of `Settle`.

### Scheduler_proofs

`CatchUpIsExact` is about `DueRuns` with the policy `catch_up`, for every trigger, every
scheduled instant the trigger can have (`OnGrid`), every clock and every `max_runs`: the
runs begin with the scheduled one, ascend, are instants at which the trigger fires, none
lies ahead of the clock, and every fire up to the clock is among them unless there are
`max_runs` of them already, and then it is later than all of them. Exempted is only the last
instant of the date range, at which there is no next instant to compare with.

The loop is a recursive function, and the induction theorems of the library take an
operator as a parameter, which the provers cannot instantiate. Here induction is done by a
least counterexample instead: `Least`, from the well-foundedness of `<` on the naturals
(`WFMin`), gives every non-empty set of numbers a least member. `RoundsExist` takes the
least number of rounds for which no function with the equations of `round` exists, and
extends the function for one round less; so the `CHOOSE` behind the recursive definition
has a witness. `RoundsProgress` takes the least round at which `Progress` fails and
contradicts it with `RoundKeepsProgress`. What remains is arithmetic: multiples of an
interval lie an interval apart (`MultiplesApart`), `NextRunIsNext` (no fire between an
instant and its next run), and that a chain of next runs covers everything between its
ends (`ChainCovers`).

### MCFunctions_proofs and Gateway_proofs

From `SchedulerAssumption`, `ErrorAssumption` (an error is not a list of runs) and
`MCFunctionsAssumption` (the clock is inside the date range), for every `Bound` and
`LastInstant`, that is for every interval, cron expression, policy, `max_runs`, scheduled
instant and clock, for native commands of any length (`MaxWords`) and for any names of
actions and parameters a client makes up (`Unheard`). The run `Functions_inputs` is the
instance with 5, 6, three words and one name:

| Theorem | Statement |
|---|---|
| `CatchUpReplays` | `Spec => []CatchUpReplaysMissed` |
| `BacklogSplitsAnywhere` | `Spec => []BacklogMayBeSplit` |
| `FailureIsUnschedulable` | `Spec => []FailsOnUnschedulable` |
| `PromotionKeepsTheJob` | `Spec => []PromotedRunsTheSame` |
| `CompleteScansSeeAll` | `Spec => []CompleteMeansAll` |
| `HeldCanBeGranted` | `Spec => []HeldIsApprovable` |
| `GatesAgreeOnCalls` | `Spec => []GatesAgree` |
| `HistoryIsHonest` | `Spec => []StatusIsHonest` |

- `CatchUpReplays` is `CatchUpIsExact` for a trigger that was scheduled at any instant.
- `BacklogSplitsAnywhere` compares the rounds of three loops. Loops of different lengths agree
  on the rounds they share (`RoundsAgree`); a loop that has met an error or an instant ahead of
  the clock stays as it is (`FinishedStays`); and otherwise its rounds after the first `p` are
  those of a loop that begins with the instant reached, behind what was collected before
  (`RoundsResume`).
- `FailureIsUnschedulable`: the loop fails exactly when one of its rounds meets an instant
  without a next run (`FailsWhenStuck`). For an interval that instant is the scheduled one plus a
  multiple of the interval (`IntervalRound`, and `IntervalReaches` for the converse: what is
  not ahead of the clock is reached); for a cron expression there is none.
- `PromotionKeepsTheJob` compares argument vectors word by word, of the entries that
  `PromotedRunsTheSame` does not except: crontab lines with syntax of the shell, systemd
  services with arguments and agents with several calendar intervals. The parser of crontab lines
  flattens a list of lists, which is a recursive function again: the fronts of the line satisfy
  its equation (`FlattenExists`) and nothing else does, by a least counterexample
  (`FlattensToFronts`), so a line without quotes falls into its own words (`SplitKeepsWords`).
- `CompleteScansSeeAll` follows each provider: what a healthy host would show for a provider
  called complete is what that provider reports now (`CompleteIsSeen`). `ServiceIsOne`: a
  service of Homebrew is kept under its own identity only when no native provider has it.
- `HeldCanBeGranted` and `GatesAgreeOnCalls` share `RiskyIsMutating`: an action that needs an
  approval is on the fleet's list of mutating calls, and only six tools have one. Both hold of
  any request to a known tool, whatever is given in it (`AlwaysApprovable`, `AlwaysGated`).
  `HintsOfTools` and `HintsOfFleet` bring the two lists of hints, which the code groups
  differently, into the same five groups.
- `HistoryIsHonest`: what looks like an error in the output is no success to the parser of any
  operation that reports errors (`ErrorsAreSeen`, `FailedChecksAreSeen`, `FindingsAreSeen`), and
  a run without a success, unless cancelled, is an item of the inbox (`ItemsOfRun`).

### SchedulerPass_proofs

From `SchedulerPassAssumption` and `AbsentIsNoRow`, for any automations, triggers,
policies, daemons, operators and crashes:

| Theorem | Statement | Hypothesis |
|---|---|---|
| `SchedulerTypeInvariant` | `Spec => []TypeInv` | |
| `CatchUpIsComplete` | `Spec => []CatchUpLosesNothing` | |
| `RunsOccurrencesOnly` | `Spec => []OnlyOccurrencesRun` | `Forever` |
| `TicksRunOnce` | `Spec => []TickRunsOnce` | `Undisturbed`, `Endless` |

- `TypeInv` is `TypeOK` and `VisitInv`: during a visit, which other processes and the clock
  interrupt at every run, what is left to do is part of what the copy of the row and the
  `now` of the pass make due.
- `CatchUpIsComplete` has no hypothesis, which is remarkable as every daemon and operator
  writes rows back that are arbitrarily old. The inductive form speaks of all *copies* of a
  next run (`Copied`: in the Registry, in the snapshot of a pass, in the hands of an
  operator): each is `Honest`, that is on the grid of its trigger, and every occurrence before
  it has been evaluated. The lemma `CopiesSpread` says that no step but the end of a visit
  makes a next run that was not a copy before; a stale write therefore repeats occurrences and
  loses none. The end of a visit advances past what `CatchUpIsExact` says was run, which
  `EvaluatedInv` says was evaluated.
- `RunsOccurrencesOnly` has the same shape with `FiringInv`. `Forever`: no cron expression is
  exhausted within the time considered. One that is gives `Never`, an automation without a
  next run is due at every pass, and is run at an instant at which it does not fire.
- `TicksRunOnce`: `TickInv` says that an occurrence that was run lies before the next run of its
  row or, within a visit, before what is left of it (`OnceInv`), and that a visit goes through
  its occurrences in order (`AscendingInv`). `Undisturbed`: one daemon, nobody
  else who writes rows, no crash; any of these brings back an old next run (section 3).
  `Endless`: when asked, a trigger has a next run; without one the row keeps the next run it had
  (an error) or is due at every pass (`Never`).

### Adoption_proofs

From `AdoptionAssumption` and `NoneIsNoRecord`, for any sources, operators and transactions,
with every failure and crash:

| Theorem | Statement | Hypothesis |
|---|---|---|
| `AdoptionTypeInvariant` | `Spec => []TypeInv` | |
| `AdoptionTypeCorrect` | `Spec => []TypeOK` | |
| `OwnerInvariant` | `Spec => []OwnerInv` | `Apart` |
| `OneOwner` | `Spec => []SingleOwner` | `Apart` |
| `LostJobsShow` | `Spec => []NoJobIsLost` | `Apart` |
| `CommitHandsOver` | `Spec => CommitIsHandover` | `Apart` |
| `RollbackRestores` | `Spec => RollbackIsComplete` | `Apart` |

`Apart`: operators are `Patient`, and at most one of the sources is in the crontab, whose
snapshot is the table as a whole; `Adoption_crontab` is what happens with two.

`OwnerInv` says of each call in progress what it has reached (`Sound`): whose entry of the
journal it holds (`HoldsEntry`), the state it noted there (`HasNoted`), and what it has done to
the row and the native scheduler (`HasDone`), the last of which only `verify` and the success of
`restore` establish. `OneAtATime` keeps the calls apart, `SnapshotsFit` says that a snapshot
shows its own source and nothing else. With these a commit finds the native side disabled
and the row adopted, and a close finds what the snapshot says. `Accounted` is a
stronger form of `NoJobIsLost`: the row of an automation that is not adopted may be rewritten by
every scan, so that it accounts for nothing. The attempt to prove `Accounted` without its last
disjunct is what brought the rollback to an unloaded agent to light (section 3).

### Reconcile_proofs

From `ReconcileAssumption`, for any sources, definitions, scanners, operators and moves:

| Theorem | Statement | Hypothesis |
|---|---|---|
| `ReconcileTypeInvariant` | `Spec => []TypeInv` | |
| `CopiesStayCurrent` | `Spec => []RowInv` | `Patient` |
| `StaleCopiesAloneDisown` | `Spec => OnlyStaleCopiesDisown` | |
| `EveryAlarmIsExplained` | `Spec => AlarmsAreExplained` | |
| `AdoptionsRunTheEntry` | `Spec => []AdoptsWhatItDisables` | `Patient`, no fault at `read` or `write` |

`Patient` and `Faults` are the constants of section 2. The hypotheses of `AdoptionsRunTheEntry`
take away the interleavings in which the code fails it: it says what remains, that definition
and fingerprint are written together by whoever is alone with a source.

- `TypeInv` is `TypeOK` with what a scanner knows at each of its points (`ScanInv`: it marks only
  what a complete scan missed, reconciles only what it found) and that a call that goes on was
  not refused (`CallInv`).
- `RowInv` adds that nobody else works on the source of a scanner or of a call (`Exclusive`) and
  that the copy about to be written back is the row (`CopiesAreCurrent`). What a write changes
  can then be read off the copy.
- `StaleCopiesAloneDisown` needs no invariant but the types: a scanner writes what it computed
  from its copy, and the copy is the row unless somebody overtook it (`OnlyMarked`).
- `SeesTruth`, for `EveryAlarmIsExplained`: whatever the scan found of an entry is what the
  entry was, or one of the reasons of `AlarmsAreExplained` holds of it (`Seen`), and a complete
  scan found the provider back. `ReconciledMarks`: a reconciliation marks only a row whose
  copy expects another definition, or an observed one that cannot be run.
- `TakeoverInv`, for `AdoptionsRunTheEntry`: between its calls a scanner has stored what it found
  (`StoresFirst`), an observed row in good order runs the stored definition, unless it is just
  being reconciled (`RunsWhatIsKnown`), and so does the copy an adoption read (`AdoptsKnown`).

### Approvals_proofs

From `ApprovalsAssumption` and `NoneIsNoRecord`, for any number of approvals, plans,
executors and lifetimes:

| Theorem | Statement |
|---|---|
| `ApprovalsInvariant` | `Spec => []IInv` |
| `ApprovalsTypeCorrect` | `Spec => []TypeOK` |
| `ApprovalIsUsedOnce` | `Spec => []SingleUse` |
| `GrantCoversPlanAlways` | `Spec => []GrantCoversPlan` |
| `TrailIsAlwaysBacked` | `Spec => []TrailIsBacked` |
| `ExpiredStaysUnconsumed` | `Spec => ExpiryIsFinal` |
| `ApprovalsImplementGrant` | `Spec => ImplementsGrant` |

`IInv` is `TypeOK` with four parts. `HoldsApproval`: a call that runs presents an approval that
exists and whose plan is its own. `GrantCoversPlan`: past the consumption it is the one
that consumed. `SpentOnce`: an approval has a spender exactly when it is consumed, and has
started a process only if nobody is on the way from its consumption to the start; this
is what `SingleUse` needs, since `starts <= 1` alone does not say that `Spawn` finds it 0.
`NotesAreBacked`: the events that a call owes or appended agree with the table. The step
proofs rest on one fact about the UPDATEs (`ConsumedStays`): nothing changes a consumed
row, so whoever is past `Consume` keeps what it found. For `ImplementsGrant`, `Request` maps
to `Ask`, `Decide` to `Answer`, a successful `Consume` to `Spend`, `Spawn` to `Use`, and every
other step to stuttering.

### Only model-checked

- Liveness, which needs fairness and `ENABLED`: `EveryRunSettles`, `ScheduledAutomationRuns`,
  `ChangeIsNoticed`, `ConsumedIsAccountedFor`.

Every safety property that a passing run checks is also stated by a theorem.

## 5. What is left

1. An abstract `Ownership` that `Adoption` refines, with its refinement proved.
2. Operators of `Adoption` that are not `Patient`, once the project says what should
   happen then.
3. Creation and revisions of automations, with the check and the insertion of
   `create_automation` in two calls (`rpc.rs:1048`); the backoff of retries in 64 bits.
4. The consumption of an approval by a scheduled integration step (`service.rs:817-857`): the
   UPDATE is that of `Approvals`, the executor the one of `RunLifecycle`, where a step that is
   refused for lack of an approval is `CannotLaunch`.

Not modelled, with the reasons:

- *The GitHub and Codex watchers*: one answer of a service is compared with the one
  before it; `codex exec` runs in the foreground.
- *Worktrees*: one git command per operation.
- *Argument vectors of the tools, redaction and truncation of output, metrics*: string
  processing without decisions that another part depends on.
- *Labels, identities and files of application-owned sources*: they are never promoted.
- *Installation of the service, the doctors, schemas, rendering in CLI, TUI and
  dashboard, transport of RPC and HTTP*: input and output.
