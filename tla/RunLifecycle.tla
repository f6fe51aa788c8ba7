---------------------------- MODULE RunLifecycle ----------------------------
(***************************************************************************)
(* The supervision of runs by the service layer: admission of a run into   *)
(* the Registry, its steps and attempts, cancellation, the final UPDATE,   *)
(* and the recovery of 'running' rows when a daemon starts.                *)
(*                                                                         *)
(* A run is supervised by the operating-system process that admitted it: a *)
(* daemon (scheduled runs and runs asked for over RPC) or a CLI client     *)
(* (`taskrail run`).  The processes share nothing but the Registry, in     *)
(* which every call is one SQLite transaction; the steps between two calls *)
(* or awaits interleave.                                                   *)
(***************************************************************************)
EXTENDS Naturals, FiniteSets

CONSTANTS
  Runs,          \* run identifiers (UUIDs: each is used once)
  Automations,   \* automations a run may belong to
  Exclusive,     \* the automations whose concurrency is forbid_overlap
  ExecutorOf,    \* what the steps of an automation are run by
  NumSteps,      \* steps of an automation
  MaxAttempts,   \* retry.max_attempts
  Daemons,       \* `taskrail daemon` processes, with or without --once
  Clients,       \* CLI processes that supervise a run of their own
  StorageFaults, \* whether a Registry call may fail and end a supervision
  MaxCrashes,    \* bound on the crashes of processes
  Nobody         \* no process, no automation

ASSUME RunLifecycleAssumption ==
  /\ Exclusive \subseteq Automations
  /\ ExecutorOf \in [Automations -> {"command", "responses", "integration"}]
  /\ NumSteps \in Nat \ {0}
  /\ MaxAttempts \in Nat \ {0}
  /\ Daemons \cap Clients = {}
  /\ Nobody \notin Daemons \cup Clients \cup Automations
  /\ StorageFaults \in BOOLEAN
  /\ MaxCrashes \in Nat

Processes == Daemons \cup Clients

VARIABLES
  row,          \* runs.status of each run, "absent" before the INSERT
  automationOf, \* the automation a run was started for
  supervisor,   \* the process that supervises the run
  pc,           \* where execute_automation_at is for the run
  step,         \* the step being executed
  attempt,      \* its attempt
  result,       \* status of the last attempt, then of the run
  cancelled,    \* runs whose watch channel holds true
  cancelledAt,  \* history: the attempt in progress when it became true
  killed,       \* history: runs an executor gave up for their cancellation
  phase,        \* "down", "recovering" or "serving", of each daemon
  toRecover,    \* rows a recovering daemon selected and has not visited
  unreported,   \* rows it interrupted whose event is still to be appended
  ended,        \* final events (run.<status>) recorded for each run
  crashes       \* crashes so far

execVars == <<step, attempt, result, killed>>
cancelVars == <<cancelled, cancelledAt>>
processVars == <<phase, toRecover, unreported, crashes>>
recordVars == <<row, ended>>
originVars == <<automationOf, supervisor>>
restVars == <<cancelVars, processVars, originVars>>
vars == <<execVars, restVars, recordVars, pc>>

-----------------------------------------------------------------------------

AttemptStatus == {"succeeded", "failed", "timed_out", "cancelled", "needs_attention"}
Settled == AttemptStatus \cup {"interrupted"}
RowStatus == Settled \cup {"absent", "running"}

\* Program points at which the run is in ACTIVE_RUNS of its supervisor, and
\* those between the INSERT and the final UPDATE of its row.
Unsettled == {"admitted", "starting", "checking", "executing", "judging",
              "retrying", "waiting", "ending"}
Supervised == Unsettled \cup {"registered", "closing"}

Active(r) == pc[r] \in Supervised

ActiveRuns(p) == {r \in Runs : supervisor[r] = p /\ Active(r)}

NoAttempt == <<0, 0>>
Position(r) == <<step[r], attempt[r]>>

TypeOK ==
  /\ row \in [Runs -> RowStatus]
  /\ automationOf \in [Runs -> Automations \cup {Nobody}]
  /\ supervisor \in [Runs -> Processes \cup {Nobody}]
  /\ pc \in [Runs -> Supervised \cup {"unused", "gone"}]
  /\ step \in [Runs -> 0..NumSteps]
  /\ attempt \in [Runs -> 0..MaxAttempts]
  /\ result \in [Runs -> AttemptStatus \cup {"none"}]
  /\ cancelled \subseteq Runs
  /\ cancelledAt \in [Runs -> (0..NumSteps) \X (0..MaxAttempts)]
  /\ killed \subseteq Runs
  /\ phase \in [Daemons -> {"down", "recovering", "serving"}]
  /\ toRecover \in [Daemons -> SUBSET Runs]
  /\ unreported \in [Daemons -> SUBSET Runs]
  /\ ended \in [Runs -> SUBSET Settled]
  /\ crashes \in 0..MaxCrashes

Init ==
  /\ row = [r \in Runs |-> "absent"]
  /\ automationOf = [r \in Runs |-> Nobody]
  /\ supervisor = [r \in Runs |-> Nobody]
  /\ pc = [r \in Runs |-> "unused"]
  /\ step = [r \in Runs |-> 0]
  /\ attempt = [r \in Runs |-> 0]
  /\ result = [r \in Runs |-> "none"]
  /\ cancelled = {}
  /\ cancelledAt = [r \in Runs |-> NoAttempt]
  /\ killed = {}
  /\ phase = [d \in Daemons |-> "down"]
  /\ toRecover = [d \in Daemons |-> {}]
  /\ unreported = [d \in Daemons |-> {}]
  /\ ended = [r \in Runs |-> {}]
  /\ crashes = 0

-----------------------------------------------------------------------------
(***************************************************************************)
(* Admission.                                                              *)
(***************************************************************************)

Goto(r, label) == pc' = [pc EXCEPT ![r] = label]

\* A step that changes nothing but the program point.
Move(r, from, to) ==
  /\ pc[r] = from
  /\ Goto(r, to)
  /\ UNCHANGED <<execVars, restVars, recordVars>>

\* A daemon supervises any number of runs, a CLI process the one it was
\* started for.
MayStart(p) ==
  \/ p \in Daemons /\ phase[p] = "serving"
  \/ p \in Clients /\ ActiveRuns(p) = {}

\* execute_automation_at: the definition is valid, the run gets its identifier
\* and its cancellation channel before anything is written.
Register(p, a, r) ==
  /\ MayStart(p)
  /\ pc[r] = "unused"
  /\ Goto(r, "registered")
  /\ automationOf' = [automationOf EXCEPT ![r] = a]
  /\ supervisor' = [supervisor EXCEPT ![r] = p]
  /\ UNCHANGED <<execVars, cancelVars, processVars, recordVars>>

RunningRows(a) == {s \in Runs : automationOf[s] = a /\ row[s] = "running"}

MayAdmitAnything(a) == TRUE

\* The overlap check of try_record_run_start, made in the transaction of the
\* INSERT.
MayAdmit(a) == a \in Exclusive => RunningRows(a) = {}

Admit(r) ==
  /\ pc[r] = "registered"
  /\ MayAdmit(automationOf[r])
  /\ row' = [row EXCEPT ![r] = "running"]
  /\ Goto(r, "admitted")
  /\ UNCHANGED <<execVars, restVars, ended>>

\* The rejection is recorded without a run, and the channel is dropped.
Reject(r) == ~MayAdmit(automationOf[r]) /\ Move(r, "registered", "gone")

\* The run.started event; the first step begins with its first attempt.
Begin(r) ==
  /\ pc[r] = "admitted"
  /\ step' = [step EXCEPT ![r] = 1]
  /\ attempt' = [attempt EXCEPT ![r] = 1]
  /\ Goto(r, "starting")
  /\ UNCHANGED <<result, killed, restVars, recordVars>>

-----------------------------------------------------------------------------
(***************************************************************************)
(* One attempt of one step.                                                *)
(***************************************************************************)

\* The executor.<kind>.started event.
RecordAttempt(r) == Move(r, "starting", "checking")

CommandStatusByExit(ending, isCancelled) ==
  CASE ending = "timeout" -> "timed_out"
    [] ending = "exit_ok" -> "succeeded"
    [] OTHER -> "failed"

\* What execute_with_cancellation reports of a command: a timeout wins over a
\* cancellation that arrived with it, a cancellation over the exit status.
CommandStatus(ending, isCancelled) ==
  IF ending = "timeout" THEN "timed_out"
  ELSE IF ending = "killed" \/ isCancelled THEN "cancelled"
  ELSE IF ending = "exit_ok" THEN "succeeded" ELSE "failed"

\* An integration's parser and verifier judge the command: every unsuccessful
\* process is a failure to them (the scanners read findings from an exit
\* status other than zero), a successful one may still need attention.
IntegrationStatuses(status, ending) ==
  CASE status = "succeeded" -> {"succeeded", "needs_attention", "failed"}
    [] status = "failed" /\ ending = "exit_error" -> {"failed", "needs_attention"}
    [] OTHER -> {"failed"}

\* A Responses request is one future: its answer counts even if the run was
\* cancelled meanwhile, its failure is put down to the cancellation.
ResponsesStatus(ending, isCancelled) ==
  IF ending = "exit_ok" THEN "succeeded" ELSE IF isCancelled THEN "cancelled" ELSE "failed"

Outcomes(kind, ending, isCancelled) ==
  CASE kind = "command" -> {CommandStatus(ending, isCancelled)}
    [] kind = "responses" -> {ResponsesStatus(ending, isCancelled)}
    [] OTHER -> IntegrationStatuses(CommandStatus(ending, isCancelled), ending)

AttemptOutcomes(r, ending) ==
  Outcomes(ExecutorOf[automationOf[r]], ending, r \in cancelled)

\* The attempt ends with one of these statuses.
EndAttempt(r, from, statuses) ==
  /\ pc[r] = from
  /\ \E status \in statuses : result' = [result EXCEPT ![r] = status]
  /\ Goto(r, "judging")
  /\ UNCHANGED <<step, attempt, restVars, recordVars>>

NotStoppedEver(r) == TRUE

\* The executors read the channel before they start anything.
NotStopped(r) == r \notin cancelled

Launch(r) == NotStopped(r) /\ Move(r, "checking", "executing")

RefuseLaunch(r) ==
  /\ ~NotStopped(r)
  /\ EndAttempt(r, "checking", AttemptOutcomes(r, "killed"))
  /\ killed' = killed \cup {r}

\* No process can be started: a shell, a missing executable, a denied plan, an
\* approval that is missing, a Responses configuration without its key.
CannotLaunch(r) ==
  /\ EndAttempt(r, "checking", {"failed"})
  /\ UNCHANGED killed

\* A plan-only integration action starts no process and cannot fail.
PlanOnly(r) ==
  /\ EndAttempt(r, "checking", {"succeeded"})
  /\ ExecutorOf[automationOf[r]] = "integration"
  /\ UNCHANGED killed

\* The child exits or its timeout expires.
Collect(r, ending) ==
  /\ EndAttempt(r, "executing", AttemptOutcomes(r, ending))
  /\ UNCHANGED killed

\* The cancelled branch of the select: the child is dropped and killed.
Kill(r) ==
  /\ r \in cancelled
  /\ EndAttempt(r, "executing", AttemptOutcomes(r, "killed"))
  /\ killed' = killed \cup {r}

-----------------------------------------------------------------------------
(***************************************************************************)
(* After an attempt: next step, retry, or the end of the run.              *)
(***************************************************************************)

RetryableAny(r) == result[r] # "succeeded" /\ attempt[r] < MaxAttempts
RetryableTooSeldom(r) == result[r] \in {"failed", "timed_out"} /\ attempt[r] + 1 < MaxAttempts
RetryableForever(r) == result[r] \in {"failed", "timed_out"}

Retryable(r) == result[r] \in {"failed", "timed_out"} /\ attempt[r] < MaxAttempts

LastStepButOne == NumSteps - 1

LastStep == NumSteps

\* A step that succeeded, with its executor.<kind>.completed event.
NextStep(r) ==
  /\ pc[r] = "judging"
  /\ result[r] = "succeeded"
  /\ step[r] < LastStep
  /\ step' = [step EXCEPT ![r] = @ + 1]
  /\ attempt' = [attempt EXCEPT ![r] = 1]
  /\ Goto(r, "starting")
  /\ UNCHANGED <<result, killed, restVars, recordVars>>

\* A failed attempt that may be repeated, with its retrying event.
Retry(r) == Retryable(r) /\ Move(r, "judging", "retrying")

\* The last step succeeded, or an attempt decided the status of the run.
Conclude(r) ==
  /\ IF result[r] = "succeeded" THEN step[r] >= LastStep ELSE ~Retryable(r)
  /\ Move(r, "judging", "ending")

\* wait_for_retry reads the channel once before it waits ...
BeginWait(r) == r \notin cancelled /\ Move(r, "retrying", "waiting")

\* ... and ends the run if it is, or becomes, cancelled.
StopRetrying(r) ==
  /\ pc[r] \in {"retrying", "waiting"}
  /\ r \in cancelled
  /\ result' = [result EXCEPT ![r] = "cancelled"]
  /\ Goto(r, "ending")
  /\ UNCHANGED <<step, attempt, killed, restVars, recordVars>>

\* The backoff is over; the select may prefer it to a cancellation.
TryAgain(r) ==
  /\ pc[r] = "waiting"
  /\ attempt' = [attempt EXCEPT ![r] = @ + 1]
  /\ Goto(r, "starting")
  /\ UNCHANGED <<step, result, killed, restVars, recordVars>>

RecordEndInEventsOnly(r) ==
  /\ pc[r] = "ending"
  /\ ended' = [ended EXCEPT ![r] = @ \cup {result[r]}]
  /\ Goto(r, "closing")
  /\ UNCHANGED <<execVars, restVars, row>>

\* record_run_end: an UPDATE that does not look at the status it replaces.
RecordEnd(r) ==
  /\ pc[r] = "ending"
  /\ row' = [row EXCEPT ![r] = result[r]]
  /\ Goto(r, "closing")
  /\ UNCHANGED <<execVars, restVars, ended>>

\* The run.<status> event, and the run leaves ACTIVE_RUNS.
Close(r) ==
  /\ pc[r] = "closing"
  /\ ended' = [ended EXCEPT ![r] = @ \cup {result[r]}]
  /\ Goto(r, "gone")
  /\ UNCHANGED <<execVars, restVars, row>>

\* A Registry call returns an error: `?` leaves the function, the row stays.
Abandon(r) ==
  /\ StorageFaults
  /\ \E from \in {"registered", "admitted", "starting", "judging", "ending", "closing"} :
       Move(r, from, "gone")
Supervise(r) ==
  \/ Admit(r) \/ Reject(r) \/ Begin(r)
  \/ RecordAttempt(r) \/ Launch(r) \/ RefuseLaunch(r) \/ CannotLaunch(r) \/ PlanOnly(r)
  \/ \E ending \in {"exit_ok", "exit_error", "timeout"} : Collect(r, ending)
  \/ Kill(r)
  \/ NextStep(r) \/ Retry(r) \/ Conclude(r)
  \/ BeginWait(r) \/ StopRetrying(r) \/ TryAgain(r)
  \/ RecordEnd(r) \/ Close(r)

-----------------------------------------------------------------------------
(***************************************************************************)
(* Cancellation.                                                           *)
(***************************************************************************)

\* cancel_run, in a process whose ACTIVE_RUNS are these: the channel is set
\* once; a run that is not in the map is refused and nothing changes.
CancelIn(active, r) ==
  \/ /\ r \in active \ cancelled
     /\ cancelled' = cancelled \cup {r}
     /\ cancelledAt' = [cancelledAt EXCEPT ![r] = Position(r)]
  \/ /\ r \notin active
     /\ UNCHANGED <<cancelled, cancelledAt>>

\* run.cancel over RPC (also the TUI's, the dashboard's and the MCP adapter's
\* way).  The operator knows the run from the Registry.
CancelOverRpc(d, r) ==
  /\ phase[d] = "serving"
  /\ row[r] # "absent"
  /\ CancelIn(ActiveRuns(d), r)
  /\ UNCHANGED <<execVars, processVars, originVars, recordVars, pc>>

\* `taskrail cancel` calls cancel_run in its own process, which supervises
\* nothing, whoever supervises the run.
CancelByCommand(r) ==
  /\ row[r] # "absent"
  /\ CancelIn({}, r)
  /\ UNCHANGED <<execVars, processVars, originVars, recordVars, pc>>

-----------------------------------------------------------------------------
(***************************************************************************)
(* Daemons start, recover and stop; any process may crash.                 *)
(***************************************************************************)

\* recover_running_runs selects the running rows, whoever supervises them.
StartDaemon(d) ==
  /\ phase[d] = "down"
  /\ phase' = [phase EXCEPT ![d] = "recovering"]
  /\ toRecover' = [toRecover EXCEPT ![d] = {r \in Runs : row[r] = "running"}]
  /\ UNCHANGED <<execVars, cancelVars, recordVars, originVars, pc, unreported, crashes>>

\* The UPDATE of one of them is guarded by the status.
RecoverRow(d, r) ==
  /\ phase[d] = "recovering"
  /\ unreported[d] = {}
  /\ r \in toRecover[d]
  /\ toRecover' = [toRecover EXCEPT ![d] = @ \ {r}]
  /\ \/ /\ row[r] = "running"
        /\ row' = [row EXCEPT ![r] = "interrupted"]
        /\ unreported' = [unreported EXCEPT ![d] = {r}]
     \/ /\ row[r] # "running"
        /\ UNCHANGED <<row, unreported>>
  /\ UNCHANGED <<execVars, cancelVars, originVars, pc, ended, phase, crashes>>

\* The run.interrupted event follows when the UPDATE changed the row.
ReportInterrupted(d, r) ==
  /\ r \in unreported[d]
  /\ ended' = [ended EXCEPT ![r] = @ \cup {"interrupted"}]
  /\ unreported' = [unreported EXCEPT ![d] = {}]
  /\ UNCHANGED <<execVars, cancelVars, originVars, pc, row, phase, toRecover, crashes>>

RecoveredEarly(d) == TRUE

Recovered(d) == toRecover[d] = {} /\ unreported[d] = {}

\* The RPC server and the scheduler start when the recovery is over.
Serve(d) ==
  /\ phase[d] = "recovering"
  /\ Recovered(d)
  /\ phase' = [phase EXCEPT ![d] = "serving"]
  /\ UNCHANGED <<execVars, cancelVars, recordVars, originVars, pc, toRecover, unreported, crashes>>

\* A daemon ends while it supervises nothing (--once after its pass).
StopDaemon(d) ==
  /\ phase[d] = "serving"
  /\ ActiveRuns(d) = {}
  /\ phase' = [phase EXCEPT ![d] = "down"]
  /\ UNCHANGED <<execVars, cancelVars, recordVars, originVars, pc, toRecover, unreported, crashes>>

\* A process dies with everything it supervises: killed, or left by an error
\* of the daemon's loop.  Its children die with it (kill_on_drop, or the
\* service manager's process group).
Lose(p) == pc' = [r \in Runs |-> IF r \in ActiveRuns(p) THEN "gone" ELSE pc[r]]

CrashDaemon(d) ==
  /\ crashes < MaxCrashes
  /\ phase[d] # "down"
  /\ Lose(d)
  /\ crashes' = crashes + 1
  /\ phase' = [phase EXCEPT ![d] = "down"]
  /\ toRecover' = [toRecover EXCEPT ![d] = {}]
  /\ unreported' = [unreported EXCEPT ![d] = {}]
  /\ UNCHANGED <<execVars, cancelVars, recordVars, originVars>>

CrashClient(c) ==
  /\ crashes < MaxCrashes
  /\ ActiveRuns(c) # {}
  /\ Lose(c)
  /\ crashes' = crashes + 1
  /\ UNCHANGED <<execVars, cancelVars, recordVars, originVars, phase, toRecover, unreported>>

DaemonStep(d) ==
  \/ StartDaemon(d)
  \/ \E r \in Runs : RecoverRow(d, r) \/ ReportInterrupted(d, r)
  \/ Serve(d)

Next ==
  \/ \E p \in Processes, a \in Automations, r \in Runs : Register(p, a, r)
  \/ \E r \in Runs : Supervise(r)
  \/ \E r \in Runs : Abandon(r)
  \/ \E d \in Daemons, r \in Runs : CancelOverRpc(d, r)
  \/ \E r \in Runs : CancelByCommand(r)
  \/ \E d \in Daemons : DaemonStep(d)
  \/ \E d \in Daemons : StopDaemon(d)
  \/ \E d \in Daemons : CrashDaemon(d)
  \/ \E c \in Clients : CrashClient(c)

Spec == Init /\ [][Next]_vars

\* A supervising process takes its next step: the executor ends at its timeout
\* at the latest, the backoff is finite.  The service manager restarts a daemon
\* (KeepAlive, Restart=on-failure), and the daemon completes its recovery.
FairSpec ==
  /\ Spec
  /\ \A r \in Runs : WF_vars(Supervise(r))
  /\ \A d \in Daemons : WF_vars(DaemonStep(d))

-----------------------------------------------------------------------------
(***************************************************************************)
(* Properties.                                                             *)
(***************************************************************************)

\* The Registry never holds two running rows of an automation that forbids
\* overlap, whatever processes start runs of it (try_record_run_start).
OneRunningRow ==
  \A r, s \in Runs :
    /\ row[r] = "running" /\ row[s] = "running"
    /\ automationOf[r] = automationOf[s]
    /\ automationOf[r] \in Exclusive
    => r = s

\* The executions themselves never overlap: between the INSERT and the final
\* UPDATE at most one run of such an automation is supervised.  It does not
\* follow from OneRunningRow: recovery settles rows it takes for orphans.
NoOverlap ==
  \A r, s \in Runs :
    /\ pc[r] \in Unsettled /\ pc[s] \in Unsettled
    /\ automationOf[r] = automationOf[s]
    /\ automationOf[r] \in Exclusive
    => r = s

\* A run whose cancellation was accepted starts no further process: one that
\* is executing was already in this attempt when the channel was set.
CancelStopsWork ==
  \A r \in cancelled : pc[r] = "executing" => Position(r) = cancelledAt[r]

\* A run that an executor gave up for its cancellation is recorded as cancelled,
\* not as one of the failures that are worth another attempt.
CancelIsRecorded ==
  \A r \in killed : row[r] \in AttemptStatus => row[r] = "cancelled"

\* A run is recorded as succeeded only after the last step of the definition
\* succeeded.
SuccessIsComplete ==
  \A r \in Runs : row[r] = "succeeded" => step[r] = NumSteps /\ result[r] = "succeeded"

\* A run is recorded as failed or timed out only when the attempts of the step
\* are used up.
FailureIsExhausted ==
  \A r \in Runs : row[r] \in {"failed", "timed_out"} => attempt[r] = MaxAttempts

\* Only failures and timeouts are repeated: what an attempt ended as for the
\* attention of a person, or cancelled, stays, and is what the supervisor writes
\* into the row, over whatever another process recovered it to; a recovery only
\* turns running into interrupted.
VerdictIsFinal ==
  [][\A r \in Runs :
       result[r] \in {"needs_attention", "cancelled"} =>
         /\ result'[r] = result[r]
         /\ \/ row'[r] \in {row[r], result[r]}
            \/ row[r] = "running" /\ row'[r] = "interrupted"]_vars

\* The event log never reports an end that the run history contradicts.
EventsAgreeWithRow ==
  \A r \in Runs : \A status \in ended[r] : row[r] = status

\* When a daemon begins to serve, every row left running is supervised by a
\* live process: nothing stranded keeps blocking the admission of its
\* automation.
RecoveryLeavesNoStrandedRow ==
  [][\A d \in Daemons :
       phase[d] = "recovering" /\ phase'[d] = "serving" =>
         \A r \in Runs : row'[r] = "running" => pc'[r] \in Unsettled]_vars

\* Every run that a daemon admitted is settled in the end.
EveryRunSettles ==
  \A r \in Runs :
    supervisor[r] \in Daemons /\ row[r] = "running" ~> row[r] \in Settled

\* The rows of `runs` implement the ledger when one daemon supervises every
\* run: a row, once settled, is never written again.
OwnerInHistory == [r \in Runs |-> IF row[r] = "absent" THEN Nobody ELSE automationOf[r]]

Ledger ==
  INSTANCE RunLedger WITH
    FinalStatus <- Settled, status <- row, owner <- OwnerInHistory

ImplementsLedger == Ledger!Spec
=============================================================================
