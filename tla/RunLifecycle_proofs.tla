------------------------- MODULE RunLifecycle_proofs -------------------------
(***************************************************************************)
(* Theorems about RunLifecycle for every value of its constants.           *)
(***************************************************************************)
EXTENDS RunLifecycle, TLAPS

-----------------------------------------------------------------------------
(***************************************************************************)
(* Type correctness.                                                       *)
(***************************************************************************)

\* The status an executor reports is a status of an attempt.
LEMMA OutcomesType ==
  ASSUME NEW kind, NEW ending, NEW isCancelled \in BOOLEAN
  PROVE  Outcomes(kind, ending, isCancelled) \subseteq AttemptStatus
  BY DEF Outcomes, CommandStatus, ResponsesStatus, IntegrationStatuses, AttemptStatus

LEMMA AttemptOutcomesType ==
  ASSUME NEW r, NEW ending
  PROVE  AttemptOutcomes(r, ending) \subseteq AttemptStatus
<1>1. (r \in cancelled) \in BOOLEAN
  OBVIOUS
<1> QED
  BY <1>1, OutcomesType DEF AttemptOutcomes

\* TypeOK is not inductive: that an attempt number stays within MaxAttempts
\* rests on a retry being waited for only when an attempt is left, that a row
\* is settled with a status on an attempt having been judged before.
RetryHasAttempts ==
  \A r \in Runs : pc[r] \in {"retrying", "waiting"} => attempt[r] < MaxAttempts

Judged == {"judging", "retrying", "waiting", "ending", "closing"}
ResultIsKnown == \A r \in Runs : pc[r] \in Judged => result[r] \in AttemptStatus

TypeInv == TypeOK /\ RetryHasAttempts /\ ResultIsKnown

LEMMA InitType == Init => TypeInv
  BY RunLifecycleAssumption
     DEF Init, TypeInv, TypeOK, RetryHasAttempts, ResultIsKnown, Judged, RowStatus, Settled, NoAttempt

LEMMA MoveType ==
  ASSUME TypeInv, NEW r \in Runs, NEW from, NEW to \in Supervised \cup {"gone"},
         Move(r, from, to),
         to \in {"retrying", "waiting"} => attempt[r] < MaxAttempts,
         to \in Judged => pc[r] \in Judged
  PROVE  TypeInv'
  BY DEF TypeInv, TypeOK, RetryHasAttempts, ResultIsKnown, Judged, Move, Goto, restVars, execVars,
         recordVars, cancelVars, processVars, originVars

LEMMA EndAttemptType ==
  ASSUME TypeInv, NEW r \in Runs, NEW from, NEW statuses \in SUBSET AttemptStatus,
         EndAttempt(r, from, statuses), killed' \in SUBSET Runs
  PROVE  TypeInv'
  BY DEF TypeInv, TypeOK, RetryHasAttempts, ResultIsKnown, Judged, EndAttempt, Goto, Supervised, Unsettled, restVars,
         recordVars, cancelVars, processVars, originVars

LEMMA SuperviseType ==
  ASSUME TypeInv, NEW r \in Runs, Supervise(r)
  PROVE  TypeInv'
<1> USE DEF TypeInv, restVars, execVars, recordVars, cancelVars, processVars, originVars
<1>1. CASE Admit(r)
  BY <1>1 DEF TypeOK, RetryHasAttempts, ResultIsKnown, Judged, Admit, Goto, Supervised, Unsettled, RowStatus
<1>2. CASE Reject(r)
  BY <1>2, MoveType DEF Judged, Move, Reject
<1>3. CASE Begin(r)
  BY <1>3, RunLifecycleAssumption
     DEF TypeOK, RetryHasAttempts, ResultIsKnown, Judged, Begin, Goto, Supervised, Unsettled
<1>4. CASE RecordAttempt(r)
  BY <1>4, MoveType DEF Judged, Move, RecordAttempt, Supervised, Unsettled
<1>5. CASE Launch(r)
  BY <1>5, MoveType DEF Judged, Move, Launch, Supervised, Unsettled
<1>6. CASE RefuseLaunch(r)
  BY <1>6, EndAttemptType, AttemptOutcomesType DEF RefuseLaunch, TypeOK
<1>7. CASE CannotLaunch(r)
  BY <1>7, EndAttemptType DEF CannotLaunch, AttemptStatus, TypeOK
<1>8. CASE PlanOnly(r)
  BY <1>8, EndAttemptType DEF PlanOnly, AttemptStatus, TypeOK
<1>9. ASSUME NEW ending \in {"exit_ok", "exit_error", "timeout"}, Collect(r, ending)
      PROVE  TypeInv'
  BY <1>9, EndAttemptType, AttemptOutcomesType DEF Collect, TypeOK
<1>10. CASE Kill(r)
  BY <1>10, EndAttemptType, AttemptOutcomesType DEF Kill, TypeOK
<1>11. CASE NextStep(r)
  BY <1>11, RunLifecycleAssumption
     DEF TypeOK, RetryHasAttempts, ResultIsKnown, Judged, NextStep, Goto, Supervised, Unsettled, LastStep
<1>12. CASE Retry(r)
  BY <1>12, MoveType DEF Judged, Move, Retry, Retryable, Supervised, Unsettled
<1>13. CASE Conclude(r)
  BY <1>13, MoveType DEF Judged, Move, Conclude, Supervised, Unsettled
<1>14. CASE BeginWait(r)
  <2>1. attempt[r] < MaxAttempts
    BY <1>14 DEF BeginWait, Move, RetryHasAttempts
  <2> QED
    BY <1>14, <2>1, MoveType DEF Judged, Move, BeginWait, Supervised, Unsettled
<1>15. CASE StopRetrying(r)
  BY <1>15
     DEF TypeOK, RetryHasAttempts, ResultIsKnown, Judged, StopRetrying, Goto, Supervised, Unsettled, AttemptStatus
<1>16. CASE TryAgain(r)
  <2>1. attempt[r] + 1 \in 0..MaxAttempts
    BY <1>16, RunLifecycleAssumption DEF TryAgain, RetryHasAttempts, ResultIsKnown, Judged, TypeOK
  <2> QED
    BY <1>16, <2>1 DEF TypeOK, RetryHasAttempts, ResultIsKnown, Judged, TryAgain, Goto, Supervised, Unsettled
<1>17. CASE RecordEnd(r)
  BY <1>17 DEF TypeOK, RetryHasAttempts, ResultIsKnown, Judged, RecordEnd, Goto, Supervised, RowStatus, Settled
<1>18. CASE Close(r)
  BY <1>18 DEF TypeOK, RetryHasAttempts, ResultIsKnown, Judged, Close, Goto, Settled
<1> QED
  BY <1>1, <1>2, <1>3, <1>4, <1>5, <1>6, <1>7, <1>8, <1>9, <1>10, <1>11, <1>12,
     <1>13, <1>14, <1>15, <1>16, <1>17, <1>18 DEF Supervise

LEMMA CancelType ==
  ASSUME TypeInv, NEW r \in Runs, NEW active \in SUBSET Runs, CancelIn(active, r),
         UNCHANGED <<execVars, processVars, originVars, recordVars, pc>>
  PROVE  TypeInv'
<1>1. Position(r) \in (0..NumSteps) \X (0..MaxAttempts)
  BY DEF TypeInv, TypeOK, Position
<1>2. cancelledAt' \in [Runs -> (0..NumSteps) \X (0..MaxAttempts)]
  BY <1>1 DEF CancelIn, TypeInv, TypeOK
<1>3. cancelled' \subseteq Runs
  BY DEF CancelIn, TypeInv, TypeOK
<1> QED
  BY <1>2, <1>3 DEF TypeInv, TypeOK, RetryHasAttempts, ResultIsKnown, execVars,
     processVars, originVars, recordVars

LEMMA ProcessType ==
  ASSUME TypeInv,
         UNCHANGED <<execVars, cancelVars, originVars>>,
         row' \in [Runs -> RowStatus], ended' \in [Runs -> SUBSET Settled],
         UNCHANGED pc \/ \E p \in Processes : Lose(p),
         phase' \in [Daemons -> {"down", "recovering", "serving"}],
         toRecover' \in [Daemons -> SUBSET Runs], unreported' \in [Daemons -> SUBSET Runs],
         crashes' \in 0..MaxCrashes
  PROVE  TypeInv'
<1>1. pc' \in [Runs -> Supervised \cup {"unused", "gone"}]
  BY DEF Lose, TypeInv, TypeOK
<1>2. \A r \in Runs : pc'[r] = pc[r] \/ pc'[r] = "gone"
  BY DEF Lose, TypeInv, TypeOK
<1> QED
  BY <1>1, <1>2 DEF TypeInv, TypeOK, RetryHasAttempts, ResultIsKnown, Judged,
     execVars, cancelVars, originVars

LEMMA StepType == TypeInv /\ [Next]_vars => TypeInv'
<1> SUFFICES ASSUME TypeInv, [Next]_vars PROVE TypeInv'
  OBVIOUS
<1> USE DEF restVars, execVars, cancelVars, recordVars, processVars, originVars
<1>1. ASSUME NEW p \in Processes, NEW a \in Automations, NEW r \in Runs, Register(p, a, r)
      PROVE  TypeInv'
  BY <1>1 DEF TypeInv, TypeOK, RetryHasAttempts, ResultIsKnown, Judged, Register,
     Goto, Supervised
<1>2. ASSUME NEW r \in Runs, Supervise(r)
      PROVE  TypeInv'
  BY <1>2, SuperviseType
<1>3. ASSUME NEW r \in Runs, Abandon(r)
      PROVE  TypeInv'
  BY <1>3, MoveType DEF Abandon, Judged
<1>4. ASSUME NEW d \in Daemons, NEW r \in Runs, CancelOverRpc(d, r)
      PROVE  TypeInv'
  BY <1>4, CancelType DEF CancelOverRpc, ActiveRuns
<1>5. ASSUME NEW r \in Runs, CancelByCommand(r)
      PROVE  TypeInv'
  BY <1>5, CancelType DEF CancelByCommand
<1>6. ASSUME NEW d \in Daemons, StartDaemon(d)
      PROVE  TypeInv'
  <2>1. toRecover' \in [Daemons -> SUBSET Runs]
    BY <1>6 DEF StartDaemon, TypeInv, TypeOK
  <2> QED
    BY <1>6, <2>1, ProcessType DEF StartDaemon, TypeInv, TypeOK
<1>7. ASSUME NEW d \in Daemons, NEW r \in Runs, RecoverRow(d, r)
      PROVE  TypeInv'
  <2>1. row' \in [Runs -> RowStatus]
    BY <1>7 DEF RecoverRow, TypeInv, TypeOK, RowStatus, Settled
  <2>2. unreported' \in [Daemons -> SUBSET Runs]
    BY <1>7 DEF RecoverRow, TypeInv, TypeOK
  <2>3. toRecover' \in [Daemons -> SUBSET Runs]
    BY <1>7 DEF RecoverRow, TypeInv, TypeOK
  <2> QED
    BY <1>7, <2>1, <2>2, <2>3, ProcessType DEF RecoverRow, TypeInv, TypeOK
<1>8. ASSUME NEW d \in Daemons, Serve(d)
      PROVE  TypeInv'
  BY <1>8, ProcessType DEF Serve, TypeInv, TypeOK
<1>9. ASSUME NEW d \in Daemons, StopDaemon(d)
      PROVE  TypeInv'
  BY <1>9, ProcessType DEF StopDaemon, TypeInv, TypeOK
<1>10. ASSUME NEW d \in Daemons, CrashDaemon(d)
       PROVE  TypeInv'
  <2>1. crashes' \in 0..MaxCrashes
    BY <1>10, RunLifecycleAssumption DEF CrashDaemon, TypeInv, TypeOK
  <2> QED
    BY <1>10, <2>1, ProcessType DEF CrashDaemon, Processes, TypeInv, TypeOK
<1>11. ASSUME NEW c \in Clients, CrashClient(c)
       PROVE  TypeInv'
  <2>1. crashes' \in 0..MaxCrashes
    BY <1>11, RunLifecycleAssumption DEF CrashClient, TypeInv, TypeOK
  <2> QED
    BY <1>11, <2>1, ProcessType DEF CrashClient, Processes, TypeInv, TypeOK
<1>12. CASE UNCHANGED vars
  BY <1>12 DEF vars, TypeInv, TypeOK, RetryHasAttempts, ResultIsKnown
<1>13. ASSUME NEW d \in Daemons, NEW r \in Runs, ReportInterrupted(d, r)
       PROVE  TypeInv'
  BY <1>13, ProcessType DEF ReportInterrupted, TypeInv, TypeOK, Settled
<1> QED
  BY <1>1, <1>2, <1>3, <1>4, <1>5, <1>6, <1>7, <1>8, <1>9, <1>10, <1>11, <1>12, <1>13
     DEF Next, DaemonStep

LEMMA TypeInvariant == Spec => []TypeInv
  BY InitType, StepType, PTL DEF Spec

\* Every variable keeps its type: in particular the attempts of a step never
\* exceed retry.max_attempts, and no row is written with a status that no
\* attempt reported.
THEOREM TypeCorrect == Spec => []TypeOK
<1>1. TypeInv => TypeOK
  BY DEF TypeInv
<1> QED
  BY <1>1, TypeInvariant, PTL

-----------------------------------------------------------------------------
(***************************************************************************)
(* What a step does to the rows.  Only an INSERT, the final UPDATE and the *)
(* recovery write one; every other step is quiet: it moves runs along      *)
(* their supervision, or out of it.                                        *)
(***************************************************************************)
Quiet ==
  /\ UNCHANGED <<row, ended, automationOf, supervisor>>
  /\ \A d \in Daemons : unreported'[d] \subseteq unreported[d]
  /\ \A r \in Runs :
       \/ pc'[r] = pc[r] /\ (result'[r] = result[r] \/ pc[r] # "closing")
       \/ pc'[r] = "gone"
       \/ pc[r] \in Unsettled /\ pc'[r] \in Unsettled

LEMMA QuietMove ==
  ASSUME TypeInv, NEW r \in Runs, NEW from \in Supervised, NEW to \in Supervised \cup {"gone"},
         Move(r, from, to), to # "gone" => from \in Unsettled /\ to \in Unsettled
  PROVE  Quiet
  BY DEF Quiet, Move, Goto, TypeInv, TypeOK, execVars, restVars, recordVars, originVars, cancelVars, processVars

LEMMA QuietEndAttempt ==
  ASSUME TypeInv, NEW r \in Runs, NEW from \in Unsettled, NEW statuses,
         EndAttempt(r, from, statuses)
  PROVE  Quiet
  BY DEF Quiet, EndAttempt, Goto, TypeInv, TypeOK, restVars, recordVars, originVars, cancelVars, processVars, Unsettled

LEMMA SuperviseRows ==
  ASSUME TypeInv, NEW r \in Runs, Supervise(r)
  PROVE  Quiet \/ Admit(r) \/ RecordEnd(r) \/ Close(r)
<1> USE DEF Unsettled, Supervised
<1>1. CASE Reject(r)
  BY <1>1, QuietMove DEF Reject
<1>2. CASE Begin(r)
  BY <1>2 DEF Quiet, Begin, Goto, TypeInv, TypeOK, restVars, recordVars, originVars, cancelVars, processVars
<1>3. CASE RecordAttempt(r) \/ Launch(r) \/ Retry(r) \/ BeginWait(r) \/ Conclude(r)
  BY <1>3, QuietMove DEF RecordAttempt, Launch, Retry, BeginWait, Conclude
<1>4. CASE RefuseLaunch(r) \/ CannotLaunch(r) \/ PlanOnly(r) \/ Kill(r)
  BY <1>4, QuietEndAttempt DEF RefuseLaunch, CannotLaunch, PlanOnly, Kill
<1>5. ASSUME NEW ending \in {"exit_ok", "exit_error", "timeout"}, Collect(r, ending)
      PROVE  Quiet
  BY <1>5, QuietEndAttempt DEF Collect
<1>6. CASE NextStep(r)
  BY <1>6 DEF Quiet, NextStep, Goto, TypeInv, TypeOK, restVars, recordVars, originVars, cancelVars, processVars
<1>7. CASE StopRetrying(r)
  BY <1>7 DEF Quiet, StopRetrying, Goto, TypeInv, TypeOK, restVars, recordVars, originVars, cancelVars, processVars
<1>8. CASE TryAgain(r)
  BY <1>8 DEF Quiet, TryAgain, Goto, TypeInv, TypeOK, restVars, recordVars, originVars, cancelVars, processVars
<1> QED
  BY <1>1, <1>2, <1>3, <1>4, <1>5, <1>6, <1>7, <1>8 DEF Supervise

LEMMA RowsOfStep ==
  ASSUME TypeInv, [Next]_vars
  PROVE  \/ Quiet
         \/ \E p \in Processes, a \in Automations, r \in Runs : Register(p, a, r)
         \/ \E r \in Runs : Admit(r) \/ RecordEnd(r) \/ Close(r)
         \/ \E d \in Daemons, r \in Runs : RecoverRow(d, r) \/ ReportInterrupted(d, r)
<1> USE DEF execVars, cancelVars, processVars, recordVars, originVars
<1>1. ASSUME NEW r \in Runs, Abandon(r) PROVE Quiet
  BY <1>1, QuietMove DEF Abandon, Supervised, Unsettled
<1>2. ASSUME NEW r \in Runs, CancelByCommand(r) \/ \E d \in Daemons : CancelOverRpc(d, r)
      PROVE  Quiet
  BY <1>2 DEF CancelByCommand, CancelOverRpc, Quiet
<1>3. ASSUME NEW d \in Daemons, StartDaemon(d) \/ Serve(d) \/ StopDaemon(d)
      PROVE  Quiet
  BY <1>3 DEF StartDaemon, Serve, StopDaemon, Quiet
<1>4. ASSUME NEW p \in Processes, Lose(p), UNCHANGED <<execVars, cancelVars, recordVars, originVars>>,
             UNCHANGED unreported \/ unreported' = [unreported EXCEPT ![p] = {}]
      PROVE  Quiet
  BY <1>4 DEF Lose, Quiet, TypeInv, TypeOK
<1>5. CASE UNCHANGED vars
  BY <1>5 DEF vars, restVars, Quiet
<1> QED
  BY <1>1, <1>2, <1>3, <1>4, <1>5, SuperviseRows
     DEF Next, DaemonStep, CrashDaemon, CrashClient, Processes

-----------------------------------------------------------------------------
(***************************************************************************)
(* Admission.                                                              *)
(***************************************************************************)

\* OneRunningRow is not inductive: a run is given its automation before it is
\* admitted, when its row must not be there yet.
NoRowBeforeAdmission ==
  \A r \in Runs : pc[r] \in {"unused", "registered"} => row[r] = "absent"

\* The refinement of the ledger, and what a cancellation is recorded as, rest on the
\* automation being one of those known.
RegisteredForAnAutomation ==
  \A r \in Runs : pc[r] \in {"registered"} \cup Unsettled => automationOf[r] \in Automations

AdmissionInv ==
  TypeInv /\ NoRowBeforeAdmission /\ RegisteredForAnAutomation /\ OneRunningRow

LEMMA AdmissionStep == AdmissionInv /\ [Next]_vars => AdmissionInv'
<1> DEFINE AdmissionKept == NoRowBeforeAdmission /\ RegisteredForAnAutomation /\ OneRunningRow
<1> SUFFICES ASSUME AdmissionInv, [Next]_vars PROVE AdmissionKept'
  BY StepType DEF AdmissionInv
<1> TypeInv /\ TypeOK /\ AdmissionKept
  BY DEF AdmissionInv, TypeInv
<1>1. CASE Quiet
  BY <1>1 DEF Quiet, NoRowBeforeAdmission, RegisteredForAnAutomation, OneRunningRow, TypeOK, Unsettled
<1>2. ASSUME NEW p \in Processes, NEW a \in Automations, NEW r \in Runs, Register(p, a, r)
      PROVE  AdmissionKept'
  BY <1>2 DEF Register, Goto, NoRowBeforeAdmission, RegisteredForAnAutomation, OneRunningRow, TypeOK, recordVars
<1>3. ASSUME NEW r \in Runs, Admit(r)
      PROVE  AdmissionKept'
  BY <1>3 DEF Admit, MayAdmit, RunningRows, Goto, NoRowBeforeAdmission, RegisteredForAnAutomation,
     OneRunningRow, TypeOK, restVars, originVars
<1>4. ASSUME NEW r \in Runs, RecordEnd(r)
      PROVE  AdmissionKept'
  <2>1. result[r] # "running"
    BY <1>4 DEF TypeInv, ResultIsKnown, Judged, RecordEnd, AttemptStatus
  <2> QED
    BY <1>4, <2>1 DEF RecordEnd, Goto, NoRowBeforeAdmission, RegisteredForAnAutomation, OneRunningRow, TypeOK,
       restVars, originVars, Unsettled
<1>5. ASSUME NEW r \in Runs, Close(r)
      PROVE  AdmissionKept'
  BY <1>5 DEF Close, Goto, NoRowBeforeAdmission, RegisteredForAnAutomation, OneRunningRow, TypeOK,
     restVars, originVars, Unsettled
<1>6. ASSUME NEW d \in Daemons, NEW r \in Runs, RecoverRow(d, r)
      PROVE  AdmissionKept'
  BY <1>6 DEF RecoverRow, NoRowBeforeAdmission, RegisteredForAnAutomation, OneRunningRow, TypeOK, recordVars, originVars
<1>7. ASSUME NEW d \in Daemons, NEW r \in Runs, ReportInterrupted(d, r)
      PROVE  AdmissionKept'
  BY <1>7 DEF ReportInterrupted, NoRowBeforeAdmission, RegisteredForAnAutomation, OneRunningRow, originVars
<1> QED
  BY <1>1, <1>2, <1>3, <1>4, <1>5, <1>6, <1>7, RowsOfStep

LEMMA AdmissionInvariant == Spec => []AdmissionInv
<1>1. Init => AdmissionInv
  BY InitType
     DEF AdmissionInv, Init, NoRowBeforeAdmission, RegisteredForAnAutomation, OneRunningRow, Unsettled
<1> QED
  BY <1>1, AdmissionStep, PTL DEF Spec

\* However many daemons and CLI processes start runs, crash or recover, the
\* Registry never holds two running rows of an automation that forbids overlap.
THEOREM Admission == Spec => []OneRunningRow
<1>1. AdmissionInv => OneRunningRow
  BY DEF AdmissionInv
<1> QED
  BY <1>1, AdmissionInvariant, PTL

-----------------------------------------------------------------------------
(***************************************************************************)
(* Cancellation stops the work.                                            *)
(***************************************************************************)

\* A step that starts no process and leaves the channels alone.
StartsNothing ==
  /\ UNCHANGED <<cancelled, cancelledAt>>
  /\ \A r \in Runs :
       pc'[r] = "executing" =>
         pc[r] = "executing" /\ step'[r] = step[r] /\ attempt'[r] = attempt[r]

LEMMA OnlyLaunchStartsWork ==
  ASSUME TypeOK, NEW r \in Runs, Supervise(r), ~Launch(r)
  PROVE  StartsNothing
<1> USE DEF StartsNothing, TypeOK, Goto, execVars, restVars, cancelVars
<1>1. CASE Admit(r)
  BY <1>1 DEF Admit
<1>2. CASE Begin(r)
  BY <1>2 DEF Begin
<1>3. CASE Reject(r) \/ RecordAttempt(r) \/ Retry(r) \/ Conclude(r) \/ BeginWait(r)
  BY <1>3 DEF Reject, RecordAttempt, Retry, Conclude, BeginWait, Move
<1>4. CASE RefuseLaunch(r) \/ CannotLaunch(r) \/ PlanOnly(r) \/ Kill(r)
  BY <1>4 DEF RefuseLaunch, CannotLaunch, PlanOnly, Kill, EndAttempt
<1>5. ASSUME NEW ending, Collect(r, ending) PROVE StartsNothing
  BY <1>5 DEF Collect, EndAttempt
<1>6. CASE NextStep(r) \/ TryAgain(r) \/ StopRetrying(r)
  BY <1>6 DEF NextStep, TryAgain, StopRetrying
<1>7. CASE RecordEnd(r) \/ Close(r)
  BY <1>7 DEF RecordEnd, Close
<1> QED
  BY <1>1, <1>2, <1>3, <1>4, <1>5, <1>6, <1>7 DEF Supervise

LEMMA CancelStep ==
  ASSUME TypeOK, CancelStopsWork, [Next]_vars
  PROVE  CancelStopsWork'
<1> USE DEF execVars, cancelVars, restVars
<1>1. ASSUME StartsNothing PROVE CancelStopsWork'
  BY <1>1 DEF StartsNothing, CancelStopsWork, Position, TypeOK
<1>2. ASSUME NEW r \in Runs, Launch(r) PROVE CancelStopsWork'
  BY <1>2 DEF Launch, NotStopped, Move, Goto, CancelStopsWork, Position, TypeOK
<1>3. ASSUME NEW r \in Runs, NEW active, CancelIn(active, r), UNCHANGED <<execVars, pc>>
      PROVE  CancelStopsWork'
  BY <1>3 DEF CancelIn, CancelStopsWork, Position, TypeOK
<1>4. ASSUME NEW r \in Runs, CancelByCommand(r) \/ \E d \in Daemons : CancelOverRpc(d, r)
      PROVE  CancelStopsWork'
  BY <1>3, <1>4 DEF CancelByCommand, CancelOverRpc
<1>5. ASSUME NEW r \in Runs, Supervise(r) PROVE CancelStopsWork'
  BY <1>1, <1>2, <1>5, OnlyLaunchStartsWork
<1>6. ASSUME NEW p \in Processes, NEW a \in Automations, NEW r \in Runs, Register(p, a, r)
      PROVE  StartsNothing
  BY <1>6 DEF Register, Goto, StartsNothing, TypeOK
<1>7. ASSUME NEW r \in Runs, Abandon(r) PROVE StartsNothing
  BY <1>7 DEF Abandon, Move, Goto, StartsNothing, TypeOK
<1>8. ASSUME NEW d \in Daemons,
             DaemonStep(d) \/ StopDaemon(d)
      PROVE  StartsNothing
  BY <1>8 DEF DaemonStep, StartDaemon, RecoverRow, ReportInterrupted, Serve, StopDaemon, StartsNothing
<1>9. ASSUME NEW p \in Processes, Lose(p), UNCHANGED <<execVars, cancelVars>>
      PROVE  StartsNothing
  BY <1>9 DEF Lose, StartsNothing
<1>10. ASSUME NEW p \in Processes, CrashDaemon(p) \/ CrashClient(p)
       PROVE  StartsNothing
  BY <1>9, <1>10 DEF CrashDaemon, CrashClient
<1>11. CASE UNCHANGED vars
  BY <1>1, <1>11 DEF vars, StartsNothing
<1> QED
  BY <1>1, <1>4, <1>5, <1>6, <1>7, <1>8, <1>10, <1>11 DEF Next, Processes

\* Whenever a cancellation is accepted - in a backoff, between two steps, before
\* the first one - no further process is started for the run.
THEOREM CancellationStopsWork == Spec => []CancelStopsWork
<1>1. Init => CancelStopsWork
  BY DEF Init, CancelStopsWork
<1> QED
  BY <1>1, CancelStep, TypeCorrect, PTL DEF Spec

-----------------------------------------------------------------------------
(***************************************************************************)
(* What a run is recorded as.                                              *)
(***************************************************************************)

\* Neither SuccessIsComplete nor FailureIsExhausted is inductive: the status is
\* earned where the loop over steps and attempts is left (Conclude), and the
\* row gets it two steps later, when step, attempt and result no longer move.
Earned(r) ==
  /\ result[r] = "succeeded" => step[r] = NumSteps
  /\ result[r] \in {"failed", "timed_out"} => attempt[r] = MaxAttempts

EarnedWhereTheLoopEnds ==
  \A r \in Runs : pc[r] \in {"ending", "closing"} => Earned(r)

RowIsTheResult ==
  \A r \in Runs :
    row[r] \in AttemptStatus =>
      pc[r] \in {"closing", "gone"} /\ row[r] = result[r] /\ Earned(r)

VerdictInv == EarnedWhereTheLoopEnds /\ RowIsTheResult

\* A step of the loop: nothing is recorded, the run is in the loop before it
\* and leaves it only with a status that is earned.
InTheLoop(r) ==
  /\ UNCHANGED row
  /\ pc[r] \in Unsettled \ {"ending"}
  /\ \A s \in Runs \ {r} :
       /\ pc'[s] = pc[s] /\ result'[s] = result[s]
       /\ step'[s] = step[s] /\ attempt'[s] = attempt[s]
  /\ pc'[r] \in {"ending", "closing"} => Earned(r)'

LEMMA LoopVerdict ==
  ASSUME TypeInv, VerdictInv, NEW r \in Runs, InTheLoop(r)
  PROVE  VerdictInv'
<1> USE DEF VerdictInv, TypeInv, TypeOK, InTheLoop
<1>1. ASSUME NEW s \in Runs, s # r
      PROVE  /\ pc'[s] = pc[s]
             /\ Earned(s) => Earned(s)'
             /\ row'[s] = row[s] /\ result'[s] = result[s]
  BY <1>1 DEF Earned
<1>2. EarnedWhereTheLoopEnds'
  BY <1>1 DEF EarnedWhereTheLoopEnds
<1>3. row[r] \notin AttemptStatus
  BY DEF RowIsTheResult, Unsettled
<1>4. RowIsTheResult'
  BY <1>1, <1>3 DEF RowIsTheResult
<1> QED
  BY <1>2, <1>4

LEMMA SuperviseVerdict ==
  ASSUME TypeInv, VerdictInv, NEW r \in Runs, Supervise(r)
  PROVE  VerdictInv'
<1> TypeOK
  BY DEF TypeInv
<1> USE DEF Unsettled, Goto, execVars, restVars, recordVars
<1>1. CASE Admit(r)
  BY <1>1 DEF Admit, VerdictInv, EarnedWhereTheLoopEnds, RowIsTheResult, Earned, TypeOK, AttemptStatus
<1>2. CASE Reject(r)
  BY <1>2 DEF Reject, Move, VerdictInv, EarnedWhereTheLoopEnds, RowIsTheResult, Earned, TypeOK
<1>3. CASE Begin(r) \/ NextStep(r) \/ TryAgain(r)
  BY <1>3, LoopVerdict DEF Begin, NextStep, TryAgain, InTheLoop, TypeOK
<1>4. CASE RecordAttempt(r) \/ Launch(r) \/ Retry(r) \/ BeginWait(r)
  BY <1>4, LoopVerdict DEF RecordAttempt, Launch, Retry, BeginWait, Move, InTheLoop, TypeOK
<1>5. CASE RefuseLaunch(r) \/ CannotLaunch(r) \/ PlanOnly(r) \/ Kill(r)
  BY <1>5, LoopVerdict
     DEF RefuseLaunch, CannotLaunch, PlanOnly, Kill, EndAttempt, InTheLoop, TypeOK
<1>6. ASSUME NEW ending, Collect(r, ending) PROVE VerdictInv'
  BY <1>6, LoopVerdict DEF Collect, EndAttempt, InTheLoop, TypeOK
<1>7. CASE Conclude(r)
  <2>1. step[r] \in 0..NumSteps /\ attempt[r] \in 0..MaxAttempts
    BY DEF TypeOK
  <2>2. Earned(r)
    BY <1>7, <2>1, RunLifecycleAssumption DEF Conclude, Retryable, LastStep, Earned
  <2>3. Earned(r)'
    BY <1>7, <2>2 DEF Conclude, Move, Earned
  <2> QED
    BY <1>7, <2>3, LoopVerdict DEF Conclude, Move, InTheLoop, TypeOK
<1>8. CASE StopRetrying(r)
  BY <1>8, LoopVerdict DEF StopRetrying, InTheLoop, Earned, TypeOK
<1>9. CASE RecordEnd(r) \/ Close(r)
  <2>1. Earned(r)
    BY <1>9 DEF RecordEnd, Close, VerdictInv, EarnedWhereTheLoopEnds
  <2>2. \A s \in Runs : Earned(s) => Earned(s)'
    BY <1>9 DEF RecordEnd, Close, Earned
  <2>3. EarnedWhereTheLoopEnds'
    BY <1>9, <2>1, <2>2 DEF RecordEnd, Close, VerdictInv, EarnedWhereTheLoopEnds, TypeOK
  <2>4. RowIsTheResult'
    BY <1>9, <2>1, <2>2 DEF RecordEnd, Close, VerdictInv, RowIsTheResult, TypeOK
  <2> QED
    BY <2>3, <2>4 DEF VerdictInv
<1> QED
  BY <1>1, <1>2, <1>3, <1>4, <1>5, <1>6, <1>7, <1>8, <1>9 DEF Supervise

\* A step outside the loop: runs enter or leave their supervision, rows are
\* recovered.
BesideTheLoop ==
  /\ UNCHANGED <<step, attempt, result>>
  /\ \A r \in Runs :
       /\ \/ pc'[r] = pc[r]
          \/ pc'[r] = "gone"
          \/ pc'[r] = "registered" /\ pc[r] = "unused"
       /\ row'[r] = row[r] \/ row'[r] = "interrupted"

LEMMA VerdictStep ==
  ASSUME TypeInv, AdmissionInv, VerdictInv, [Next]_vars
  PROVE  VerdictInv'
<1> TypeOK
  BY DEF TypeInv
<1> USE DEF execVars, cancelVars, restVars, recordVars
<1>1. ASSUME BesideTheLoop PROVE VerdictInv'
  <2>1. \A r \in Runs : Earned(r) => Earned(r)'
    BY <1>1 DEF BesideTheLoop, Earned
  <2> QED
    BY <1>1, <2>1 DEF BesideTheLoop, VerdictInv, EarnedWhereTheLoopEnds, RowIsTheResult,
       AttemptStatus, AdmissionInv, NoRowBeforeAdmission
<1>2. ASSUME NEW p \in Processes, NEW a \in Automations, NEW r \in Runs, Register(p, a, r)
      PROVE  BesideTheLoop
  BY <1>2 DEF Register, Goto, BesideTheLoop, TypeOK
<1>3. ASSUME NEW r \in Runs, Supervise(r) PROVE VerdictInv'
  BY <1>3, SuperviseVerdict
<1>4. ASSUME NEW r \in Runs, Abandon(r) PROVE BesideTheLoop
  BY <1>4 DEF Abandon, Move, Goto, BesideTheLoop, TypeOK
<1>5. ASSUME NEW r \in Runs, CancelByCommand(r) \/ \E d \in Daemons : CancelOverRpc(d, r)
      PROVE  BesideTheLoop
  BY <1>5 DEF CancelByCommand, CancelOverRpc, BesideTheLoop
<1>6. ASSUME NEW d \in Daemons, NEW r \in Runs, RecoverRow(d, r) \/ ReportInterrupted(d, r)
      PROVE  BesideTheLoop
  BY <1>6 DEF RecoverRow, ReportInterrupted, BesideTheLoop, TypeOK
<1>7. ASSUME NEW d \in Daemons, StartDaemon(d) \/ Serve(d) \/ StopDaemon(d)
      PROVE  BesideTheLoop
  BY <1>7 DEF StartDaemon, Serve, StopDaemon, BesideTheLoop
<1>8. ASSUME NEW p \in Processes, CrashDaemon(p) \/ CrashClient(p)
      PROVE  BesideTheLoop
  BY <1>8 DEF CrashDaemon, CrashClient, Lose, BesideTheLoop
<1>9. CASE UNCHANGED vars
  BY <1>1, <1>9 DEF vars, BesideTheLoop
<1> QED
  BY <1>1, <1>2, <1>3, <1>4, <1>5, <1>6, <1>7, <1>8, <1>9 DEF Next, DaemonStep, Processes

LEMMA VerdictInvariant == Spec => []VerdictInv
<1>1. Init => VerdictInv
  BY DEF Init, VerdictInv, EarnedWhereTheLoopEnds, RowIsTheResult, AttemptStatus
<1> QED
  BY <1>1, VerdictStep, TypeInvariant, AdmissionInvariant, PTL DEF Spec

\* A row says succeeded only when the last step of the definition succeeded.
THEOREM SuccessRecordsTheLastStep == Spec => []SuccessIsComplete
<1>1. VerdictInv => SuccessIsComplete
  BY DEF VerdictInv, RowIsTheResult, SuccessIsComplete, Earned, AttemptStatus
<1> QED
  BY <1>1, VerdictInvariant, PTL

\* A row says failed or timed out only when no attempt of the step was left.
THEOREM FailureRecordsTheLastAttempt == Spec => []FailureIsExhausted
<1>1. VerdictInv => FailureIsExhausted
  BY DEF VerdictInv, RowIsTheResult, FailureIsExhausted, Earned, AttemptStatus
<1> QED
  BY <1>1, VerdictInvariant, PTL

-----------------------------------------------------------------------------
(***************************************************************************)
(* Verdicts that no retry may replace.                                     *)
(***************************************************************************)
Decisive == {"needs_attention", "cancelled"}

\* A run with such a verdict is past the executors and past the retry delay.
DecidedRunsEnd ==
  \A r \in Runs : result[r] \in Decisive => pc[r] \in {"judging", "ending", "closing", "gone"}

\* What a step of the loop does to the verdicts: it leaves those of the other runs and
\* those that were decisive, and what it decides is on its way to the row.
Judges(r) ==
  /\ \A s \in Runs \ {r} : pc'[s] = pc[s] /\ result'[s] = result[s]
  /\ result[r] \in Decisive => result'[r] = result[r]
  /\ result'[r] \in Decisive => pc'[r] \in {"judging", "ending", "closing", "gone"}

LEMMA SuperviseJudges ==
  ASSUME TypeOK, DecidedRunsEnd, NEW r \in Runs, Supervise(r) \/ Abandon(r)
  PROVE  Judges(r)
<1> USE DEF TypeOK, DecidedRunsEnd, Decisive, Judges, Goto, execVars
<1>1. CASE Admit(r) \/ Begin(r) \/ RecordEnd(r) \/ Close(r)
  BY <1>1 DEF Admit, Begin, RecordEnd, Close
<1>2. CASE Reject(r) \/ RecordAttempt(r) \/ Launch(r) \/ BeginWait(r) \/ Abandon(r)
  BY <1>2 DEF Reject, RecordAttempt, Launch, BeginWait, Abandon, Move
<1>3. CASE Retry(r) \/ Conclude(r)
  BY <1>3 DEF Retry, Retryable, Conclude, Move
<1>4. CASE RefuseLaunch(r) \/ CannotLaunch(r) \/ PlanOnly(r) \/ Kill(r)
  BY <1>4 DEF RefuseLaunch, CannotLaunch, PlanOnly, Kill, EndAttempt
<1>5. ASSUME NEW ending, Collect(r, ending) PROVE Judges(r)
  BY <1>5 DEF Collect, EndAttempt
<1>6. CASE NextStep(r) \/ TryAgain(r)
  BY <1>6 DEF NextStep, TryAgain
<1>7. CASE StopRetrying(r)
  BY <1>7 DEF StopRetrying
<1> QED
  BY <1>1, <1>2, <1>3, <1>4, <1>5, <1>6, <1>7 DEF Supervise

\* The other steps leave the verdicts, and end runs or begin them.
LEMMA VerdictsOfStep ==
  ASSUME TypeOK, [Next]_vars
  PROVE  \/ \E r \in Runs : Supervise(r) \/ Abandon(r)
         \/ /\ UNCHANGED result
            /\ \A r \in Runs : pc'[r] \in {pc[r], "gone"} \/ pc[r] = "unused"
<1> USE DEF execVars
<1>1. ASSUME NEW p \in Processes, NEW a \in Automations, NEW r \in Runs, Register(p, a, r)
      PROVE  UNCHANGED result /\ \A s \in Runs : pc'[s] = pc[s] \/ pc[s] = "unused"
  BY <1>1 DEF Register, Goto, TypeOK
<1>2. ASSUME NEW r \in Runs, CancelByCommand(r) \/ \E d \in Daemons : CancelOverRpc(d, r)
      PROVE  UNCHANGED <<result, pc>>
  BY <1>2 DEF CancelByCommand, CancelOverRpc
<1>3. ASSUME NEW d \in Daemons, DaemonStep(d) \/ StopDaemon(d)
      PROVE  UNCHANGED <<result, pc>>
  BY <1>3 DEF DaemonStep, StartDaemon, RecoverRow, ReportInterrupted, Serve, StopDaemon
<1>4. ASSUME NEW p \in Processes, CrashDaemon(p) \/ CrashClient(p)
      PROVE  UNCHANGED result /\ \A r \in Runs : pc'[r] \in {pc[r], "gone"}
  BY <1>4 DEF CrashDaemon, CrashClient, Lose
<1> QED
  BY <1>1, <1>2, <1>3, <1>4 DEF Next, Processes, vars

LEMMA DecidedStep ==
  ASSUME TypeOK, DecidedRunsEnd, [Next]_vars
  PROVE  /\ DecidedRunsEnd'
         /\ \A r \in Runs : result[r] \in Decisive => result'[r] = result[r]
<1>1. ASSUME NEW r \in Runs, Supervise(r) \/ Abandon(r)
      PROVE  Judges(r)
  BY <1>1, SuperviseJudges
<1>2. ASSUME NEW r \in Runs, Judges(r)
      PROVE  /\ DecidedRunsEnd'
             /\ \A s \in Runs : result[s] \in Decisive => result'[s] = result[s]
  BY <1>2 DEF Judges, DecidedRunsEnd
<1>3. ASSUME UNCHANGED result, \A r \in Runs : pc'[r] \in {pc[r], "gone"} \/ pc[r] = "unused"
      PROVE  /\ DecidedRunsEnd'
             /\ \A s \in Runs : result[s] \in Decisive => result'[s] = result[s]
  BY <1>3 DEF DecidedRunsEnd
<1> QED
  BY <1>1, <1>2, <1>3, VerdictsOfStep

LEMMA DecidedInvariant == Spec => []DecidedRunsEnd
<1>1. Init => DecidedRunsEnd
  BY DEF Init, DecidedRunsEnd, Decisive
<1> QED
  BY <1>1, DecidedStep, TypeCorrect, PTL DEF Spec

\* The only statuses a row is ever given after such a verdict: the verdict, by the
\* supervisor, and interrupted in place of running, by a recovery.
LEMMA DecidedRow ==
  ASSUME AdmissionInv, DecidedRunsEnd, [Next]_vars, NEW r \in Runs, result[r] \in Decisive
  PROVE  \/ row'[r] \in {row[r], result[r]}
         \/ row[r] = "running" /\ row'[r] = "interrupted"
<1> /\ TypeInv /\ TypeOK /\ pc[r] # "registered"
  BY DEF AdmissionInv, TypeInv, DecidedRunsEnd
<1> USE DEF recordVars, TypeOK
<1>1. CASE Quiet
  BY <1>1 DEF Quiet
<1>2. ASSUME NEW p \in Processes, NEW a \in Automations, NEW s \in Runs, Register(p, a, s)
      PROVE  UNCHANGED row
  BY <1>2 DEF Register
<1>3. ASSUME NEW s \in Runs, Admit(s) \/ RecordEnd(s) \/ Close(s)
      PROVE  row'[r] \in {row[r], result[r]}
  <2>1. CASE Admit(s)
    BY <2>1 DEF Admit
  <2>2. CASE RecordEnd(s)
    BY <2>2 DEF RecordEnd
  <2> QED
    BY <1>3, <2>1, <2>2 DEF Close
<1>4. ASSUME NEW d \in Daemons, NEW s \in Runs, RecoverRow(d, s) \/ ReportInterrupted(d, s)
      PROVE  row'[r] = row[r] \/ (row[r] = "running" /\ row'[r] = "interrupted")
  <2>1. CASE RecoverRow(d, s)
    BY <2>1 DEF RecoverRow
  <2> QED
    BY <1>4, <2>1 DEF ReportInterrupted
<1> QED
  BY <1>1, <1>2, <1>3, <1>4, RowsOfStep

\* What an attempt ended as for the attention of a person, or cancelled, no retry and
\* no cancellation replaces, and it is what the supervisor of the run writes into its
\* row.  Another process that recovers may turn running into interrupted before that:
\* the row then changes once more, to the verdict.
THEOREM VerdictsStand == Spec => VerdictIsFinal
<1>1. AdmissionInv /\ DecidedRunsEnd /\ [Next]_vars =>
        [\A r \in Runs :
           result[r] \in {"needs_attention", "cancelled"} =>
             /\ result'[r] = result[r]
             /\ \/ row'[r] \in {row[r], result[r]}
                \/ row[r] = "running" /\ row'[r] = "interrupted"]_vars
  BY DecidedStep, DecidedRow DEF Decisive, AdmissionInv, TypeInv
<1> QED
  BY <1>1, DecidedInvariant, AdmissionInvariant, PTL DEF Spec, VerdictIsFinal

\* The executors that report a cancellation as one: an integration reports a failure.
ReportCancellation == \A a \in Automations : ExecutorOf[a] # "integration"

KilledAreCancelled == \A r \in killed : result[r] = "cancelled"

LEMMA KilledIsReported ==
  ASSUME ReportCancellation, AdmissionInv, NEW r \in Runs, pc[r] \in Unsettled, r \in cancelled
  PROVE  AttemptOutcomes(r, "killed") = {"cancelled"}
<1>1. automationOf[r] \in Automations
  BY DEF AdmissionInv, RegisteredForAnAutomation
<1>2. ExecutorOf[automationOf[r]] \in {"command", "responses"}
  BY <1>1, RunLifecycleAssumption DEF ReportCancellation
<1>3. (r \in cancelled) = TRUE
  OBVIOUS
<1> QED
  BY <1>2, <1>3 DEF AttemptOutcomes, Outcomes, CommandStatus, ResponsesStatus

LEMMA KilledStep ==
  ASSUME ReportCancellation, AdmissionInv, DecidedRunsEnd, KilledAreCancelled, [Next]_vars
  PROVE  KilledAreCancelled'
<1>0. TypeOK /\ killed \subseteq Runs
  BY DEF AdmissionInv, TypeInv, TypeOK
<1>1. CASE UNCHANGED killed
  BY <1>0, <1>1, DecidedStep DEF KilledAreCancelled, Decisive
<1>2. ASSUME NEW r \in Runs, RefuseLaunch(r) \/ Kill(r)
      PROVE  KilledAreCancelled'
  <2>1. pc[r] \in Unsettled /\ r \in cancelled /\ killed' = killed \cup {r}
    BY <1>2 DEF RefuseLaunch, Kill, EndAttempt, NotStopped, Unsettled
  <2>2. result' = [result EXCEPT ![r] = "cancelled"]
    BY <1>2, <2>1, KilledIsReported DEF RefuseLaunch, Kill, EndAttempt
  <2> QED
    BY <1>0, <2>1, <2>2 DEF KilledAreCancelled, TypeOK
<1>3. ASSUME NEW r \in Runs, Supervise(r), ~RefuseLaunch(r), ~Kill(r)
      PROVE  UNCHANGED killed
  BY <1>3 DEF Supervise, execVars, Admit, Reject, Begin, RecordAttempt, Launch, CannotLaunch, PlanOnly,
     Collect, NextStep, Retry, Conclude, BeginWait, StopRetrying, TryAgain, RecordEnd, Close, Move
<1>4. ASSUME NEW r \in Runs, Abandon(r) \/ CancelByCommand(r) \/ \E d \in Daemons : CancelOverRpc(d, r)
      PROVE  UNCHANGED killed
  BY <1>4 DEF Abandon, Move, CancelByCommand, CancelOverRpc, execVars
<1>5. ASSUME NEW d \in Daemons, DaemonStep(d) \/ StopDaemon(d)
      PROVE  UNCHANGED killed
  BY <1>5 DEF DaemonStep, StartDaemon, RecoverRow, ReportInterrupted, Serve, StopDaemon, execVars
<1>6. ASSUME NEW p \in Processes, CrashDaemon(p) \/ CrashClient(p)
      PROVE  UNCHANGED killed
  BY <1>6 DEF CrashDaemon, CrashClient, execVars
<1>7. ASSUME NEW p \in Processes, NEW a \in Automations, NEW r \in Runs, Register(p, a, r)
      PROVE  UNCHANGED killed
  BY <1>7 DEF Register, execVars
<1> QED
  BY <1>1, <1>2, <1>3, <1>4, <1>5, <1>6, <1>7 DEF Next, Processes, vars, execVars

\* When no step is run by an integration: a run that an executor gave up for its
\* cancellation is recorded as cancelled, whoever recovers or crashes meanwhile.  A
\* timeout that came with the cancellation, an answer of a Responses request and an exit
\* collected before it are not such runs: they keep their own status.
THEOREM CancellationIsRecorded == ReportCancellation => (Spec => []CancelIsRecorded)
<1> SUFFICES ASSUME ReportCancellation PROVE Spec => []CancelIsRecorded
  OBVIOUS
<1>1. Init => KilledAreCancelled
  BY DEF Init, KilledAreCancelled
<1>2. AdmissionInv /\ DecidedRunsEnd /\ KilledAreCancelled /\ [Next]_vars => KilledAreCancelled'
  BY KilledStep
<1>3. AdmissionInv /\ VerdictInv /\ KilledAreCancelled => CancelIsRecorded
  BY DEF AdmissionInv, TypeInv, TypeOK, VerdictInv, RowIsTheResult, KilledAreCancelled, CancelIsRecorded
<1> QED
  BY <1>1, <1>2, <1>3, AdmissionInvariant, DecidedInvariant, VerdictInvariant, PTL DEF Spec

-----------------------------------------------------------------------------
(***************************************************************************)
(* One daemon and no other supervising process.  The theorems of this      *)
(* section fail without that assumption: the recovery of a second process  *)
(* takes live runs for orphans (RunLifecycle_overlap.cfg).                 *)
(***************************************************************************)
OneDaemon == Clients = {} /\ \A d, e \in Daemons : d = e

\* While the only daemon recovers it supervises nothing, ...
ActiveIsServed ==
  \A r \in Runs :
    Active(r) => supervisor[r] \in Daemons /\ phase[supervisor[r]] = "serving"

\* ... so that nobody but its supervision touches the row of a run in progress,
UnsettledIsRunning == \A r \in Runs : pc[r] \in Unsettled => row[r] = "running"

\* ... or the row of a run whose final event is still to be recorded.
ClosingIsRecorded == \A r \in Runs : pc[r] = "closing" => row[r] = result[r]

\* A row whose run.interrupted event is still to be appended stays as recovered.
UnreportedIsInterrupted ==
  \A d \in Daemons : \A r \in unreported[d] : row[r] = "interrupted"

SoleInv ==
  /\ AdmissionInv
  /\ ActiveIsServed
  /\ UnsettledIsRunning
  /\ ClosingIsRecorded
  /\ EventsAgreeWithRow
  /\ UnreportedIsInterrupted

LEMMA SuperviseFrame ==
  ASSUME NEW r \in Runs, Supervise(r) \/ Abandon(r)
  PROVE  UNCHANGED <<phase, supervisor, unreported>>
<1> USE DEF restVars, cancelVars, processVars, originVars
<1>1. CASE Admit(r) \/ Begin(r) \/ NextStep(r) \/ StopRetrying(r) \/ TryAgain(r)
           \/ RecordEnd(r) \/ Close(r)
  BY <1>1 DEF Admit, Begin, NextStep, StopRetrying, TryAgain, RecordEnd, Close
<1>2. CASE Reject(r) \/ RecordAttempt(r) \/ Launch(r) \/ Retry(r) \/ Conclude(r)
           \/ BeginWait(r) \/ Abandon(r)
  BY <1>2 DEF Reject, RecordAttempt, Launch, Retry, Conclude, BeginWait, Abandon, Move
<1>3. CASE RefuseLaunch(r) \/ CannotLaunch(r) \/ PlanOnly(r) \/ Kill(r)
  BY <1>3 DEF RefuseLaunch, CannotLaunch, PlanOnly, Kill, EndAttempt
<1>4. ASSUME NEW ending, Collect(r, ending) PROVE UNCHANGED <<phase, supervisor, unreported>>
  BY <1>4 DEF Collect, EndAttempt
<1> QED
  BY <1>1, <1>2, <1>3, <1>4 DEF Supervise

LEMMA ActiveStaysInside ==
  ASSUME TypeInv, NEW r \in Runs, Supervise(r) \/ Abandon(r), NEW s \in Runs, Active(s)'
  PROVE  Active(s)
<1>1. CASE Abandon(r)
  BY <1>1 DEF Abandon, Move, Goto, Active, Supervised, Unsettled, TypeInv, TypeOK
<1>2. CASE Quiet
  BY <1>2 DEF Quiet, Active, Supervised, Unsettled
<1>3. CASE Admit(r) \/ RecordEnd(r) \/ Close(r)
  BY <1>3 DEF Admit, RecordEnd, Close, Goto, Active, Supervised, Unsettled, TypeInv, TypeOK
<1> QED
  BY <1>1, <1>2, <1>3, SuperviseRows

LEMMA ServedStep ==
  ASSUME OneDaemon, TypeInv, ActiveIsServed, [Next]_vars
  PROVE  ActiveIsServed'
<1> TypeOK
  BY DEF TypeInv
<1> USE DEF execVars, cancelVars, processVars, originVars, recordVars
<1>1. ASSUME NEW p \in Processes, NEW a \in Automations, NEW r \in Runs, Register(p, a, r)
      PROVE  ActiveIsServed'
  BY <1>1 DEF Register, MayStart, Goto, OneDaemon, ActiveIsServed, Active, TypeOK
<1>2. ASSUME NEW r \in Runs, Supervise(r) \/ Abandon(r)
      PROVE  ActiveIsServed'
  BY <1>2, SuperviseFrame, ActiveStaysInside DEF ActiveIsServed
<1>3. ASSUME NEW r \in Runs, CancelByCommand(r) \/ \E d \in Daemons : CancelOverRpc(d, r)
      PROVE  ActiveIsServed'
  BY <1>3 DEF CancelByCommand, CancelOverRpc, ActiveIsServed, Active
<1>4. ASSUME NEW d \in Daemons, NEW r \in Runs, ReportInterrupted(d, r)
      PROVE  ActiveIsServed'
  BY <1>4 DEF ReportInterrupted, ActiveIsServed, Active
<1>5. ASSUME NEW d \in Daemons, StartDaemon(d) \/ Serve(d) \/ \E r \in Runs : RecoverRow(d, r)
      PROVE  ActiveIsServed'
  <2>1. phase[d] # "serving"
    BY <1>5 DEF StartDaemon, Serve, RecoverRow
  <2>2. \A r \in Runs : ~Active(r)
    BY <2>1 DEF OneDaemon, ActiveIsServed
  <2>3. UNCHANGED pc
    BY <1>5 DEF StartDaemon, Serve, RecoverRow
  <2> QED
    BY <2>2, <2>3 DEF ActiveIsServed, Active
<1>6. ASSUME NEW d \in Daemons, StopDaemon(d) \/ CrashDaemon(d)
      PROVE  ActiveIsServed'
  <2>1. \A r \in Runs : Active(r) => r \in ActiveRuns(d)
    BY DEF OneDaemon, ActiveIsServed, ActiveRuns
  <2>2. \A r \in Runs : ~Active(r)'
    BY <1>6, <2>1 DEF StopDaemon, CrashDaemon, Lose, Active, Supervised, Unsettled
  <2> QED
    BY <1>6, <2>2 DEF StopDaemon, CrashDaemon, ActiveIsServed
<1>7. ASSUME NEW c \in Clients, CrashClient(c) PROVE FALSE
  BY DEF OneDaemon
<1>8. CASE UNCHANGED vars
  BY <1>8 DEF vars, restVars, ActiveIsServed, Active
<1> QED
  BY <1>1, <1>2, <1>3, <1>4, <1>5, <1>6, <1>7, <1>8 DEF Next, DaemonStep

LEMMA UnreportedStep ==
  ASSUME SoleInv, [Next]_vars
  PROVE  UnreportedIsInterrupted'
<1> /\ TypeOK /\ TypeInv /\ NoRowBeforeAdmission /\ UnsettledIsRunning /\ UnreportedIsInterrupted
  BY DEF SoleInv, AdmissionInv, TypeInv
<1>1. ASSUME UNCHANGED row, \A d \in Daemons : unreported'[d] \subseteq unreported[d]
      PROVE  UnreportedIsInterrupted'
  BY <1>1 DEF UnreportedIsInterrupted
<1>2. ASSUME NEW p \in Processes, NEW a \in Automations, NEW r \in Runs, Register(p, a, r)
      PROVE  UNCHANGED <<row, unreported>>
  BY <1>2 DEF Register, processVars, recordVars
<1>3. ASSUME NEW r \in Runs, Admit(r) \/ RecordEnd(r)
      PROVE  UnreportedIsInterrupted'
  <2>1. row[r] # "interrupted"
    BY <1>3 DEF Admit, RecordEnd, NoRowBeforeAdmission, UnsettledIsRunning, Unsettled
  <2>2. UNCHANGED unreported /\ \A s \in Runs \ {r} : row'[s] = row[s]
    BY <1>3 DEF Admit, RecordEnd, restVars, processVars, TypeOK
  <2> QED
    BY <2>1, <2>2 DEF UnreportedIsInterrupted, TypeOK
<1>4. ASSUME NEW r \in Runs, Close(r)
      PROVE  UNCHANGED <<row, unreported>>
  BY <1>4 DEF Close, restVars, processVars
<1>5. ASSUME NEW d \in Daemons, NEW r \in Runs, RecoverRow(d, r) \/ ReportInterrupted(d, r)
      PROVE  UnreportedIsInterrupted'
  <2>1. CASE row[r] = "running" /\ RecoverRow(d, r)
    <3>1. \A s \in Runs : row[s] = "interrupted" => row'[s] = "interrupted"
      BY <2>1 DEF RecoverRow, TypeOK
    <3>2. row'[r] = "interrupted" /\ \A e \in Daemons : unreported'[e] \subseteq unreported[e] \cup {r}
      BY <2>1 DEF RecoverRow, TypeOK
    <3> QED
      BY <3>1, <3>2 DEF UnreportedIsInterrupted, TypeOK
  <2>2. CASE row[r] # "running" /\ RecoverRow(d, r)
    BY <2>2 DEF RecoverRow, UnreportedIsInterrupted
  <2>3. CASE ReportInterrupted(d, r)
    BY <2>3 DEF ReportInterrupted, UnreportedIsInterrupted, TypeOK
  <2> QED
    BY <1>5, <2>1, <2>2, <2>3
<1> QED
  BY <1>1, <1>2, <1>3, <1>4, <1>5, RowsOfStep DEF Quiet

LEMMA SoleStep ==
  ASSUME OneDaemon, SoleInv, [Next]_vars
  PROVE  SoleInv'
<1> DEFINE Consistent == UnsettledIsRunning /\ ClosingIsRecorded /\ EventsAgreeWithRow
<1> SUFFICES Consistent'
  BY AdmissionStep, ServedStep, UnreportedStep DEF SoleInv, AdmissionInv
<1> /\ TypeOK /\ AdmissionInv /\ TypeInv /\ NoRowBeforeAdmission
    /\ ActiveIsServed /\ UnsettledIsRunning /\ ClosingIsRecorded /\ EventsAgreeWithRow
    /\ UnreportedIsInterrupted
  BY DEF SoleInv, AdmissionInv, TypeInv
<1> USE DEF UnsettledIsRunning, ClosingIsRecorded, EventsAgreeWithRow, TypeOK
<1>1. CASE Quiet
  BY <1>1 DEF Quiet, Unsettled
<1>2. ASSUME NEW p \in Processes, NEW a \in Automations, NEW r \in Runs, Register(p, a, r)
      PROVE  Consistent'
  BY <1>2 DEF Register, Goto, Unsettled, recordVars, execVars
<1>3. ASSUME NEW r \in Runs, Admit(r)
      PROVE  Consistent'
  <2>1. ended[r] = {}
    BY <1>3 DEF Admit, NoRowBeforeAdmission, Settled, AttemptStatus
  <2> QED
    BY <1>3, <2>1 DEF Admit, Goto, Unsettled, execVars
<1>4. ASSUME NEW r \in Runs, RecordEnd(r)
      PROVE  Consistent'
  <2>1. ended[r] = {}
    BY <1>4 DEF RecordEnd, Unsettled, Settled, AttemptStatus
  <2> QED
    BY <1>4, <2>1 DEF RecordEnd, Goto, Unsettled, execVars
<1>5. ASSUME NEW r \in Runs, Close(r)
      PROVE  Consistent'
  BY <1>5 DEF Close, Goto, Unsettled, execVars
<1>6. ASSUME NEW d \in Daemons, NEW r \in Runs, RecoverRow(d, r)
      PROVE  Consistent'
  <2>1. \A s \in Runs : ~Active(s)
    BY <1>6 DEF RecoverRow, OneDaemon, ActiveIsServed
  <2>2. UNCHANGED <<pc, ended, result>>
    BY <1>6 DEF RecoverRow, execVars
  <2>3. \A s \in Runs : row'[s] = row[s] \/ row[s] = "running"
    BY <1>6 DEF RecoverRow
  <2>4. \A s \in Runs : row[s] = "running" => ended[s] = {}
    <3>1. "running" \notin Settled /\ \A s \in Runs : ended[s] \subseteq Settled
      BY DEF Settled, AttemptStatus
    <3> QED
      BY <3>1
  <2> QED
    BY <2>1, <2>2, <2>3, <2>4 DEF Active, Supervised, Unsettled
<1>7. ASSUME NEW d \in Daemons, NEW r \in Runs, ReportInterrupted(d, r)
      PROVE  Consistent'
  BY <1>7 DEF ReportInterrupted, UnreportedIsInterrupted, Unsettled, execVars
<1> QED
  BY <1>1, <1>2, <1>3, <1>4, <1>5, <1>6, <1>7, RowsOfStep

LEMMA SoleInvariant == OneDaemon => (Spec => []SoleInv)
<1> SUFFICES ASSUME OneDaemon PROVE Spec => []SoleInv
  OBVIOUS
<1>1. Init => SoleInv
  BY InitType DEF Init, SoleInv, AdmissionInv, NoRowBeforeAdmission,
     RegisteredForAnAutomation, OneRunningRow, ActiveIsServed,
     UnsettledIsRunning, ClosingIsRecorded, EventsAgreeWithRow, UnreportedIsInterrupted,
     Active, Supervised, Unsettled
<1>2. SoleInv /\ [Next]_vars => SoleInv'
  BY SoleStep
<1> QED
  BY <1>1, <1>2, PTL DEF Spec

\* Under one daemon, whatever crashes and fails, at most one run of an automation
\* that forbids overlap is between its INSERT and its final UPDATE.
THEOREM SupervisionNeverOverlaps == OneDaemon => (Spec => []NoOverlap)
<1> SUFFICES ASSUME OneDaemon PROVE Spec => []NoOverlap
  OBVIOUS
<1>1. SoleInv => NoOverlap
  BY DEF SoleInv, AdmissionInv, UnsettledIsRunning, OneRunningRow, NoOverlap
<1> QED
  BY <1>1, SoleInvariant, PTL

\* Under one daemon the event log never reports an end that the row contradicts.
THEOREM EventsFollowTheRow == OneDaemon => (Spec => []EventsAgreeWithRow)
<1> SUFFICES ASSUME OneDaemon PROVE Spec => []EventsAgreeWithRow
  OBVIOUS
<1>1. SoleInv => EventsAgreeWithRow
  BY DEF SoleInv
<1> QED
  BY <1>1, SoleInvariant, PTL

\* A daemon that recovers has still to visit every row that is left running.
RunningIsSelected ==
  \A d \in Daemons, r \in Runs :
    phase[d] = "recovering" /\ row[r] = "running" => r \in toRecover[d]

LEMMA SelectedStep ==
  ASSUME OneDaemon, SoleInv, RunningIsSelected, [Next]_vars
  PROVE  RunningIsSelected'
<1>0. TypeInv /\ TypeOK /\ ActiveIsServed
  BY DEF SoleInv, AdmissionInv, TypeInv
<1> USE DEF processVars
<1>1. ASSUME NEW r \in Runs, Supervise(r) \/ Abandon(r)
      PROVE  RunningIsSelected'
  <2>1. Active(r)
    BY <1>1 DEF Active, Supervised, Unsettled, Supervise, Abandon, Admit, Reject, Begin, RecordAttempt,
       Launch, RefuseLaunch, CannotLaunch, PlanOnly, Collect, Kill, NextStep, Retry, Conclude,
       BeginWait, StopRetrying, TryAgain, RecordEnd, Close, Move, EndAttempt
  <2>2. \A d \in Daemons : phase[d] = "serving"
    BY <1>0, <2>1 DEF ActiveIsServed, OneDaemon
  <2>3. UNCHANGED phase
    BY <1>1, SuperviseFrame
  <2> QED
    BY <2>2, <2>3 DEF RunningIsSelected
<1>2. ASSUME NEW d \in Daemons, StartDaemon(d)
      PROVE  RunningIsSelected'
  BY <1>0, <1>2 DEF StartDaemon, recordVars, OneDaemon, RunningIsSelected, TypeOK
<1>3. ASSUME NEW d \in Daemons, NEW r \in Runs, RecoverRow(d, r)
      PROVE  RunningIsSelected'
  BY <1>0, <1>3 DEF RecoverRow, recordVars, OneDaemon, RunningIsSelected, TypeOK
<1>4. ASSUME NEW d \in Daemons, Serve(d) \/ StopDaemon(d) \/ CrashDaemon(d)
      PROVE  RunningIsSelected'
  BY <1>0, <1>4 DEF Serve, StopDaemon, CrashDaemon, OneDaemon, RunningIsSelected, TypeOK
<1>5. CASE UNCHANGED <<row, phase, toRecover>>
  BY <1>5 DEF RunningIsSelected
<1>6. ASSUME NEW p \in Processes, NEW a \in Automations, NEW r \in Runs, Register(p, a, r)
      PROVE  UNCHANGED <<row, phase, toRecover>>
  BY <1>6 DEF Register, recordVars
<1>7. ASSUME NEW r \in Runs, CancelByCommand(r) \/ \E d \in Daemons : CancelOverRpc(d, r)
      PROVE  UNCHANGED <<row, phase, toRecover>>
  BY <1>7 DEF CancelByCommand, CancelOverRpc, recordVars
<1>8. ASSUME NEW c \in Clients, CrashClient(c) PROVE FALSE
  BY DEF OneDaemon
<1>9. ASSUME NEW d \in Daemons, NEW r \in Runs, ReportInterrupted(d, r)
      PROVE  UNCHANGED <<row, phase, toRecover>>
  BY <1>9 DEF ReportInterrupted
<1> QED
  BY <1>1, <1>2, <1>3, <1>4, <1>5, <1>6, <1>7, <1>8, <1>9
     DEF Next, DaemonStep, vars, restVars, recordVars

\* Under one daemon the recovery that precedes its service (recover_running_runs) leaves
\* no row running: none that a crash stranded blocks its automation.
THEOREM RecoveryIsComplete == OneDaemon => (Spec => RecoveryLeavesNoStrandedRow)
<1> SUFFICES ASSUME OneDaemon PROVE Spec => RecoveryLeavesNoStrandedRow
  OBVIOUS
<1>1. Init => RunningIsSelected
  BY DEF Init, RunningIsSelected
<1>2. SoleInv /\ RunningIsSelected /\ [Next]_vars => RunningIsSelected'
  BY SelectedStep
<1>3. SoleInv /\ RunningIsSelected /\ [Next]_vars =>
        [\A d \in Daemons :
           phase[d] = "recovering" /\ phase'[d] = "serving" =>
             \A r \in Runs : row'[r] = "running" => pc'[r] \in Unsettled]_vars
  <2> SUFFICES ASSUME SoleInv, RunningIsSelected, [Next]_vars, NEW d \in Daemons,
                      phase[d] = "recovering", phase'[d] = "serving",
                      NEW r \in Runs, row'[r] = "running"
               PROVE  FALSE
    OBVIOUS
  <2>1. TypeOK
    BY DEF SoleInv, AdmissionInv, TypeInv
  <2>2. phase'[d] # phase[d]
    OBVIOUS
  <2>3. ASSUME NEW e \in Daemons, StartDaemon(e) \/ StopDaemon(e) \/ CrashDaemon(e)
        PROVE  phase'[d] = "recovering" \/ phase'[d] = "down" \/ phase'[d] = phase[d]
    BY <2>1, <2>3 DEF StartDaemon, StopDaemon, CrashDaemon, TypeOK
  <2>4. ASSUME NEW e \in Daemons, Serve(e)
        PROVE  d = e /\ toRecover[d] = {} /\ row'[r] = row[r]
    BY <2>1, <2>4 DEF Serve, Recovered, recordVars, OneDaemon
  <2>5. ASSUME NEW s \in Runs, Supervise(s) \/ Abandon(s)
        PROVE  UNCHANGED phase
    BY <2>5, SuperviseFrame
  <2>6. ASSUME NEW p \in Processes, NEW a \in Automations, NEW s \in Runs, Register(p, a, s)
        PROVE  UNCHANGED phase
    BY <2>6 DEF Register, processVars
  <2>7. ASSUME NEW s \in Runs,
               \/ CancelByCommand(s)
               \/ \E e \in Daemons : \/ CancelOverRpc(e, s) \/ RecoverRow(e, s)
                                     \/ ReportInterrupted(e, s)
        PROVE  UNCHANGED phase
    BY <2>7 DEF CancelByCommand, CancelOverRpc, RecoverRow, ReportInterrupted, processVars
  <2>8. ASSUME NEW c \in Clients, CrashClient(c)
        PROVE  UNCHANGED phase
    BY <2>8 DEF CrashClient
  <2>9. UNCHANGED vars => UNCHANGED phase
    BY DEF vars, restVars, processVars
  <2> QED
    BY <2>2, <2>3, <2>4, <2>5, <2>6, <2>7, <2>8, <2>9 DEF Next, DaemonStep, RunningIsSelected
<1> QED
  BY <1>1, <1>2, <1>3, SoleInvariant, PTL DEF Spec, RecoveryLeavesNoStrandedRow

-----------------------------------------------------------------------------
(***************************************************************************)
(* The rows implement the ledger.                                          *)
(***************************************************************************)

LEMMA LedgerInit == Init => Ledger!Init
  BY DEF Init, Ledger!Init, OwnerInHistory

LEMMA LedgerStutter ==
  ASSUME TypeOK, UNCHANGED row,
         \A r \in Runs : row[r] # "absent" => automationOf'[r] = automationOf[r]
  PROVE  UNCHANGED Ledger!vars
  BY DEF OwnerInHistory, Ledger!vars

LEMMA LedgerStart ==
  ASSUME AdmissionInv, NEW r \in Runs, Admit(r)
  PROVE  Ledger!Start(r, automationOf[r])
<1> USE DEF AdmissionInv, TypeInv, TypeOK, Admit, restVars, originVars
<1>1. row[r] = "absent"
  BY DEF NoRowBeforeAdmission
<1>2. automationOf[r] \in Exclusive => Ledger!InProgress(automationOf[r]) = {}
  BY DEF MayAdmit, RunningRows, Ledger!InProgress, OwnerInHistory
<1>3. OwnerInHistory' = [OwnerInHistory EXCEPT ![r] = automationOf[r]]
  BY <1>1 DEF OwnerInHistory
<1> QED
  BY <1>1, <1>2, <1>3 DEF Ledger!Start

LEMMA LedgerSettle ==
  ASSUME TypeOK, NEW r \in Runs, NEW outcome \in Settled, row[r] = "running",
         row' = [row EXCEPT ![r] = outcome], UNCHANGED automationOf
  PROVE  Ledger!Settle(r, outcome)
<1>1. OwnerInHistory' = OwnerInHistory
  BY DEF OwnerInHistory, TypeOK, Settled, AttemptStatus
<1> QED
  BY <1>1 DEF Ledger!Settle

LEMMA LedgerStep ==
  ASSUME SoleInv, [Next]_vars
  PROVE  [Ledger!Next]_(Ledger!vars)
<1> /\ TypeInv /\ TypeOK /\ AdmissionInv /\ UnsettledIsRunning
  BY DEF SoleInv, AdmissionInv, TypeInv
<1> USE DEF restVars, originVars, recordVars, execVars
<1>1. CASE Quiet
  BY <1>1, LedgerStutter DEF Quiet
<1>2. ASSUME NEW p \in Processes, NEW a \in Automations, NEW r \in Runs, Register(p, a, r)
      PROVE  UNCHANGED Ledger!vars
  <2>1. row[r] = "absent"
    BY <1>2 DEF Register, AdmissionInv, NoRowBeforeAdmission
  <2> QED
    BY <1>2, <2>1, LedgerStutter DEF Register, TypeOK
<1>3. ASSUME NEW r \in Runs, Admit(r) PROVE Ledger!Next
  <2>1. automationOf[r] \in Automations
    BY <1>3 DEF AdmissionInv, RegisteredForAnAutomation, Admit
  <2> QED
    BY <1>3, <2>1, LedgerStart DEF Ledger!Next
<1>4. ASSUME NEW r \in Runs, RecordEnd(r) PROVE Ledger!Next
  <2>1. row[r] = "running" /\ result[r] \in Settled
    BY <1>4 DEF RecordEnd, UnsettledIsRunning, Unsettled, TypeInv, ResultIsKnown, Judged, Settled
  <2> QED
    BY <1>4, <2>1, LedgerSettle DEF RecordEnd, Ledger!Next
<1>5. ASSUME NEW r \in Runs, Close(r) PROVE UNCHANGED Ledger!vars
  BY <1>5, LedgerStutter DEF Close
<1>6. ASSUME NEW d \in Daemons, NEW r \in Runs, RecoverRow(d, r)
      PROVE  [Ledger!Next]_(Ledger!vars)
  <2>1. CASE row[r] = "running"
    BY <1>6, <2>1, LedgerSettle DEF RecoverRow, Settled, Ledger!Next
  <2>2. CASE row[r] # "running"
    BY <1>6, <2>2, LedgerStutter DEF RecoverRow
  <2> QED
    BY <2>1, <2>2
<1>7. ASSUME NEW d \in Daemons, NEW r \in Runs, ReportInterrupted(d, r)
      PROVE  UNCHANGED Ledger!vars
  BY <1>7, LedgerStutter DEF ReportInterrupted
<1> QED
  BY <1>1, <1>2, <1>3, <1>4, <1>5, <1>6, <1>7, RowsOfStep

\* Under one daemon the run history is a ledger: a run is started once, within
\* the overlap policy, and settled once, for good.
THEOREM HistoryIsALedger == OneDaemon => (Spec => ImplementsLedger)
<1> SUFFICES ASSUME OneDaemon PROVE Spec => ImplementsLedger
  OBVIOUS
<1> QED
  BY LedgerInit, LedgerStep, SoleInvariant, PTL DEF Spec, ImplementsLedger, Ledger!Spec
=============================================================================
