\* One daemon, no supervising CLI process, crashes and failing Registry calls.
SPECIFICATION Spec
CONSTANTS
  Runs = {r1, r2}
  a1 = a1
  a2 = a2
  Automations <- MCAutomations
  Exclusive = {a1}
  ExecutorOf <- MCExecutorOf
  KindOfFirst = "command"
  KindOfSecond = "responses"
  NumSteps = 2
  MaxAttempts = 2
  Daemons = {d1}
  Clients = {}
  StorageFaults = TRUE
  MaxCrashes = 1
  Nobody = Nobody
SYMMETRY RunSymmetry
INVARIANTS
  TypeOK
  NoOverlap
  CancelStopsWork
  CancelIsRecorded
  SuccessIsComplete
  FailureIsExhausted
  EventsAgreeWithRow
PROPERTIES
  RecoveryLeavesNoStrandedRow
  ImplementsLedger
