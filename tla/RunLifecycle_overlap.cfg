\* ADR 0016: no entry point can bypass forbid_overlap.
SPECIFICATION Spec
CONSTANTS
  Runs = {r1, r2}
  a1 = a1
  a2 = a2
  Automations <- MCAutomations
  Exclusive = {a1}
  ExecutorOf <- MCExecutorOf
  KindOfFirst = "command"
  KindOfSecond = "command"
  NumSteps = 1
  MaxAttempts = 1
  Daemons = {d1}
  Clients = {c1}
  StorageFaults = FALSE
  MaxCrashes = 0
  Nobody = Nobody
INVARIANT
  NoOverlap
