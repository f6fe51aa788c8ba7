\* A daemon and a CLI process that supervise runs side by side.
SPECIFICATION FairSpec
CONSTANTS
  Runs = {r1, r2}
  a1 = a1
  a2 = a2
  Automations = {a1}
  Exclusive = {a1}
  ExecutorOf <- MCExecutorOf
  KindOfFirst = "integration"
  KindOfSecond = "command"
  NumSteps = 1
  MaxAttempts = 2
  Daemons = {d1}
  Clients = {c1}
  StorageFaults = FALSE
  MaxCrashes = 1
  Nobody = Nobody
INVARIANT
  OneRunningRow
PROPERTIES
  EveryRunSettles
  VerdictIsFinal
