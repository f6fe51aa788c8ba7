\* One daemon that nobody interferes with but persons who run automations.
SPECIFICATION FairSpec
CONSTANTS
  LastInstant = 12
  Never = Never
  Invalid = Invalid
  Absent = Absent
  a1 = a1
  a2 = a2
  Order <- MCOrder
  TriggerOf <- MCTriggerOf
  MisfireOf <- MCMisfireOf
  MaxAgeOf <- MCMaxAgeOf
  FirstKind = "every2"
  FirstMisfire = "run_once"
  SecondKind = "cron"
  SecondMisfire = "catch_up"
  FirstMaxAge = Never
  Exclusive = {a2}
  Unscheduled = {}
  FromNative = {}
  RunByHand = {a1}
  Daemons = {d1}
  Operators = {}
  Intents = {}
  MaxClock = 7
  MaxCrashes = 0
INVARIANTS
  TickRunsOnce
  OnlyOccurrencesRun
  CatchUpLosesNothing
PROPERTY
  ScheduledAutomationRuns
