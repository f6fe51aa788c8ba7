\* ADR 0017: pause and resume change the state of the local scheduler.
SPECIFICATION Spec
CONSTANTS
  LastInstant = 12
  Never = Never
  Invalid = Invalid
  Absent = Absent
  a1 = a1
  a2 = a2
  Order <- MCOrder
  TriggerOf <- MCTriggerOf
  MisfireOf <- MCMisfireOf
  MaxAgeOf <- MCMaxAgeOf
  FirstKind = "every2"
  FirstMisfire = "run_once"
  SecondKind = "cron"
  SecondMisfire = "catch_up"
  FirstMaxAge = Never
  Exclusive = {a1, a2}
  Unscheduled = {}
  FromNative = {}
  RunByHand = {}
  Daemons = {d1}
  Operators = {o1}
  Intents = {"pause"}
  MaxClock = 3
  MaxCrashes = 0
INVARIANT
  PauseIsKept
