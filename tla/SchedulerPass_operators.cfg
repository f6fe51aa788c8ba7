\* A daemon that may crash while an operator changes rows, up to the last date.
SPECIFICATION Spec
CONSTANTS
  LastInstant = 5
  Never = Never
  Invalid = Invalid
  Absent = Absent
  a1 = a1
  a2 = a2
  Order <- MCOrder
  TriggerOf <- MCTriggerOf
  MisfireOf <- MCMisfireOf
  MaxAgeOf <- MCMaxAgeOf
  FirstKind = "every2"
  FirstMisfire = "skip"
  SecondKind = "every2"
  SecondMisfire = "catch_up"
  FirstMaxAge = 1
  Exclusive = {a1, a2}
  Unscheduled = {a1}
  FromNative = {a1}
  RunByHand = {a2}
  Daemons = {d1}
  Operators = {o1}
  Intents = {"pause", "resume", "attention", "acknowledge", "release", "delete"}
  MaxClock = 4
  MaxCrashes = 1
INVARIANT
  CatchUpLosesNothing
