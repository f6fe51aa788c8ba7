\* Every input of the functions; every trigger, policy and clock up to the bound; native
\* commands of up to three words.
SPECIFICATION Spec
CONSTANTS
  LastInstant = 6
  Bound = 5
  Never = Never
  Invalid = Invalid
  Unheard = {"unheard_of"}
  MaxWords = 3
  NoCommand = NoCommand
INVARIANTS
  CatchUpReplaysMissed
  BacklogMayBeSplit
  FailsOnUnschedulable
  StatusIsHonest
  HeldIsApprovable
  GatesAgree
  PromotedRunsTheSame
  CompleteMeansAll
