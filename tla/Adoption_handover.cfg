\* A cron entry, an agent and a service, two operators, every failure and crash;
\* three transactions, so that an old one can be rolled back after a newer adoption.
SPECIFICATION Spec
CONSTANTS
  Sources = {s1, s2, s3}
  Txs = {t1, t2, t3}
  Operators = {o1, o2}
  Units = {s3}
  Crontab = {s1}
  Patient = TRUE
  Faults = TRUE
  None = None
SYMMETRY AdoptionSymmetry
INVARIANTS
  SingleOwner
  NoJobIsLost
PROPERTIES
  CommitIsHandover
  RollbackIsComplete
