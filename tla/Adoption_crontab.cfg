\* ADR 0001: exactly one owner; two entries of one crontab, one operator, no failure.
SPECIFICATION Spec
CONSTANTS
  Sources = {s1, s2}
  Txs = {t1, t2}
  Operators = {o1}
  Units = {}
  Crontab = {s1, s2}
  Patient = TRUE
  Faults = FALSE
  None = None
INVARIANT
  SingleOwner
