\* A crontab, where an adopted entry becomes a comment.
SPECIFICATION Spec
CONSTANTS
  Sources = {s1}
  d1 = d1
  d2 = d2
  d3 = d3
  Definitions <- MCDefinitions
  Opaque = {d3}
  Listed = Listed
  WhenOff <- OfCrontab
  Scanners = {daemon, command}
  Daemon = daemon
  Operators = {o1}
  Answers = {"all"}
  Patient = TRUE
  Faults <- BetweenSources
  MaxMoves = 3
  None = None
PROPERTY
  NoFalseAlarm
CHECK_DEADLOCK FALSE
