\* A systemd unit: scanners and an operator overlap, the provider fails in part or whole.
SPECIFICATION Spec
CONSTANTS
  Sources = {s1}
  d1 = d1
  d2 = d2
  d3 = d3
  Definitions <- MCDefinitions
  Opaque = {d3}
  Listed = Listed
  WhenOff <- OfUnit
  Scanners = {daemon, command}
  Daemon = daemon
  Operators = {o1}
  Answers = {"all", "list", "nothing"}
  Patient = FALSE
  Faults <- Anywhere
  MaxMoves = 3
  None = None
PROPERTIES
  AlarmsAreExplained
  OnlyStaleCopiesDisown
  ChangeIsNoticed
CHECK_DEADLOCK FALSE
