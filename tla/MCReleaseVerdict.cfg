SPECIFICATION Spec
CONSTANTS
  Absent = Absent
  Object = Object
  NoFile = NoFile
  Garbled = Garbled
  Refused = Refused
  Idle = Idle
  Edits <- MCEdits
CHECK_DEADLOCK FALSE
INVARIANT StatusMatchesOutcomes
