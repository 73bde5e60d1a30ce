SPECIFICATION Spec
CONSTANTS
  Absent = Absent
  Object = Object
  NoFile = NoFile
  Garbled = Garbled
  Refused = Refused
  Idle = Idle
  Edits <- MCEdits
CHECK_DEADLOCK FALSE
INVARIANTS
  TypeOK
  ValidatedIsOneRun
  AdmittedIsProvable
  AdmittedIsOneRun
  HonestRunValidates
  LegacyAgrees
  ReplayIsCurrent
