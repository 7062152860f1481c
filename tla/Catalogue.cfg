\* One database: processes that open and migrate it, exports to one directory,
\* the records of a capability.
SPECIFICATION Spec
CONSTANTS
  a = a
  b = b
  c = c
  deploy = deploy
  Process <- MCProcess
  Newest = 3
  Earlier = Earlier
  Record <- MCRecord
  Body <- MCBody
  Name = {deploy}
  NoRecord = 0
  Exported = 1
  Foreign = 99
  Scenario <- MCScenario
INVARIANTS
  TypeOK
  PrivateBeforeWritten
  SchemaCoherent
  EvidenceStands
  ExportWhole
\* Every command ends.
CHECK_DEADLOCK FALSE
