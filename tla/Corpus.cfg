\* One repository: sessions that are recorded and qualified, transcripts that
\* would be imported, a text that is redacted.
SPECIFICATION Spec
CONSTANTS
  s1 = s1
  s2 = s2
  s3 = s3
  f1 = f1
  f2 = f2
  f3 = f3
  nothing = nothing
  Session <- MCSession
  Order <- MCOrder
  Nothing <- nothing
  Inputs <- MCInputs
  Scenario <- MCScenario
  MaxTrajectoryBytes = 7
  InputLimit = 8
  MaxExtensions = 1
  Transcript <- MCTranscript
  PathOrder <- MCPathOrder
  Subagents = {f3}
  Records <- MCRecords
  MaxLines = 2
  MaxRecords = 3
  MaxScans = 1
  MaxFieldBytes = 2
  MinRun = 1
  Marker <- MCMarker
  Alias <- MCAlias
INVARIANTS
  TypeOK
  RedactionSound
  ActiveIsWorkingTime
  QualifyingDistinct
  ImportUnambiguous
\* The bounds end every behaviour.
CHECK_DEADLOCK FALSE
