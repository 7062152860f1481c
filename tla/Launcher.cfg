\* Two launches, two builds, two sessions.
SPECIFICATION Spec
CONSTANTS
  L1 = L1
  L2 = L2
  S1 = S1
  S2 = S2
  B1 = B1
  B2 = B2
  Launch = {L1, L2}
  Build = {B1, B2}
  Session = {S1, S2}
  RotateAt = 1
  MaxFaults = 2
  Scenario <- MCScenario
INVARIANTS
  TypeOK
  VersionsWhole
  ConsumedAccounted
  NoStartAfterEnd
  EarlyEndWithinVersion
  PromptOnce
PROPERTIES
  FoundMarkersDelivered
CHECK_DEADLOCK FALSE
