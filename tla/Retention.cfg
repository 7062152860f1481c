\* Two commands beside recovery, over two ended sessions and an open one.
SPECIFICATION Spec
CONSTANTS
  A = A
  B = B
  C = C
  Open = Open
  Nothing = Nothing
  Session = {A, B, C}
  IdOrder <- MCIdOrder
  EndedAt <- MCEndedAt
  SessionBytes <- MCSessionBytes
  TrajectoryBytes <- MCTrajectoryBytes
  AnnotationBytes = 1
  Policy <- MCPolicy
  ReferenceKind = {frozen}
  Reason = {x, y}
  AnnotationId = {n1, n2}
  Command = {c1, c2}
  MaxAudit = 2
INVARIANTS
  TypeOK
  RowsResolve
  AuditExplainsHolds
  RevisionsDense
PROPERTIES
  AnnotationsKept
  ProtectedKept
  LimitsMetOrRefused
  OldestAndNoMore
SYMMETRY Interchangeable
CHECK_DEADLOCK FALSE
