\* The executor lane: ceilings, routes, reviews and the promise it implements.
SPECIFICATION Spec
CONSTANTS
  any = any
  bound = bound
  f1 = f1
  f2 = f2
  s1 = s1
  s2 = s2
  k1 = k1
  k2 = k2
  NoBackend = none
  Backends <- MCBackends
  Enabled <- MCBackends
  BoundRoles <- MCBoundRoles
  ModelRoles <- MCModelRoles
  Priority <- MCPriority
  DeclaredAt <- MCDeclaredAt
  Contracts <- MCContracts
  Files = {f1, f2}
  Sensitive = {f1}
  Signatures = {s1, s2}
  RecordKeys = {k1, k2}
  SharesModel = {any}
INVARIANTS
  LaneIsAccounted
  AttemptIsAsPlanned
  NoOpRetryStillReviewed
PROPERTIES
  NothingForgotten
  TurnEnds
  ImplementsPromise
