SPECIFICATION Spec
CONSTANTS
  Requests = {1, 2, 3}
  EventIds <- MCEventIds
  Bodies = {"old", "new"}
  Times <- MCTimes
  ObjectUids = {"own"}
  ObjectUid = "own"
  Actors = {"admin"}
  HoldIds = {"h1"}
  PreviewIds <- MCPreviewIds
  Policies <- MCPolicies
  DefaultPolicy <- MCDefaultPolicy
  PreviewTTL = 1
  None = None
  Workloads <- MCWorkloads
  InitialStore <- MCInitialStore
  MaxAttempts = 2
  EventIdOf <- MCIdOf
  PreviewIdOf <- MCIdOf
  MaxTime = 1
INVARIANTS
  TypeOK
  StoredChainIntact
  LoggedExactlyOnce
  JournaledExactlyOnce
  ConfirmedOnce
  ConflictMeansProgress
PROPERTIES
  ImplementsGovernedLog
  EveryRequestEnds
CHECK_DEADLOCK FALSE
