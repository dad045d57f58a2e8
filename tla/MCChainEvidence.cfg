SPECIFICATION EvidenceSpec
CONSTANTS
  e1 = e1
  e2 = e2
  e3 = e3
  EventIds = {e1, e2, e3}
  Bodies = {"b"}
  Times = {0}
  ObjectUids = {"own"}
  ObjectUid = "own"
  Actors = {"admin"}
  HoldIds = {"h1"}
  PreviewIds = {"p1"}
  Policies <- MCPolicies
  DefaultPolicy <- MCDefaultPolicy
  PreviewTTL = 1
  None = None
  MaxFaults = 3
  MaxWrites = 5
SYMMETRY MCSymmetry
INVARIANTS
  VerifiedWasWritten
  HeadPinsRows
CHECK_DEADLOCK FALSE
