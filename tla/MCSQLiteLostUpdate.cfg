SPECIFICATION Spec
CONSTANTS
  e1 = e1
  e2 = e2
  p1 = p1
  p2 = p2
  c1 = c1
  c2 = c2
  EventIds = {e1, e2}
  Bodies = {"b"}
  Times = {0}
  ObjectUids = {"own"}
  ObjectUid = "own"
  Actors = {"admin"}
  HoldIds = {"h1"}
  PreviewIds = {p1, p2}
  Policies <- MCPolicies
  DefaultPolicy <- MCDefaultPolicy
  PreviewTTL = 1
  None = None
  Connections = {c1, c2}
  MaxTime = 1
  MaxJournal = 2
SYMMETRY MCSymmetry
INVARIANTS
  LossIsDetected
