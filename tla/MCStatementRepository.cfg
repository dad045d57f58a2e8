SPECIFICATION Spec
CONSTANTS
  e1 = e1
  e2 = e2
  e3 = e3
  p1 = p1
  p2 = p2
  EventIds = {e1, e2, e3}
  Bodies = {"text", "float", "integer"}
  Times = {0}
  ObjectUids = {"own"}
  ObjectUid = "own"
  Actors = {"admin"}
  HoldIds = {"h1"}
  PreviewIds = {p1, p2}
  Policies <- MCPolicies
  DefaultPolicy <- MCDefaultPolicy
  PreviewTTL = 1
  None = None
  Jsonb <- MCJsonb
  Offered <- MCOffered
  MaxJournal = 2
SYMMETRY MCSymmetry
INVARIANTS
  LeftoverVerifies
  AnsweredIsKept
  PostgresKeepsDeletions
PROPERTIES
  AnswerMeansWholeList
