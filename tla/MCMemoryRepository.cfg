SPECIFICATION Spec
CONSTANTS
  e1 = e1
  e2 = e2
  e3 = e3
  p1 = p1
  p2 = p2
  EventIds = {e1, e2, e3}
  Bodies = {"b"}
  Times = {0, 1}
  ObjectUids = {"own", "other"}
  ObjectUid = "own"
  Actors = {"admin"}
  HoldIds = {"h1"}
  PreviewIds = {p1, p2}
  Policies <- MCPolicies
  DefaultPolicy <- MCDefaultPolicy
  PreviewTTL = 1
  None = None
  MaxTime = 2
  MaxJournal = 3
SYMMETRY MCSymmetry
INVARIANTS
  TypeOK
  ChainIntact
  ReplayRecognised
  PreviewReachesPolicy
  JournalMatchesHolds
  OneDeletionPerPreview
  ResealIsTheLoop
PROPERTIES
  ImplementsGovernedLog
