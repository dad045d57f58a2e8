SPECIFICATION Spec
CONSTANTS
  None = None
  Threads = {t1}
  PortalType = "Document"
  Metadata <- MCMetadata
  CallerSnapshots <- MCCallerSnapshots
  Forms <- MCForms
  BaselineLimit = 2
  MaxClock = 1
  MaxCommits = 2
  MaxRows = 3
  MaxCalls = 2
INVARIANTS
  TypeOK
  LoggedAsNotified
  LastSnapshotIsContent
  ChangesConnect
CHECK_DEADLOCK FALSE
