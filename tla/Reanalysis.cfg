CONSTANTS
  Analyser = {"decoder", "checker"}
  MaxPlace = 2
  ChangeKind = {"bytes", "problems", "spaces", "resync"}
  Retracting = {"bytes"}
  Tracked = {"bytes", "problems", "resync"}
  Resync = "resync"
  Triggers <- Triggered
  Produces <- Produced
  Cancellable = {"decoder"}
  MaxAttempts = 2
  Commits <- MixedCommits
  Requests <- ByteRequests
  ReadChoices <- MixedReads
  Outside = Outside
  MaxRevision = 2
SPECIFICATION RoutingSpec
INVARIANTS UpToDate TriggersServed
CHECK_DEADLOCK FALSE
