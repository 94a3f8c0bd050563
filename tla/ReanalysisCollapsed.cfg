CONSTANTS
  Analyser = {"decoder", "checker"}
  MaxPlace = 2
  ChangeKind = {"bytes", "problems", "spaces", "resync"}
  Retracting = {"bytes"}
  Tracked = {"bytes", "problems", "resync"}
  Resync = "resync"
  Triggers <- Triggered
  Produces <- Produced
  Cancellable = {"decoder"}
  MaxAttempts = 2
  Commits <- CollapsedCommits
  Requests = {}
  ReadChoices <- BothReads
  Outside = Outside
  MaxRevision = 1
SPECIFICATION RoutingSpec
INVARIANT TriggersServedStrictly
CHECK_DEADLOCK FALSE
