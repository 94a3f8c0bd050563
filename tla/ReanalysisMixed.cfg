CONSTANTS
  Analyser = {"decoder", "checker"}
  MaxPlace = 2
  ChangeKind = {"bytes", "problems", "spaces", "resync"}
  Retracting = {"bytes"}
  Tracked = {"bytes", "problems", "resync"}
  Resync = "resync"
  Triggers <- Triggered
  Produces <- Produced
  Cancellable = {"decoder"}
  MaxAttempts = 2
  Commits <- BothCommits
  Requests = {}
  ReadChoices <- BothReads
  Outside = Outside
  MaxRevision = 3
SPECIFICATION RoutingSpec
INVARIANT UpToDateStrictly
CHECK_DEADLOCK FALSE
