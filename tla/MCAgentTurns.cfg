SPECIFICATION AgentSpec
CONSTANTS
  c1 = c1
  c2 = c2
  Nobody = Nobody
  Callers <- MCCallers
  Kinds <- MCKinds
  MaxMessages = 3
  MaxCancels = 1
  Batches <- MCBatches
  MaxCalls = 2
  MaxFaults = 1
  CommandLines <- MCCommandLines
  Listings <- MCListings
  MaxEvents = 2
  InstanceUsers = {"u1", "u2", "u3"}
  Dirs = {"w", "sub"}
  Worktree = "w"
  NoDir = "none"
  DirOf <- MCDirOf
  SessionDir <- MCSessionDir
  MaxInstances = 2
CHECK_DEADLOCK FALSE
INVARIANTS
  RegistryIsTrue
  OwnAnswerIsNewer
  OneTurnUnlessReloaded
  InstancesHold
PROPERTIES
  
  BatchesSettle
  CommandTellsTheTruth
