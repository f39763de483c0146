SPECIFICATION Spec
CONSTANTS
  p1 = p1
  p2 = p2
  p3 = p3
  c1 = c1
  c2 = c2
  doom = doom
  t1 = t1
  t2 = t2
  t3 = t3
  x1 = x1
  q1 = q1
  k1 = k1
  f1 = f1
  f2 = f2
  NoProc = NoProc
  Absent = Absent
  Procs <- MCProcs
  Ops <- MCOps
  Requests <- MCRequests
  SessionOf <- MCSessionOf
  NeedOf <- MCNeedOf
  PatternsOf <- MCPatternsOf
  AlwaysOf <- MCAlwaysOf
  Ruleset <- MCRuleset
  Covers <- MCCovers
  Calls <- MCCalls
  SameCall <- MCSameCall
  DoomAsk = doom
  DoomThreshold = 2
  ShouldBreak = TRUE
  MaxAttempts = 1
  Tools <- MCTools
  Jobs <- MCJobs
  SessionFor <- MCSessionFor
  TextParts <- MCTextParts
  ToolParts <- MCToolParts
  ApprovalParts <- MCApprovalParts
  PartSets <- MCPartSets
  MaxDeltas = 2
  MaxTurns = 1
  MaxCrashes = 1
  MaxHydrates = 1
  MaxWire = 2
  Files <- MCFiles
  MaxUndoTurns = 2
  MaxSteps = 2
  MaxWrites = 3
  MaxReverts = 3
  TestFiles = {"ATest", "BTest"}
  Classes = {"A", "B"}
  Contents <- MCContents
  Exercises <- MCExercises
  Imports <- MCImports
  TargetOf <- MCTargetOf
  MinCoverage = 70
  MinNewCoverage = 80
  MaxTestDrop = 0
  MaxTestDropPercent = 5
  Ignored = {}
  QualityParams <- MCQualityParams
  MaxEdits = 2
  MaxCalls = 2
  Rooms = {"s1", "s2"}
  Talking = {"s1"}
  ParentOf <- MCParentOf
  MaxPosts = 2
  MaxVersion = 1
  MaxRequests = 2
  MaxShown = 1
  MaxLoads = 1
  Ptys = {"t1"}
  Sockets = {"w1", "w2", "w3"}
  MaxOutput = 3
CHECK_DEADLOCK FALSE
INVARIANTS
  EditsKeepEdits
  
  
  
  OutputIsWhole
PROPERTIES
  ReaderEndsClean
  IsRecordStore
  QualityReportsAreTrue
