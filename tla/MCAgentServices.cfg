SPECIFICATION Spec
CONSTANTS
  Roots = {r1}
  Asked = {"astro", "zls"}
  Touchers = {1, 2}
  MaxTouches = 2
  MaxChanges = 2
  MaxShares = 2
  AcpSessions = {"s1", "s2"}
  AcpCalls = {"k1"}
  MaxStreams = 2
  McpCallers = {1, 2}
  McpClient = {"m1"}
  Flows = {f1}
  Remote = TRUE
  PRUNE_PROTECT = 3
  PRUNE_MINIMUM = 1
  Sizes = {2}
  MaxMessages = 6
  MaxIds = 10
  Outputs <- MCOutputs
  Incomplete = {"max_output_tokens", "content_filter", "other"}
  MaxDeltas = 1
  MAX_OUTPUT_LENGTH = 1
  MaxPrinted = 3
  Catalogue <- MCCatalogue
  Settings <- MCSettings
  Environments = {{}, {"L"}, {"K", "N"}}
  Loaders <- MCLoaders
  Bundled = {"x"}
  ModelCallers = {1, 2}
  Questions <- MCQuestions
  Answers <- MCAnswers
  Models <- MCModels
  Params <- MCParams
  NormalId <- MCNormalId
  MaxSaid = 3
  Paths = {"f", "g"}
  Contents0 <- MCContents
  PatchTexts <- MCPatchTexts
  Words = {"a", "b", "c", "n"}
  SourceTexts <- MCSourceTexts
  Finds <- MCFinds
  Replacements <- MCReplacements
  MaxTextEdits = 1
  MaxCommits = 1
CHECK_DEADLOCK FALSE
INVARIANTS
  OneServerPerRoot
  AuthorityIsCurrent
  
  
  
  
  PatchIsWhole
  
  

  
  
  
