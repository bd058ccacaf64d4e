SPECIFICATION WalksSpec
CONSTANTS
  Methods <- MCMethods
  Patterns <- MCPatterns
  Paths = {}
  Asked = {}
  Lookups = {}
  MaxAdds = 0
  Other = "BREW"
  Tree <- MCTree
  Probes <- MCProbes
  Global = {"auth", "log"}
  Scheme <- MCScheme
  MaxRoots = 3
  MaxGuards = 2
  Struct <- MCStruct
  Config = "cfg"
  Form = "form"
  Vars <- MCVars
  Names <- MCNames
  Values <- MCValues
  Queries <- MCQueries
  MaxCalls = 3
  Raw <- MCRaw
  Number <- MCNumber
  Parts <- MCParts
  Unset = "unset"
INVARIANTS MountedAsDeclared DocumentAgrees LoadedAsDeclared BoundAsSent
PROPERTIES RawBodyStable
CHECK_DEADLOCK FALSE
