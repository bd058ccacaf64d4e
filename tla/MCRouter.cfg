SPECIFICATION FairSpec
CONSTANTS
  Methods <- MCMethods
  Patterns <- MCPatterns
  Paths <- MCPaths
  Asked <- MCAsked
  Lookups = {g1, g2}
  MaxAdds = 3
  Other = "BREW"
  Width = 256
INVARIANTS ArenaIsTable SearchWaitsForFreeze
PROPERTIES ImplementsTable LookupsReturn
