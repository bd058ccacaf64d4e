SPECIFICATION FairSpec
CONSTANTS
  MaxEdits = 3
  Broken = {2}
INVARIANTS OneProcess ReplacedOnlyByGood
PROPERTIES LatestRuns InterruptEnds
