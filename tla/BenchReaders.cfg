SPECIFICATION ReadersSpec
CONSTANTS
  RunsPerBench = 2
  Epochs = 2
  Slack = 2
  Readings = 2
INVARIANTS
  ReadersTypeOK
  FreshUnlessNeverTruncated
  CleanEpochIsJudged
  PageTellsOneBench
  SettledPageIsWhole
  BadgesTellOneBench
PROPERTIES
  RecipeEnds
