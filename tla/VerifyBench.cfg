SPECIFICATION MCSpec
CONSTANTS
  Lines <- ManyLines
  Baselines <- ManyBaselines
  Commands <- ManyCommands
  Rewrites = 1
  Invocations = 2
INVARIANTS
  ZeroIsEarned
  BundleIsOneVerdict
  StricterNeverPasses
  TuneCovers
