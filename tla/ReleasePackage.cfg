SPECIFICATION PackageSpec
CONSTANTS
  Names = {bench, prom}
  Changes = 3
  Packagings = 2
  Slack = 1
INVARIANTS
  OutputsFit
