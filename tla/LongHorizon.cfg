SPECIFICATION Spec
CONSTANTS
  Limits = {0, 1, 3}
  Durations = {0, 4}
  Interval = 1
  Slack = 2
INVARIANTS
  SuccessHasEvidence
  StaleOnlyIfLost
PROPERTIES
  JobEnds
