SPECIFICATION Spec
CONSTANTS
  Runs = {p1, p2, p3}
  Commands <- MCCommands
  A = 1
  Den = 5
  PPM = 1000000
  Default <- MCDefault
  Slack = 2
INVARIANTS
  TypeOK
  MixTakesTwoWriters
  EvidenceAgrees
  PublishFollowsKnobs
PROPERTIES
  FailuresLeaveNoTrace
