SPECIFICATION TwinsSpec
CONSTANTS
  Thresholds <- MCThresholds
  Readings <- MCReadings
INVARIANTS
  TwinsTypeOK
  LatchedIffBlocked
  Dominance
  SubThresholdFaultInvisible
PROPERTIES
  OnlyOperatorReopens
  GateSpec
