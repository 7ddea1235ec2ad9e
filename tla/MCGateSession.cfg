SPECIFICATION Spec
CONSTANTS
  A = 1
  Den = 5
  PPM = 10
  MaxCount = 2
  Totals = {1, 2}
  Bursts = {5, 10}
  Skews = {0, 12}
  Rates <- MCRates
  Thresholds <- MCThresholds
INVARIANTS
  TypeOK
  StateIsHistory
  BlendBetween
PROPERTIES
  BurstOutlivesClear
