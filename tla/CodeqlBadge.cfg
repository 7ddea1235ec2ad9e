SPECIFICATION Spec
CONSTANTS
  PerPage = 2
  Critical = {1, 4}
  Alerts = 6
  Days = 2
INVARIANTS
  TotalIsLastCount
  NoneOverlooked
PROPERTIES
  CommitsAreWhole
