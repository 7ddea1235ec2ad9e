SPECIFICATION Spec
CONSTANTS
  Updaters = {p1, p2}
  Nobody = Nobody
  Tries = 3
INVARIANTS
  LastJobShows
PROPERTIES
  RegisterSpec
  EveryRunEnds
