SPECIFICATION FairSpec
CONSTANTS
  Shells = {"A", "B"}
  LastPort = 2
  Strangers = {"web", "mute"}
INVARIANTS
  NoOrphan
  WindowShowsOurs
PROPERTIES
  StartEnds
CHECK_DEADLOCK FALSE
