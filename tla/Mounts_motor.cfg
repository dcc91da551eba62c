SPECIFICATION FairSpec
CONSTANTS
  Geckos = {}
  Cards = {}
  Views = {"wod", "fst"}
  Fixed = {}
  NULL = NULL
PROPERTIES
  InactivityStopsMotor
