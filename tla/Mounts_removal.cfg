SPECIFICATION FairSpec
CONSTANTS
  Geckos = {}
  Cards = {"sd"}
  Views = {"wod", "fst"}
  Fixed = {}
  NULL = NULL
PROPERTIES
  DiscRemovalNoticed
