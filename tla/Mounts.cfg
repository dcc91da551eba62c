SPECIFICATION FairSpec
CONSTANTS
  Geckos = {"carda"}
  Cards = {}
  Views = {"wod"}
  Fixed = {"nand"}
  NULL = NULL
INVARIANTS
  TypeOK
  DialogueConsistent
  GeckoFailUnmounted
  MotorJustified
PROPERTIES
  WaitProtectsDisc
  DialogueKeepsDevice
  DialogueEnds
  RemovalNoticed
  InsertionNoticed
  MotorStops
